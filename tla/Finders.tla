-------------------------------- MODULE Finders --------------------------------
(******************************************************************************)
(* The two finders that CAIVCFinder, IVCUCBFFinder and UnifiedIVCFinder call. *)
(*                                                                            *)
(* HittingSetFinder: smallest hitting sets of sets that keep coming, some     *)
(* solutions blocked.  A set that includes another is not kept, so that renew *)
(* gives a new solver fewer clauses.  The MaxSAT solver finds any optimum     *)
(* (module MaxSATSolver).                                                     *)
(*                                                                            *)
(* MUSFinder behind MUSFinderWrapper: the groups of clauses get numbers of    *)
(* their own; findMUS goes through a core in the order of the numbers, while  *)
(* the core is replaced by smaller ones under its iterator.                   *)
(******************************************************************************)
EXTENDS ClauseMap, SequencesExt

CONSTANTS
  Element,    \* the elements of the sets to hit
  Group       \* the groups of the caller of MUSFinder

VARIABLES
  sets,       \* m_sets of HittingSetFinder
  known,      \* m_known
  blocked,    \* m_blocked
  clauses,    \* the clauses of m_solver
  added,      \* every set passed to addSet
  answers,    \* the answer of the last solve, if no call changed the problem since
  formula,    \* the formula of MUSFinder
  external,   \* m_internalToExternal; the internal group i is at position i + 1
  mus,        \* findMUS's mus, internal groups, sorted
  it,         \* the position of its iterator
  pc          \* "add", then "loop", then "done"

\* A set of numbers in a vector, in increasing order.
InOrder(C) ==
  CHOOSE seq \in [1 .. Cardinality(C) -> C] :
    \A i, j \in DOMAIN seq : i < j => seq[i] < seq[j]

--------------------------------------------------------------------------------
(* HittingSetFinder.                                                          *)

hittingVars == <<sets, known, blocked, clauses, added, answers>>

HittingInit ==
  /\ sets = <<>>
  /\ known = {}
  /\ blocked = {}
  /\ clauses = {}
  /\ added = {}
  /\ answers = {}

Hits(s) == [neg |-> {}, pos |-> s]

\* The first set kept that s includes, where checkSubsumption stops; a set equal
\* to s is replaced by it.
Subsumer(s) ==
  LET within == { i \in DOMAIN sets : sets[i] \subseteq s /\ sets[i] # s }
  IN  IF within = {} THEN Len(sets) + 1 ELSE Min(within)

\* checkSubsumption's loop over m_sets: those up to there that include s go.
WithoutSupersets(s) ==
  LET kept == InOrder({ i \in DOMAIN sets : i < Subsumer(s) => ~(s \subseteq sets[i]) })
  IN  [i \in DOMAIN kept |-> sets[kept[i]]]

\* Its result.
Keeps(s) == Subsumer(s) > Len(sets)

\* addSet
AddSet(s) ==
  /\ added' = added \union {s}
  /\ IF Keeps(s)
     THEN /\ sets' = Append(WithoutSupersets(s), s)
          /\ known' = known \union s
          /\ clauses' = clauses \union {Hits(s)}
     ELSE /\ sets' = WithoutSupersets(s)
          /\ UNCHANGED <<known, clauses>>
  /\ answers' = {}
  /\ UNCHANGED blocked

\* solve.  Elements not known are in no answer; none at all reads as the empty set.
Solve ==
  /\ LET found == Smallest(Solutions(known, clauses))
     IN  \E answer \in IF found = {} THEN {{}} ELSE found : answers' = {answer}
  /\ UNCHANGED <<sets, known, blocked, clauses, added>>

\* blockSolution; a solver takes no empty clause.
BlockSolution ==
  /\ \E answer \in answers \ {{}} :
       /\ blocked' = blocked \union {answer}
       /\ clauses' = clauses \union {BlockUpClause(answer)}
  /\ answers' = {}
  /\ UNCHANGED <<sets, known, added>>

\* renew
Renew ==
  /\ clauses' = { Hits(sets[i]) : i \in DOMAIN sets } \union { BlockUpClause(B) : B \in blocked }
  /\ UNCHANGED <<sets, known, blocked, added, answers>>

HittingNext ==
  \/ \E s \in (SUBSET Element) \ {{}} : AddSet(s)
  \/ Solve
  \/ BlockSolution
  \/ Renew

--------------------------------------------------------------------------------
(* MUSFinder.                                                                 *)

musVars == <<formula, external, mus, it, pc>>

\* All formulas, each the set of its minimal unsatisfiable sets of groups.
Formulas ==
  { F \in SUBSET (SUBSET Group) :
      F # {} /\ \A A \in F, B \in F : A \subseteq B => A = B }

MUSInit ==
  /\ formula \in Formulas
  /\ external = <<>>
  /\ mus = <<>>
  /\ it = 1
  /\ pc = "add"

Internal == 0 .. Len(external) - 1

\* mapCore
mapCore(internal) == { external[gid + 1] : gid \in internal }

\* addSoftClause of the wrapper, for the first clause of a group
AddSoftClause(group) ==
  /\ pc = "add"
  /\ group \notin Range(external)
  /\ external' = Append(external, group)
  /\ UNCHANGED <<formula, mus, it, pc>>

Unsat(groups) == \E M \in formula : M \subseteq mapCore(groups)

\* The cores isUNSAT may leave of some groups, sorted.
Cores(groups) == { InOrder(C) : C \in { C \in SUBSET groups : Unsat(C) } }

\* findCore, which asserts that all groups together have no solution.
FindCore ==
  /\ pc = "add"
  /\ Unsat(Internal)
  /\ mus' \in Cores(Internal)
  /\ pc' = "loop"
  /\ UNCHANGED <<formula, external, it>>

Candidate == Range(mus) \ {mus[it]}

\* Faulty: the iterator goes to the next position in the new vector.
UpperBound_Next(seq, gid) == it + 1

\* upper_bound
UpperBound(seq, gid) == Cardinality({ i \in DOMAIN seq : seq[i] <= gid }) + 1

\* findMUS: the group can go, with all that is not in the core of the others ...
RemoveGroup ==
  /\ pc = "loop"
  /\ it <= Len(mus)
  /\ mus' \in Cores(Candidate)
  /\ it' = UpperBound(mus', mus[it])
  /\ UNCHANGED <<formula, external, pc>>

\* ... or it stays.
KeepGroup ==
  /\ pc = "loop"
  /\ it <= Len(mus)
  /\ ~Unsat(Candidate)
  /\ it' = it + 1
  /\ UNCHANGED <<formula, external, mus, pc>>

Finish ==
  /\ pc = "loop"
  /\ it > Len(mus)
  /\ pc' = "done"
  /\ UNCHANGED <<formula, external, mus, it>>

FindMUS == RemoveGroup \/ KeepGroup \/ Finish

MUSNext ==
  \/ \E group \in Group : AddSoftClause(group)
  \/ FindCore
  \/ FindMUS

--------------------------------------------------------------------------------
(* Properties.                                                                *)

\* An answer is a smallest set that hits every set ever added, kept or not, and
\* includes no blocked one; none kept is redundant, in whatever order they came.
HittingSetMinimum ==
  /\ \A answer \in answers :
       LET hitting == { H \in SUBSET Element :
                          /\ \A s \in added : s \intersect H # {}
                          /\ \A B \in blocked : ~(B \subseteq H) }
       IN  IF hitting = {} THEN answer = {} ELSE answer \in Smallest(hitting)
  /\ \A i, j \in DOMAIN sets : i # j => ~(sets[i] \subseteq sets[j])

\* The result is a minimal unsatisfiable set of the caller's groups, whatever cores
\* the solver returned on the way and whatever order the groups were numbered in.
ResultIsMUS == pc = "done" => mapCore(Range(mus)) \in formula

================================================================================
