------------------------------- MODULE ClauseMap -------------------------------
(******************************************************************************)
(* The map of the enumeration algorithms: a set of clauses over one selection *)
(* variable per element of a universe (the clauses of a proof, or the gates   *)
(* of a model).  Its solutions are the subsets of the universe still to be    *)
(* explored.                                                                  *)
(******************************************************************************)
EXTENDS Integers, FiniteSets

\* A clause is satisfied by a selection that leaves out one of the elements it
\* has negated, or takes one of those it has positive.  The clause {ID_FALSE}
\* has neither.
MapClause(U) == [neg : SUBSET U, pos : SUBSET U]

SatisfiesClause(S, cls) == ~(cls.neg \subseteq S) \/ cls.pos \intersect S # {}

Solutions(U, map) ==
  { S \in SUBSET U : \A cls \in map : SatisfiesClause(S, cls) }

Largest(F)  == { S \in F : \A T \in F : Cardinality(T) <= Cardinality(S) }
Smallest(F) == { S \in F : \A T \in F : Cardinality(S) <= Cardinality(T) }

\* The elements whose variable the plain SAT solver has seen.
Mentioned(map) == UNION { cls.neg \union cls.pos : cls \in map }

\* Element x is always selected.
SelectClause(x) == [neg |-> {}, pos |-> {x}]

\* Faulty: without the last element.
BlockUpClause_ButLast(S) == [neg |-> { c \in S : \E d \in S : c < d }, pos |-> {}]

\* Faulty: S is excluded with the elements it has.
BlockDownClause_All(U, S) == [neg |-> {}, pos |-> U]

\* Faulty: c may support itself.
CollapseClause_Itself(c, K) == [neg |-> {c}, pos |-> K \union {c}]

\* Exclude S and its supersets, or S and its subsets.
BlockUpClause(S)      == [neg |-> S,  pos |-> {}]
BlockDownClause(U, S) == [neg |-> {}, pos |-> U \ S]

\* Element c needs one of K.
CollapseClause(c, K) == [neg |-> {c}, pos |-> K]

================================================================================
