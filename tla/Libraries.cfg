\* Scripted clauses and queries, with a restart and a reduceDB() in each query at any
\* moment; every sequence of four calls of an adaptor; AIGs of up
\* to five variables in every order, and damaged files.  Scripts and files end.
SPECIFICATION Spec
CONSTANTS
  SearchScripts <- TheSearchScripts
  MaxRestarts = 1
  MaxReductions = 1
  SimplifierScripts <- TheSimplifierScripts
  IDClauses <- TheClauses
  IDAssumptions <- TheAssumptions
  MaxGroups = 2
  MaxCalls = 4
  Originals <- TheOriginals
  Damaged <- TheDamaged
  NoName = NoName
  Numbers <- TheNumbers
  NameX = NameX
  NameY = NameY
  NameP = NameP
  NameQ = NameQ
  NameOut = NameOut
INVARIANTS SearchSound SimplificationEquivalent FilesRight
PROPERTY ImplementsSAT
CHECK_DEADLOCK FALSE
