------------------------------ MODULE Minimizers ------------------------------
(******************************************************************************)
(* Engine::minimize with the algorithms that reduce a proof to one smaller    *)
(* proof, and the procedures the minimizers call: SISIMinimizer and           *)
(* BruteForceMinimizer (module SISI), SimpleMinimizer, findMinimalSupport     *)
(* (module MinimalSupport), findSafeMIS.  One of them is picked and runs to   *)
(* its end on the proof; the variables of the others keep their first values. *)
(******************************************************************************)
EXTENDS Consecution, Sequences

CONSTANT
  SimpleProof    \* the clauses of the proof given to the simple minimizer

\* The proofs to be minimized are proofs: all the clauses, and those the simple
\* minimizer gets (fewer, since it tries every order of every support).
ASSUME ProofIsInductive ==
  /\ IsSIS(ClauseID)
  /\ SimpleProof \in SIS

VARIABLES
  algorithm,                           \* the algorithm picked, a parameter of minimize
  pc, it, nec, minimalProofs,          \* named alike in several of the modules
  feas, knownInd, keep, rest,          \* of module SISI
  simple_min_use_min_supp, toProcess, supported,   \* of module SimpleMinimizer
  cls, given, frame,                   \* of module MinimalSupport
  input, vec, removed                  \* of module FindSafeMIS

sisiVars == <<feas, knownInd, keep, rest>>
simpleVars == <<simple_min_use_min_supp, toProcess, supported>>
supportVars == <<cls, given, frame>>
safeMISVars == <<input, vec, removed>>

vars == <<algorithm, pc, it, nec, minimalProofs, sisiVars, simpleVars, supportVars,
          safeMISVars>>

Clausewise == INSTANCE SISI
Simple == INSTANCE SimpleMinimizer WITH AllClauses <- SimpleProof
Support == INSTANCE MinimalSupport
SafeMIS == INSTANCE FindSafeMIS

NoSISI == feas = {} /\ knownInd = {} /\ keep = {} /\ rest = {}
NoSimple == simple_min_use_min_supp = FALSE /\ toProcess = <<>> /\ supported = {}
NoSupport == cls = Property /\ given = {} /\ frame = {}
NoSafeMIS == input = {} /\ vec = {} /\ removed = FALSE

\* Engine::minimize, and what calls the two procedures
Init ==
  \/ /\ algorithm = "clausewise"
     /\ Clausewise!Init
     /\ NoSimple /\ NoSupport /\ NoSafeMIS
  \/ /\ algorithm = "simple"
     /\ Simple!Init
     /\ it = 0
     /\ NoSISI /\ NoSupport /\ NoSafeMIS
  \/ /\ algorithm = "support"
     /\ Support!Init
     /\ nec = {} /\ minimalProofs = {}
     /\ NoSISI /\ NoSimple /\ NoSafeMIS
  \/ /\ algorithm = "safeMIS"
     /\ SafeMIS!Init
     /\ minimalProofs = {}
     /\ NoSISI /\ NoSimple /\ NoSupport

ClausewiseStep ==
  /\ algorithm = "clausewise"
  /\ Clausewise!Next
  /\ UNCHANGED <<algorithm, simpleVars, supportVars, safeMISVars>>

SimpleStep ==
  /\ algorithm = "simple"
  /\ Simple!Next
  /\ UNCHANGED <<algorithm, it, sisiVars, supportVars, safeMISVars>>

SupportStep ==
  /\ algorithm = "support"
  /\ Support!Next
  /\ UNCHANGED <<algorithm, nec, minimalProofs, sisiVars, simpleVars, safeMISVars>>

SafeMISStep ==
  /\ algorithm = "safeMIS"
  /\ SafeMIS!Next
  /\ UNCHANGED <<algorithm, minimalProofs, sisiVars, simpleVars, supportVars>>

Next == ClausewiseStep \/ SimpleStep \/ SupportStep \/ SafeMISStep

\* Each is a sequential procedure, which keeps running until it returns.
Spec == Init /\ [][Next]_vars /\ WF_vars(Next)

--------------------------------------------------------------------------------
(* Properties.                                                                *)

\* SISI and brute force: NEC holds only clauses no proof still considered can
\* do without, and a clause kept stays necessary although the set it was tested
\* in shrinks, which is why findSIS gives up as soon as a clause of NEC goes.
NecessaryStays ==
  algorithm = "clausewise" => Clausewise!NECNecessary /\ Clausewise!KeptNecessary

\* findMinimalSupport never loses the support while it replaces the frame, and
\* its result is one that its callers are modelled with.
StillSupports == algorithm = "support" => Support!StillSupports

\* The one proof that results: minimal after the clausewise algorithms, safe and
\* inductive after the simple one.
FoundAreProofs ==
  /\ algorithm = "clausewise" => Clausewise!FoundAreMSISes
  /\ algorithm = "simple" => Simple!FoundAreProofs

\* findSafeMIS: dropping several clauses after one failed query never drops one of
\* the largest inductive subset, whichever assignment the solver found
\* (find_safe_mis.cpp:96).
GreatestKept == algorithm = "safeMIS" => SafeMIS!GreatestKept

\* findSafeMIS: a true result leaves exactly the largest inductive subset, with
\* the necessary clauses; a false one means that it lacks one of them
\* (find_safe_mis.cpp:136).
ResultCorrect == algorithm = "safeMIS" => SafeMIS!ResultCorrect

\* minimize() returns, with one proof; so do the two procedures.
Termination ==
  <>(/\ pc \in {"done", "true", "false"}
     /\ algorithm \in {"clausewise", "simple"} => Cardinality(minimalProofs) = 1)

================================================================================
