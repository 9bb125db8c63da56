------------------------------- MODULE Libraries -------------------------------
(******************************************************************************)
(* The libraries below PME and its layers over them, in families: Minisat and *)
(* Glucose (module CDCL), Minisat with simplification (SimpSolver), the       *)
(* SATAdaptor classes between them and their callers, and the AIGER library   *)
(* with the command line's use of it (Aiger).  One of them is picked and      *)
(* called on; the variables of the others keep their first values.            *)
(******************************************************************************)
EXTENDS Integers, FiniteSets, Sequences, Functions

CONSTANTS
  SearchScripts, MaxRestarts, MaxReductions,             \* as in module CDCL
  SimplifierScripts,                                     \* as in module SimpSolver
  IDClauses, IDAssumptions, MaxGroups, MaxCalls,         \* as in module SATAdaptor
  Originals, Damaged, NoName, Numbers                    \* as in module Aiger

\* Clauses are finite sets of literals, assumptions are lists of them.
SearchCall ==
  [op : {"add"}, lits : SUBSET (Int \ {0})] \union [op : {"solve"}, lits : Seq(Int \ {0})]

ASSUME SearchScriptsAssumption ==
  \A s \in SearchScripts :
    /\ s \in Seq(SearchCall)
    /\ \A i \in DOMAIN s : s[i].op = "add" => IsFiniteSet(s[i].lits)

VARIABLES
  library,                                  \* the one picked
  formula, answer, calls, ok, created, clauses, trail, assumptions, pc,
                                           \* named alike in several modules
  backend, learnts, watch, trailLim, vardata, qhead, pending, restarts, reductions,
                                           \* of module CDCL
  removed, bwdsub, frozen, eliminated, elimclauses, touched, heap, queue, resolvents,
  exported,                                \* of module SimpSolver
  deduplicating, IDToSATMap, variables, groups, satClauses, known, group, callsMade,
                                           \* of module SATAdaptor
  original, file, ckt, core, saved, phase  \* of module Aiger

searchVars == <<backend, learnts, watch, trailLim, vardata, qhead, pending, restarts,
                reductions>>
simplifierVars == <<removed, bwdsub, frozen, eliminated, elimclauses, touched, heap, queue,
                    resolvents, exported>>
adaptorVars == <<deduplicating, IDToSATMap, variables, groups, satClauses, known, group,
                 callsMade>>
aigerVars == <<original, file, ckt, core, saved, phase>>
backendVars == <<calls, ok, created, clauses, trail>>
vars == <<library, formula, answer, assumptions, pc, backendVars, searchVars, simplifierVars,
          adaptorVars, aigerVars>>

Search == INSTANCE CDCL WITH Scripts <- SearchScripts
Simplifier == INSTANCE SimpSolver WITH Scripts <- SimplifierScripts
Adaptor == INSTANCE SATAdaptor
Files == INSTANCE Aiger

NoSearch ==
  /\ backend = "none" /\ learnts = {} /\ watch = <<>> /\ trailLim = <<>> /\ vardata = <<>>
  /\ qhead = 0 /\ pending = {} /\ restarts = 0 /\ reductions = 0
NoSimplifier ==
  /\ removed = {} /\ bwdsub = {} /\ frozen = {} /\ eliminated = {} /\ elimclauses = <<>>
  /\ touched = {} /\ heap = {} /\ queue = {} /\ resolvents = {} /\ exported = {}
NoAdaptor ==
  /\ deduplicating = FALSE /\ IDToSATMap = <<>> /\ variables = 0 /\ groups = {}
  /\ satClauses = {} /\ known = {} /\ group = 0 /\ callsMade = 0
NoBackend ==
  /\ calls = <<>> /\ ok = TRUE /\ created = {} /\ clauses = {} /\ trail = <<>>
NoFiles ==
  /\ original = <<>> /\ file = <<>> /\ ckt = <<>> /\ core = {} /\ saved = <<>>
  /\ phase = "none"

Init ==
  \/ /\ library = "search"
     /\ Search!Init
     /\ NoSimplifier /\ NoAdaptor /\ NoFiles
  \/ /\ library = "simplifier"
     /\ Simplifier!Init
     /\ NoSearch /\ NoAdaptor /\ NoFiles
  \/ /\ library = "adaptor"
     /\ Adaptor!Init
     /\ NoBackend /\ NoSearch /\ NoSimplifier /\ NoFiles
  \/ /\ library = "aiger"
     /\ Files!Init
     /\ NoBackend /\ NoSearch /\ NoSimplifier /\ NoAdaptor
     /\ formula = {} /\ answer = [result |-> "none", lits |-> {}]
     /\ assumptions = {} /\ pc = "idle"

SearchStep ==
  /\ library = "search"
  /\ Search!Next
  /\ UNCHANGED <<library, simplifierVars, adaptorVars, aigerVars>>

SimplifierStep ==
  /\ library = "simplifier"
  /\ Simplifier!Next
  /\ UNCHANGED <<library, searchVars, adaptorVars, aigerVars>>

AdaptorStep ==
  /\ library = "adaptor"
  /\ Adaptor!Next
  /\ UNCHANGED <<library, backendVars, searchVars, simplifierVars, aigerVars>>

AigerStep ==
  /\ library = "aiger"
  /\ Files!Next
  /\ UNCHANGED <<library, formula, answer, assumptions, pc, backendVars, searchVars,
                 simplifierVars, adaptorVars>>

Next == SearchStep \/ SimplifierStep \/ AdaptorStep \/ AigerStep

\* The steps inside a call.
WorkStep ==
  \/ library = "search" /\ Search!Search /\ SearchStep
  \/ library = "simplifier" /\ Simplifier!Work /\ SimplifierStep
  \/ library = "adaptor" /\ Adaptor!solved /\ AdaptorStep

\* A call that has begun keeps running; nobody has to make another.
Spec == Init /\ [][Next]_vars /\ WF_vars(WorkStep)

--------------------------------------------------------------------------------
(* Properties.                                                                *)

\* Solver::search: what it relies on and nobody checks.  Two watched literals are
\* enough to find every conflict and unit, also after backjumps, restarts, removal of
\* clauses and clauses added between queries; reasons stay clauses that imply their
\* literal from earlier ones; clauses learnt and literals kept at level 0 outlive the
\* assumptions under which they were found.
SearchSound == library = "search" => Search!SearchSound

\* SimpSolver::eliminate and MinisatSimplifyingSolver::eliminate.
SimplificationEquivalent == library = "simplifier" => Simplifier!SimplificationEquivalent

\* aiger_read_generic, aiger_write_generic and save_subcircuit.  Files that are read
\* are well-formed AIGs; writing one, with new numbers, differences as bytes, optional
\* counts and resets left out, and reading it changes nothing but the numbers.  Each
\* IVC of it, whatever the order of its variables, becomes an AIG that the library
\* accepts, in which nothing that the IVC's latches need is missing.
FilesRight == library = "aiger" => Files!FilesRight

\* All of the SAT solvers answer queries as a SAT library does, and they do answer: whatever was
\* learnt, eliminated, numbered or grouped before.
Abstract == INSTANCE SATSolver WITH
  query <- CASE library = "search" /\ pc = "searching" -> <<0, Range(assumptions)>>
             [] library = "simplifier" /\ pc = "solving" -> <<0, assumptions>>
             [] library = "adaptor" /\ pc = "solving" -> <<group, assumptions>>
             [] OTHER -> <<>>
ImplementsSAT == Abstract!Spec

================================================================================
