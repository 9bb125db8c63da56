------------------------------- MODULE IVCFinders ------------------------------
(******************************************************************************)
(* The other IVC finders that work on seeds: MARCOIVCFinder, which enumerates *)
(* the cores from maximum seeds down, and IVCBFFinder and IVCUCBFFinder,      *)
(* which shrink the whole model once and are also what MARCOIVCFinder shrinks *)
(* with.  Safety is decided by IC3, by BMC and IC3 or by an incremental       *)
(* debugger, and each of them decides it: no option tells them apart here.    *)
(******************************************************************************)
EXTENDS IVC

CONSTANTS
  Fanout,     \* for each gate, the gates it is an input of
  Outputs,    \* the property's output and the next-state functions, if gates
  Options     \* the settings of the options under consideration

\* finder: the finder that runs.  use_ivcucbf: MARCOIVCFinder shrinks with
\* IVCUCBFFinder.  basic_hints, complex_hints: marcoivc_explore_*_hints.
\* use_core: ivc_ucbf_use_core or ivc_ucbf_use_mus.
Setting == [finder : {"marcoivc", "ivcbf", "ivcucbf"}, use_ivcucbf : BOOLEAN,
            basic_hints : BOOLEAN, complex_hints : BOOLEAN, use_core : BOOLEAN]

VARIABLES
  opts,        \* the setting of the options
  map,         \* the clauses of m_map
  mivcs,       \* m_mivcs
  smallest,    \* m_smallest_ivc, {} while empty
  minimum,     \* m_minimum_ivc, {} while empty
  seed,        \* doFindIVCs's seed
  todo,        \* the gates IVCBFFinder's shrink has still to try
  pc           \* where the finder is

vars == <<opts, map, mivcs, smallest, minimum, seed, todo, pc>>

Found == { mivcs[i] : i \in DOMAIN mivcs }

\* addExploreHints: a gate needs one of the gates it feeds.  Unlike
\* UnifiedIVCFinder's hints these do not except outputs.
ExploreHints(o) ==
  { CollapseClause(g, Fanout[g]) :
      g \in { h \in Gate : \/ Cardinality(Fanout[h]) = 1 /\ o.basic_hints
                           \/ Fanout[h] # {} /\ o.complex_hints } }

Unexplored == Solutions(Gate, map)

WithCore == \/ opts.finder = "ivcucbf"
            \/ opts.finder = "marcoivc" /\ opts.use_ivcucbf

\* shrink begins with IVCUCBFFinder's core, or right away with IVCBFFinder's loop.
EnterShrink(S) ==
  /\ seed' = S
  /\ todo' = S
  /\ pc' = IF WithCore THEN "core" ELSE "shrink"

Init ==
  /\ opts \in Options
  /\ map = IF opts.finder = "marcoivc" THEN ExploreHints(opts) ELSE {}
  /\ mivcs = <<>>
  /\ smallest = {}
  /\ minimum = {}
  /\ seed = {}
  /\ todo = {}
  /\ pc = IF opts.finder = "marcoivc" THEN "unexplored" ELSE "whole"

\* IVCBFFinder's and IVCUCBFFinder's doFindIVCs.
ShrinkWhole ==
  /\ pc = "whole"
  /\ EnterShrink(Gate)
  /\ UNCHANGED <<opts, map, mivcs, smallest, minimum>>

\* getUnexplored of a map that maximizes: a safe seed is shrunk, any other
\* cannot grow.
SafeSeed ==
  /\ pc = "unexplored"
  /\ \E S \in Largest(Unexplored) :
       /\ Safe(S)
       /\ EnterShrink(S)
  /\ UNCHANGED <<opts, map, mivcs, smallest, minimum>>

UnsafeSeed ==
  /\ pc = "unexplored"
  /\ \E S \in Largest(Unexplored) :
       /\ ~Safe(S)
       /\ seed' = S
  /\ pc' = "blockDown"
  /\ UNCHANGED <<opts, map, mivcs, smallest, minimum, todo>>

blockDown ==
  /\ pc = "blockDown"
  /\ map' = map \union {BlockDownClause(Gate, seed)}
  /\ seed' = {}
  /\ pc' = "unexplored"
  /\ UNCHANGED <<opts, mivcs, smallest, minimum, todo>>

MapExhausted ==
  /\ pc = "unexplored"
  /\ Unexplored = {}
  /\ minimum' = smallest
  /\ pc' = "done"
  /\ UNCHANGED <<opts, map, mivcs, smallest, seed, todo>>

\* IVCUCBFFinder's shrinkUC: the gates of a core over which the proof of the
\* seed is still inductive; the seed itself without one, or when the core leaves
\* the initial states unsafe.
ShrinkUC ==
  /\ pc = "core"
  /\ seed' \in IF opts.use_core THEN { C \in SUBSET seed : Safe(C) } ELSE {seed}
  /\ todo' = seed'
  /\ pc' = "shrink"
  /\ UNCHANGED <<opts, map, mivcs, smallest, minimum>>

\* One round of IVCBFFinder's loop; a seed may have been shuffled.
ShrinkStep ==
  /\ pc = "shrink"
  /\ \E g \in todo :
       /\ seed' = IF Safe(seed \ {g}) THEN seed \ {g} ELSE seed
       /\ todo' = todo \ {g}
  /\ UNCHANGED <<opts, map, mivcs, smallest, minimum, pc>>

\* A core is reported; only MARCOIVCFinder goes on, and keeps the smallest.
ReportAndBlock ==
  /\ pc = "shrink"
  /\ todo = {}
  /\ opts.finder = "marcoivc"
  /\ map' = map \union {BlockUpClause(seed)}
  /\ mivcs' = Append(mivcs, seed)
  /\ smallest' = IF smallest = {} \/ Cardinality(seed) < Cardinality(smallest)
                 THEN seed ELSE smallest
  /\ seed' = {}
  /\ pc' = "unexplored"
  /\ UNCHANGED <<opts, minimum, todo>>

Report ==
  /\ pc = "shrink"
  /\ todo = {}
  /\ opts.finder # "marcoivc"
  /\ mivcs' = Append(mivcs, seed)
  /\ pc' = "done"
  /\ UNCHANGED <<opts, map, smallest, minimum, seed, todo>>

Next ==
  \/ ShrinkWhole
  \/ SafeSeed
  \/ UnsafeSeed
  \/ blockDown
  \/ MapExhausted
  \/ ShrinkUC
  \/ ShrinkStep
  \/ ReportAndBlock
  \/ Report

\* A sequential program: it runs on until it returns.
Spec == Init /\ [][Next]_vars /\ WF_vars(Next)

--------------------------------------------------------------------------------
(* Properties.                                                                *)

\* The assertions of blockUp and blockDown: a seed to block is not empty.
SeedNotEmpty ==
  /\ pc = "blockDown" => seed # {}
  /\ pc = "shrink" /\ opts.finder = "marcoivc" /\ todo = {} => seed # {}

\* With MARCOIVCFinder, the promise of a complete enumeration; the other two
\* report a core, and announce none as the minimum.
Enumeration == INSTANCE MinimalSetEnumeration WITH
  Minimal <- MIVC, LeastSize <- SmallestIVC,
  reported <- mivcs, announced <- minimum,
  returned <- (pc = "done" /\ opts.finder = "marcoivc")

ImplementsEnumeration == Enumeration!Spec

\* findIVCs returns.
Termination == <>(pc = "done")

================================================================================
