--------------------------------- MODULE CDCL ---------------------------------
(******************************************************************************)
(* Minisat::Solver and Glucose::Solver below MinisatSolver and GlucoseSolver: *)
(* search with watched literals, clauses learnt from conflicts, restarts and  *)
(* deletion of learnt clauses, called again and again with more clauses and   *)
(* other assumptions.                                                         *)
(*                                                                            *)
(* A clause is the set of its literals, at least two, of which two are        *)
(* watched; two equal clauses are one.  The order of the literals in a clause *)
(* and of the clauses in a watch list, the activities, saved phases and LBDs  *)
(* that guide the heuristics, and the counters that trigger restarts,         *)
(* simplify() and reduceDB() are left out: any order and any moment.          *)
(* certifiedUNSAT, the incremental mode and the parallel solver are off, as   *)
(* they are in GlucoseSolver.                                                 *)
(******************************************************************************)
EXTENDS Integers, FiniteSets, Sequences, TLC, FiniteSetsExt, Functions

CONSTANTS
  Scripts,         \* sequences of calls: [op |-> "add", lits |-> a clause] and
                   \* [op |-> "solve", lits |-> a sequence of assumptions]
  MaxRestarts,     \* the restarts of a query
  MaxReductions    \* the calls of reduceDB() in a query

VARIABLES
  backend,         \* "minisat" or "glucose"
  calls,           \* the calls to come
  formula, answer, \* as in SATSolver
  ok,              \* the clauses were not found contradictory
  created,         \* the variables
  clauses, learnts,
  watch,           \* the two watched literals of each clause
  trail,           \* the literals assigned
  trailLim,        \* the lengths of the trail before each decision level
  vardata,         \* the level and the reason of each variable assigned
  qhead,           \* the literals whose clauses were visited
  pending,         \* the clauses still to visit for the last of them
  assumptions,
  pc,              \* "idle", "adding" or "searching"
  restarts, reductions

clauseVars == <<clauses, learnts, watch>>
trailVars == <<trail, trailLim, vardata, qhead>>
callVars == <<backend, calls, formula, answer, created, assumptions>>
vars == <<callVars, ok, clauseVars, trailVars, pending, pc, restarts, reductions>>

NoReason == {}
NoAnswer == [result |-> "none", lits |-> {}]

Literals == created \union { -v : v \in created }
VarOf(l) == IF l < 0 THEN -l ELSE l

--------------------------------------------------------------------------------
(* The trail.                                                                 *)

True(l) == l \in Range(trail)
False(l) == -l \in Range(trail)
Undef(l) == ~True(l) /\ ~False(l)

decisionLevel == Len(trailLim)
Level(l) == vardata[VarOf(l)].level
Reason(l) == vardata[VarOf(l)].reason    \* the clause that implied it, or NoReason

\* The trail after cancelUntil(level).
cancelUntil(level) ==
  IF level < decisionLevel THEN SubSeq(trail, 1, trailLim[level + 1]) ELSE trail

Kept(level) == [v \in { u \in DOMAIN vardata : vardata[u].level <= level } |-> vardata[v]]

Backtrack(level) ==
  /\ trail' = cancelUntil(level)
  /\ trailLim' = SubSeq(trailLim, 1, level)
  /\ vardata' = Kept(level)
  /\ qhead' = IF level < decisionLevel THEN Len(cancelUntil(level)) ELSE qhead

Enqueue(t, data, lit, from, level) ==
  /\ Assert(lit \notin Range(t) /\ -lit \notin Range(t), "uncheckedEnqueue")
  /\ trail' = Append(t, lit)
  /\ vardata' = [v \in DOMAIN data \union {VarOf(lit)} |->
                   IF v = VarOf(lit) THEN [level |-> level, reason |-> from] ELSE data[v]]

uncheckedEnqueue(lit, from) == Enqueue(trail, vardata, lit, from, decisionLevel)

BacktrackAndEnqueue(level, lit, from) ==
  /\ Enqueue(cancelUntil(level), Kept(level), lit, from, level)
  /\ trailLim' = SubSeq(trailLim, 1, level)
  /\ qhead' = Len(cancelUntil(level))

--------------------------------------------------------------------------------
(* Conflicts.                                                                 *)

AboveRoot(C) == { l \in C : Level(l) > 0 }
OfLevel(C) == { l \in C : Level(l) = decisionLevel }

\* The false literals of a reason that made literal l false, NOT l aside.
Causes(l) == AboveRoot(Reason(l) \ {-l})

\* analyze: down the trail, resolve the literals of the conflict with their reasons
\* until one of this decision level is left, the first unique implication point.
FirstUIP(confl) ==
  LET cut[n \in 0 .. Len(trail)] ==
        IF n = 0 THEN AboveRoot(confl)
        ELSE LET C == cut[n - 1]
                 l == -trail[Len(trail) + 1 - n]
             IN  IF Cardinality(OfLevel(C)) > 1 /\ l \in C THEN (C \ {l}) \union Causes(l) ELSE C
  IN  cut[Len(trail)]

\* The literals that the others of clause C imply.
litRedundant(C) ==
  LET redundant[n \in 0 .. Len(trail)] ==
        IF n = 0 THEN {}
        ELSE LET R == redundant[n - 1]
                 l == -trail[n]
             IN  IF Reason(l) # NoReason /\ Causes(l) \subseteq C \union R THEN R \union {l} ELSE R
  IN  redundant[Len(trail)]

minimisationWithBinaryResolution(C, uip) ==
  { l \in C : l # uip => {uip, -l} \notin DOMAIN watch }

\* The literal analyze asserts and the clause it learns.
analyze(confl) ==
  LET cut == FirstUIP(confl)
      uip == CHOOSE l \in cut : Level(l) = decisionLevel
      short == {uip} \union (cut \ litRedundant(cut))
  IN  <<uip, IF backend = "glucose" THEN minimisationWithBinaryResolution(short, uip)
             ELSE short>>

\* Faulty: the level of the first of the other literals.
BacktrackLevel_Lowest(uip, C) ==
  IF C = {uip} THEN 0 ELSE Min({ Level(l) : l \in C \ {uip} })

BacktrackLevel(uip, C) == Max({ Level(l) : l \in C \ {uip} } \union {0})

\* analyzeFinal for an assumption p that is false: the conflict clause, of p and the
\* assumptions that made it false, each negated.
analyzeFinal(p) ==
  LET seen[n \in 0 .. Len(trail)] ==
        IF n = 0 THEN AboveRoot({p})
        ELSE LET l == -trail[Len(trail) + 1 - n]
             IN  seen[n - 1] \union (IF l \in seen[n - 1] THEN Causes(l) ELSE {})
  IN  {-p} \union { l \in seen[Len(trail)] : Reason(l) = NoReason }

\* doSolve: the assumptions in the conflict clause, each negated there.
Crits(conflict) == { -l : l \in conflict } \intersect Range(assumptions)

--------------------------------------------------------------------------------
(* Calls.                                                                     *)

Init ==
  /\ backend \in {"minisat", "glucose"}
  /\ calls \in Scripts
  /\ formula = {} /\ answer = NoAnswer
  /\ ok = TRUE
  /\ created = {}
  /\ clauses = {} /\ learnts = {} /\ watch = <<>>
  /\ trail = <<>> /\ trailLim = <<>> /\ vardata = <<>> /\ qhead = 0 /\ pending = {}
  /\ assumptions = <<>>
  /\ pc = "idle"
  /\ restarts = 0 /\ reductions = 0

\* attachClause: the first two literals of a sorted clause are watched.
Index(l) == IF l < 0 THEN -2 * l + 1 ELSE 2 * l
FirstTwo(c) == { l \in c : Cardinality({ m \in c : Index(m) < Index(l) }) < 2 }
Watching(c, W) == [d \in DOMAIN watch \union {c} |-> IF d \in DOMAIN watch THEN watch[d] ELSE W]
attachClause(c) == watch' = Watching(c, FirstTwo(c))

\* addClause_, all but the propagation of a unit clause.
AddClause ==
  /\ pc = "idle"
  /\ calls # <<>> /\ Head(calls).op = "add"
  /\ calls' = Tail(calls)
  /\ LET ps == Head(calls).lits
         unknown == { l \in ps : ~False(l) }
         satisfied == \E l \in ps : True(l) \/ -l \in ps
     IN  /\ formula' = formula \union {<<0, ps>>}
         /\ created' = created \union { VarOf(l) : l \in ps }
         /\ \/ /\ (~ok \/ satisfied)
               /\ UNCHANGED <<ok, clauseVars, trailVars, pc>>
            \/ /\ ok /\ ~satisfied /\ unknown = {}
               /\ ok' = FALSE
               /\ UNCHANGED <<clauseVars, trailVars, pc>>
            \/ /\ ok /\ ~satisfied
               /\ \E l \in unknown : unknown = {l} /\ uncheckedEnqueue(l, NoReason)
               /\ pc' = "adding"
               /\ UNCHANGED <<ok, clauseVars, trailLim, qhead>>
            \/ /\ ok /\ ~satisfied /\ Cardinality(unknown) > 1
               /\ clauses' = clauses \union {unknown}
               /\ attachClause(unknown)
               /\ UNCHANGED <<ok, learnts, trailVars, pc>>
  /\ UNCHANGED <<backend, answer, assumptions, pending, restarts, reductions>>

\* solve_ before the first search().
Solve ==
  /\ pc = "idle"
  /\ calls # <<>> /\ Head(calls).op = "solve"
  /\ calls' = Tail(calls)
  /\ assumptions' = Head(calls).lits
  /\ created' = created \union { VarOf(l) : l \in Range(Head(calls).lits) }
  /\ pc' = "searching"
  /\ restarts' = 0 /\ reductions' = 0
  /\ UNCHANGED <<backend, formula, answer, ok, clauseVars, trailVars, pending>>

\* solve_ after the last: conflict is the final conflict clause.
ReturnUnsat(conflict) ==
  /\ answer' = [result |-> "unsat", lits |-> Crits(conflict)]
  /\ ok' = (ok /\ conflict # {})
  /\ Backtrack(0)
  /\ pc' = "idle" /\ pending' = {}
  /\ UNCHANGED <<backend, calls, formula, created, assumptions, clauseVars, restarts,
                 reductions>>

SolveContradiction ==
  /\ pc = "searching" /\ ~ok
  /\ ReturnUnsat({})

--------------------------------------------------------------------------------
(* propagate().                                                               *)

Propagating == pc = "adding" \/ (pc = "searching" /\ ok)

\* The next literal on the trail: visit the clauses that watch its negation.
Dequeue ==
  /\ Propagating
  /\ pending = {} /\ qhead < Len(trail)
  /\ qhead' = qhead + 1
  /\ pending' = { c \in DOMAIN watch : -trail[qhead + 1] \in watch[c] }
  /\ UNCHANGED <<callVars, ok, clauseVars, trail, trailLim, vardata, pc, restarts,
                 reductions>>

\* Glucose visits the binary clauses first.
BinaryFirst(c) ==
  backend = "glucose" /\ Cardinality(c) > 2 => \A b \in pending : Cardinality(b) > 2

Other(c) == CHOOSE l \in watch[c] : l # -trail[qhead]

Visit(c) ==
  /\ Propagating
  /\ c \in pending
  /\ BinaryFirst(c)
  /\ UNCHANGED <<callVars, trailLim, qhead, pc, restarts, reductions>>

\* The blocker, a literal that was watched with this one before, or the other
\* watched literal is true.
VisitSatisfied(c) ==
  /\ Visit(c)
  /\ \E l \in c : True(l)
  /\ pending' = pending \ {c}
  /\ UNCHANGED <<ok, clauseVars, trail, vardata>>

\* Another literal that is not false is watched instead.
VisitNewWatch(c) ==
  /\ Visit(c)
  /\ ~True(Other(c))
  /\ \E l \in c \ watch[c] :
       /\ ~False(l)
       /\ watch' = [watch EXCEPT ![c] = {Other(c), l}]
  /\ pending' = pending \ {c}
  /\ UNCHANGED <<ok, clauses, learnts, trail, vardata>>

VisitUnit(c) ==
  /\ Visit(c)
  /\ \A l \in c \ {Other(c)} : False(l)
  /\ Undef(Other(c))
  /\ uncheckedEnqueue(Other(c), c)
  /\ pending' = pending \ {c}
  /\ UNCHANGED <<ok, clauseVars>>

ConflictIn(c) ==
  /\ Propagating
  /\ c \in pending
  /\ BinaryFirst(c)
  /\ \A l \in c : False(l)

\* addClause_: a unit clause leads to a conflict.
ConflictAdding(c) ==
  /\ pc = "adding"
  /\ ConflictIn(c)
  /\ ok' = FALSE
  /\ qhead' = IF backend = "glucose" /\ Cardinality(c) = 2 THEN qhead ELSE Len(trail)
  /\ pc' = "idle" /\ pending' = {}
  /\ UNCHANGED <<callVars, clauseVars, trail, trailLim, vardata, restarts, reductions>>

Added ==
  /\ pc = "adding"
  /\ pending = {} /\ qhead = Len(trail)
  /\ pc' = "idle"
  /\ UNCHANGED <<callVars, ok, clauseVars, trailVars, pending, restarts, reductions>>

--------------------------------------------------------------------------------
(* search().                                                                  *)

\* A conflict at level 0.
Contradiction(c) ==
  /\ pc = "searching" /\ decisionLevel = 0
  /\ ConflictIn(c)
  /\ ReturnUnsat({})

\* The clause learnt watches the literal it asserts and one of those that become
\* undefined last.
Learn(c) ==
  /\ pc = "searching" /\ decisionLevel > 0
  /\ ConflictIn(c)
  /\ \E analyzed \in {analyze(c)} :
       LET uip == analyzed[1]
           learnt == analyzed[2]
           level == BacktrackLevel(uip, learnt)
       IN  \/ /\ learnt = {uip}
              /\ BacktrackAndEnqueue(0, uip, NoReason)
              /\ UNCHANGED clauseVars
           \/ /\ learnt # {uip}
              /\ BacktrackAndEnqueue(level, uip, learnt)
              /\ learnts' = learnts \union {learnt}
              /\ \E l \in learnt \ {uip} :
                   /\ Level(l) = level
                   /\ watch' = Watching(learnt, {uip, l})
              /\ UNCHANGED clauses
  /\ pending' = {}
  /\ UNCHANGED <<callVars, ok, pc, restarts, reductions>>

NoConflict ==
  /\ pc = "searching" /\ ok
  /\ pending = {} /\ qhead = Len(trail)

Restart ==
  /\ NoConflict
  /\ decisionLevel > 0
  /\ restarts < MaxRestarts
  /\ restarts' = restarts + 1
  /\ Backtrack(0)
  /\ UNCHANGED <<callVars, ok, clauseVars, pending, pc, reductions>>

Detach(C) ==
  watch' = Restrict(watch, DOMAIN watch \ C)

\* removeClause resets the reason of a variable that a removed clause implied.
Unlock(C) ==
  vardata' = [v \in DOMAIN vardata |->
                IF Reason(v) \in C THEN [vardata[v] EXCEPT !.reason = NoReason] ELSE vardata[v]]

Satisfied(C) == { c \in C : \E l \in c : True(l) }

\* Minisat drops false literals that are not watched.
Trimmed(c) == IF backend = "minisat" THEN watch[c] \union { l \in c : ~False(l) } ELSE c

\* simplify(), as often as its counters ask for it.
Simplify ==
  /\ NoConflict
  /\ decisionLevel = 0
  /\ LET kept == DOMAIN watch \ Satisfied(DOMAIN watch)
         trim == [c \in kept |-> Trimmed(c)]
     IN  /\ \/ kept # DOMAIN watch
            \/ \E c \in kept : trim[c] # c
         /\ clauses' = { trim[c] : c \in clauses \intersect kept }
         /\ learnts' = { trim[c] : c \in learnts \intersect kept }
         /\ watch' = [d \in Range(trim) |-> watch[CHOOSE c \in kept : trim[c] = d]]
         /\ Unlock(Satisfied(DOMAIN watch))
  /\ UNCHANGED <<callVars, ok, trail, trailLim, qhead, pending, pc, restarts, reductions>>

\* reduceDB(): some learnt clauses that are no reasons and not binary.
ReduceDB ==
  /\ NoConflict
  /\ reductions < MaxReductions
  /\ reductions' = reductions + 1
  /\ \E C \in SUBSET { c \in learnts \ { Reason(l) : l \in Range(trail) } : Cardinality(c) > 2 } :
       /\ C # {}
       /\ learnts' = learnts \ C
       /\ Detach(C \ clauses)
  /\ UNCHANGED <<callVars, ok, clauses, trailVars, pending, pc, restarts>>

\* A dummy decision level for an assumption that is true already.
AssumeTrue ==
  /\ NoConflict
  /\ decisionLevel < Len(assumptions)
  /\ True(assumptions[decisionLevel + 1])
  /\ trailLim' = Append(trailLim, Len(trail))
  /\ UNCHANGED <<callVars, ok, clauseVars, trail, vardata, qhead, pending, pc, restarts,
                 reductions>>

AssumeFalse ==
  /\ NoConflict
  /\ decisionLevel < Len(assumptions)
  /\ False(assumptions[decisionLevel + 1])
  /\ ReturnUnsat(analyzeFinal(assumptions[decisionLevel + 1]))

Decisive ==
  IF decisionLevel < Len(assumptions) THEN {assumptions[decisionLevel + 1]}
  ELSE Literals

\* pickBranchLit, or an assumption that has no value yet.
Decide(l) ==
  /\ NoConflict
  /\ l \in Decisive
  /\ Undef(l)
  /\ Enqueue(trail, vardata, l, NoReason, decisionLevel + 1)
  /\ trailLim' = Append(trailLim, Len(trail))
  /\ UNCHANGED <<callVars, ok, clauseVars, qhead, pending, pc, restarts, reductions>>

ModelFound ==
  /\ NoConflict
  /\ decisionLevel >= Len(assumptions)
  /\ \A v \in created : ~Undef(v)
  /\ answer' = [result |-> "sat", lits |-> Range(trail)]
  /\ Backtrack(0)
  /\ pc' = "idle"
  /\ UNCHANGED <<backend, calls, formula, created, assumptions, ok, clauseVars, pending,
                 restarts, reductions>>

Search ==
  \/ SolveContradiction
  \/ Dequeue
  \/ \E c \in pending :
       \/ VisitSatisfied(c) \/ VisitNewWatch(c) \/ VisitUnit(c)
       \/ ConflictAdding(c) \/ Contradiction(c) \/ Learn(c)
  \/ Added
  \/ Restart \/ Simplify \/ ReduceDB
  \/ AssumeTrue \/ AssumeFalse \/ ModelFound
  \/ \E l \in Decisive : Decide(l)

Next == AddClause \/ Solve \/ Search

--------------------------------------------------------------------------------
(* Properties.                                                                *)

Models ==
  { M \in SUBSET created :
      \A x \in formula : \E l \in x[2] : IF l > 0 THEN l \in M ELSE -l \notin M }

Implied(C) ==
  \A M \in Models : \E l \in C : IF l > 0 THEN l \in M ELSE -l \notin M

\* When nothing is left to propagate, no clause has all its literals false, nor all
\* but one with that one undefined, although only two literals were watched.
NothingMissed ==
  NoConflict =>
    \A c \in DOMAIN watch :
      (\E l \in c : True(l)) \/ Cardinality({ l \in c : Undef(l) }) > 1

\* A variable's reason implies it from what is earlier on the trail.
ReasonsRight ==
  \A i \in DOMAIN trail :
    LET C == Reason(trail[i])
    IN  C # NoReason =>
          /\ trail[i] \in C
          /\ \A l \in C \ {trail[i]} : \E j \in 1 .. i - 1 : trail[j] = -l

\* Clauses learnt, and what is assigned at level 0, follow from the clauses added.
LearntImplied ==
  /\ \A c \in clauses \union learnts : Implied(c)
  /\ pc = "idle" => \A i \in DOMAIN trail : Implied({trail[i]})

SearchSound == NothingMissed /\ ReasonsRight /\ LearntImplied

================================================================================
