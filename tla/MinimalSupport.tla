---------------------------- MODULE MinimalSupport ----------------------------
(******************************************************************************)
(* findMinimalSupport(solver, frame, cls): go through the frame and replace   *)
(* it by the support of a query for cls.  The loop builds the frame without   *)
(* the clause under its iterator, but the query is about the frame with it.   *)
(******************************************************************************)
EXTENDS Consecution

VARIABLES
  cls,       \* the clause to support
  given,     \* the frame passed in
  frame,     \* frame_copy (it is kept sorted: a set)
  it,        \* the iterator: every element of frame below it has been visited
  pc         \* "loop" or "done"

vars == <<cls, given, frame, it, pc>>

\* The callers pass a frame that supports the clause.
Init ==
  /\ cls \in ClauseID
  /\ given \in { F \in SUBSET ClauseID : Solve(F, cls) }
  /\ frame = given
  /\ it = 0
  /\ pc = "loop"

\* The clauses not visited yet.
Ahead == { id \in frame : it <= id }

\* Where the iterator is put once id was visited: at the first larger element.
After(id) == id + 1

\* supportSolve(frame_copy, cls, support); the iterator moves behind id.
Visit(id) ==
  /\ pc = "loop"
  /\ id \in Ahead
  /\ \A c \in Ahead : id <= c
  /\ it' = After(id)
  /\ IF Solve(frame, cls)
     THEN frame' \in Supports(frame, cls)
     ELSE UNCHANGED frame
  /\ UNCHANGED <<cls, given, pc>>

Finish ==
  /\ pc = "loop"
  /\ Ahead = {}
  /\ pc' = "done"
  /\ UNCHANGED <<cls, given, frame, it>>

Terminating == pc = "done" /\ UNCHANGED vars

Next ==
  \/ \E id \in ClauseID : Visit(id)
  \/ Finish
  \/ Terminating

Spec == Init /\ [][Next]_vars /\ WF_vars(Next)

--------------------------------------------------------------------------------
(* Properties.                                                                *)

\* The variables have the types of the locals they stand for.
TypeOK ==
  /\ cls \in ClauseID
  /\ {given, frame} \subseteq SUBSET ClauseID
  /\ it \in 0 .. NumClauses
  /\ pc \in {"loop", "done"}

\* The loop never loses the support: what is left of the frame supports the
\* clause, and is one of the results its callers are modelled with.
StillSupports ==
  /\ Solve(frame, cls)
  /\ frame = given \/ frame \in MinimizedSupports(given, cls)

\* The loop ends.
Termination == <>(pc = "done")

================================================================================
