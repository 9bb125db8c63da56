---------------------------- MODULE SimpleMinimizer ----------------------------
(******************************************************************************)
(* SimpleMinimizer: starting from the property, collect a support of every    *)
(* clause collected, until nothing is left to support.  One proof results,    *)
(* smaller than the one given perhaps, but not minimal in general.            *)
(******************************************************************************)
EXTENDS Consecution, Sequences

CONSTANT
  AllClauses     \* m_allClauses: the clauses of the proof, among ClauseID

VARIABLES
  simple_min_use_min_supp,   \* the option of that name
  toProcess,       \* to_process, a queue in which a clause may wait twice
  supported, nec,  \* the clauses whose support was collected, and all collected
  minimalProofs,   \* m_minimalProofs
  pc               \* "loop" or "done"

vars == <<simple_min_use_min_supp, toProcess, supported, nec, minimalProofs, pc>>

Init ==
  /\ simple_min_use_min_supp \in BOOLEAN
  /\ toProcess = <<Property>>
  /\ supported = {}
  /\ nec = {Property}
  /\ minimalProofs = {}
  /\ pc = "loop"

\* The clauses of a set in some order, each once.
Orders(S) == { s \in [1 .. Cardinality(S) -> S] : { s[i] : i \in DOMAIN s } = S }

\* computeSupport, in the order in which the solver lists the support.
ComputedSupports(id) ==
  IF simple_min_use_min_supp
  THEN MinimizedSupports(AllClauses, id)
  ELSE Supports(AllClauses, id)

--------------------------------------------------------------------------------

\* Faulty: the clause goes back to the end of the queue.
SkipFront_Requeues ==
  /\ pc = "loop"
  /\ toProcess # <<>>
  /\ Head(toProcess) \in supported
  /\ toProcess' = Append(Tail(toProcess), Head(toProcess))
  /\ UNCHANGED <<simple_min_use_min_supp, supported, nec, minimalProofs, pc>>

\* The clause in front was processed when it waited here before.
SkipFront ==
  /\ pc = "loop"
  /\ toProcess # <<>>
  /\ Head(toProcess) \in supported
  /\ toProcess' = Tail(toProcess)
  /\ UNCHANGED <<simple_min_use_min_supp, supported, nec, minimalProofs, pc>>

\* Collect its support; what was not processed yet queues up.
ProcessFront ==
  /\ pc = "loop"
  /\ toProcess # <<>>
  /\ Head(toProcess) \notin supported
  /\ \E support \in ComputedSupports(Head(toProcess)) :
       /\ nec' = nec \union support
       /\ \E order \in Orders(support \ supported) :
            toProcess' = Tail(toProcess) \o order
  /\ supported' = supported \union {Head(toProcess)}
  /\ UNCHANGED <<simple_min_use_min_supp, minimalProofs, pc>>

AddMinimalProof ==
  /\ pc = "loop"
  /\ toProcess = <<>>
  /\ minimalProofs' = minimalProofs \union {nec}
  /\ pc' = "done"
  /\ UNCHANGED <<simple_min_use_min_supp, toProcess, supported, nec>>

Terminating == pc = "done" /\ UNCHANGED vars

Next == SkipFront \/ ProcessFront \/ AddMinimalProof \/ Terminating

Spec == Init /\ [][Next]_vars /\ WF_vars(Next)

--------------------------------------------------------------------------------
(* Properties.                                                                *)

\* The variables have the types of the members and locals they stand for.
TypeOK ==
  /\ simple_min_use_min_supp \in BOOLEAN
  /\ { toProcess[i] : i \in DOMAIN toProcess } \subseteq AllClauses
  /\ {supported, nec} \subseteq SUBSET AllClauses
  /\ minimalProofs \subseteq SUBSET AllClauses
  /\ pc \in {"loop", "done"}

\* The result is a safe inductive subset of the proof.
FoundAreProofs == minimalProofs \subseteq SIS

\* A run of minimize() ends, with one proof.
Termination == <>(pc = "done" /\ Cardinality(minimalProofs) = 1)

================================================================================
