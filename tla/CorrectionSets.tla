----------------------------- MODULE CorrectionSets ----------------------------
(******************************************************************************)
(* The correction set finders of UnifiedIVCFinder: BasicMCSFinder, which has  *)
(* a HybridDebugger, and BMCCorrectionSetFinder, which has a BMCDebugger and  *)
(* an IC3Debugger and remembers where it has searched.  A client makes calls  *)
(* in any order; each call is a sequence of queries to the debuggers.         *)
(*                                                                            *)
(* Which sets a debugger may return is given by the model's counterexamples   *)
(* (module IVC): BMC looks for one of a given depth, IC3 for any.  That       *)
(* IC3Debugger answers exactly is shown of module IC3Debugger.                *)
(******************************************************************************)
EXTENDS IVC

CONSTANTS
  Configurations,   \* the options to choose from
  AskedSizes,       \* the sizes a client asks for
  MaxCalls,         \* the number of calls a client makes
  CardinalityInf    \* CARDINALITY_INF

ASSUME SizesAssumption == 
  /\ CardinalityInf \in Nat /\ CardinalityInf > NumGates + 1
  /\ AskedSizes \subseteq 1 .. CardinalityInf

\* With mcs_bmc_kmin above mcs_bmc_kmax, the first assertion of findBatch fails.
ASSUME ConfigurationsAssumption ==
  /\ Configurations \subseteq
       [finder : {"basic", "bmc"}, hybrid_kmax : Nat, mcs_bmc_kmax : Nat,
        mcs_bmc_kmin : Nat, mcs_bmc_nmax : Nat \ {0}, try_to_exhaust : BOOLEAN]
  /\ \A c \in Configurations : c.mcs_bmc_kmin <= c.mcs_bmc_kmax

VARIABLES
  opts,          \* the finder and its options
  bmc,           \* the BMCDebugger, of m_solver or m_bmc
  ic3,           \* the IC3Debugger, of m_solver or m_ic3
  m_cardinality, \* BasicMCSFinder: the cardinality global searches have reached
  m_exhausted,   \* BMCCorrectionSetFinder: depths and cardinalities done with
  m_k_max, m_k_min,
  calls,         \* how many calls were made
  call,          \* the current or the last call, and what was blocked before
  results,       \* the sets it has found
  answer,        \* whether it found one, or there are more
  cardinality, k, lastSoln,   \* the loops' position
  pc

debuggers == <<bmc, ic3>>
memory == <<m_cardinality, m_exhausted, m_k_max, m_k_min>>
position == <<cardinality, k, lastSoln>>
vars == <<opts, debuggers, memory, calls, call, results, answer, position, pc>>

AnyDepth == { x.depth : x \in Counterexamples }
Least(a, b) == IF a <= b THEN a ELSE b
Greatest(a, b) == IF a >= b THEN a ELSE b

--------------------------------------------------------------------------------
(* The debuggers.  A BMCDebugger has a cardinality constraint of some         *)
(* capacity, and clauses blocking solutions, both restrictions of its solver, *)
(* and keeps the clauses to add them to a solver that is cleared.             *)

NewBMC == [cardinality |-> CardinalityInf, capacity |-> 0, blocked |-> {}, clauses |-> {}]
NewIC3 == [cardinality |-> CardinalityInf, blocked |-> {}]

\* Faulty: the new restrictions replace the clauses.
WithCardinality_Forgets(d, n) ==
  IF d.cardinality < n \/ d.cardinality = CardinalityInf
  THEN [d EXCEPT !.cardinality = n, !.capacity = n + 1, !.blocked = {}]
  ELSE [d EXCEPT !.cardinality = n]

WithCardinality(d, n) ==
  IF d.cardinality < n \/ d.cardinality = CardinalityInf
  THEN [d EXCEPT !.cardinality = n, !.capacity = n + 1, !.blocked = d.clauses]
  ELSE [d EXCEPT !.cardinality = n]

\* setCardinality or clearCardinality: sizes no set can exceed need no constraint.
BMCSized(n) ==
  IF n >= NumGates THEN [bmc EXCEPT !.cardinality = CardinalityInf]
                   ELSE WithCardinality(bmc, n)
IC3Sized(n) ==
  [ic3 EXCEPT !.cardinality = IF n >= NumGates THEN CardinalityInf ELSE n]

Blocks(d, C) == [d EXCEPT !.blocked = @ \union {C}]
BMCBlocks(C) == [Blocks(bmc, C) EXCEPT !.clauses = @ \union {C}]

\* The answers of a query over some of the gates; no answer if there is none.
\* BMC tries one depth after the other.
AnswersAt(d, gates, depth) == DebugSolutions(d.blocked, gates, d.cardinality, {depth})

BMCAnswers(d, gates, depths) ==
  UNION { AnswersAt(d, gates, i) : i \in
    { j \in depths : /\ AnswersAt(d, gates, j) # {}
                     /\ \A h \in depths : h < j => AnswersAt(d, gates, h) = {} } }

IC3Answers(d, gates) == DebugSolutions(d.blocked, gates, d.cardinality, AnyDepth)

\* HybridDebugger: what BMC of a few steps does not find, IC3 looks for.
HybridAnswers(b, i, gates) ==
  LET found == IF opts.hybrid_kmax > 0 THEN BMCAnswers(b, gates, 0 .. opts.hybrid_kmax)
               ELSE {}
  IN  IF found # {} THEN found ELSE IC3Answers(i, gates)

--------------------------------------------------------------------------------

Init ==
  /\ opts \in Configurations
  /\ bmc = NewBMC
  /\ ic3 = NewIC3
  /\ m_cardinality = 1
  /\ m_exhausted = {}
  /\ m_k_max = opts.mcs_bmc_kmax
  /\ m_k_min = opts.mcs_bmc_kmin
  /\ calls = 0
  /\ call = [kind |-> "none", gates |-> Gate, n |-> 0, before |-> {}]
  /\ results = <<>>
  /\ answer = FALSE
  /\ cardinality = 0
  /\ k = 0
  /\ lastSoln = 0
  /\ pc = "ready"

Basic == opts.finder = "basic"

\* What has been found or blocked so far.
Known == call.before \union { results[i] : i \in DOMAIN results }

Left(gates, n, depths) == DebugSolutions(Known, gates, n, depths)

\* The largest cardinality the call looks for.
MaxCardinality ==
  IF Basic THEN call.n
           ELSE Least(Least(call.n, Cardinality(call.gates)), opts.mcs_bmc_nmax)

--------------------------------------------------------------------------------
(* The calls: findNext among some gates, findNext, findAll, findBatch (which  *)
(* is findAll in BasicMCSFinder), moreCorrectionSets, and block.              *)

StartCall(kind, gates, n) ==
  /\ pc = "ready"
  /\ calls < MaxCalls
  /\ calls' = calls + 1
  /\ call' = [kind |-> kind, gates |-> gates, n |-> n, before |-> Known]
  /\ results' = <<>>
  /\ k' = 0
  /\ lastSoln' = 0
  /\ UNCHANGED <<opts, debuggers, memory, answer>>

\* BasicMCSFinder is only asked for a set among gates when there is one; it goes
\* through all sizes up to CARDINALITY_INF otherwise.
CallNextAmong ==
  \E gates \in (SUBSET Gate) \ {{}} :
    /\ Basic => Left(gates, NumGates, AnyDepth) # {}
    /\ StartCall("among", gates, CardinalityInf)
    /\ cardinality' = 1
    /\ pc' = "find"

\* Faulty: a search starts where the search before it ended.
CallNext_Resumes ==
  \E kind \in {"next", "all"}, n \in AskedSizes :
    /\ StartCall(kind, Gate, n)
    /\ cardinality' = IF cardinality = 0 THEN 1 ELSE cardinality
    /\ pc' = "find"

CallNext ==
  \E kind \in {"next", "all"}, n \in AskedSizes :
    /\ StartCall(kind, Gate, n)
    /\ cardinality' = IF Basic THEN m_cardinality ELSE 1
    /\ pc' = "find"

CallBatch ==
  \E n \in AskedSizes \ {CardinalityInf} :
    /\ ~Basic
    /\ StartCall("batch", Gate, n)
    /\ cardinality' = 1
    /\ pc' = "find"

CallMore ==
  \E n \in AskedSizes :
    /\ StartCall("more", Gate, n)
    /\ pc' = "more"
    /\ UNCHANGED cardinality

\* block: the client has a correction set from elsewhere.
CallBlock ==
  \E C \in MCS :
    /\ pc = "ready"
    /\ calls < MaxCalls
    /\ calls' = calls + 1
    /\ call' = [kind |-> "block", gates |-> Gate, n |-> 0, before |-> Known \union {C}]
    /\ results' = <<>>
    /\ bmc' = BMCBlocks(C)
    /\ ic3' = Blocks(ic3, C)
    /\ UNCHANGED <<opts, memory, answer, position, pc>>

--------------------------------------------------------------------------------

Return(found) ==
  /\ answer' = found
  /\ pc' = "ready"
  /\ UNCHANGED position

\* A solution is blocked in both debuggers, the cardinality of b and i being
\* theirs now.
BlockSolution(b, i, C) ==
  /\ results' = Append(results, C)
  /\ bmc' = [Blocks(b, C) EXCEPT !.clauses = @ \union {C}]
  /\ ic3' = Blocks(i, C)

\* findNext and findAll have found a set: findAll goes on with the next.
FoundOne ==
  IF call.kind = "all"
  THEN /\ cardinality' = IF Basic THEN m_cardinality' ELSE 1
       /\ k' = 0
       /\ UNCHANGED <<lastSoln, answer, pc>>
  ELSE Return(TRUE)

(* BasicMCSFinder::doFind.                                                    *)

BasicFind ==
  /\ pc = "find" /\ Basic
  /\ cardinality <= call.n
  /\ m_cardinality' = IF call.kind = "among" THEN m_cardinality ELSE cardinality
  /\ LET b == BMCSized(cardinality)
         i == IC3Sized(cardinality)
         answers == HybridAnswers(b, i, call.gates)
     IN  \/ \E C \in answers :
              /\ BlockSolution(b, i, C)
              /\ FoundOne
         \/ /\ answers = {}
            /\ bmc' = b
            /\ ic3' = i
            /\ pc' = "more"
            /\ UNCHANGED <<results, answer, position>>
  /\ UNCHANGED <<opts, m_exhausted, m_k_max, m_k_min, calls, call>>

\* The loop ends at size n.
BasicEnd ==
  /\ pc = "find" /\ Basic
  /\ cardinality > call.n
  /\ Return(FALSE)
  /\ UNCHANGED <<opts, debuggers, memory, calls, call, results>>

\* Are there more sets of at most size n?  The answer of the call, or the end of
\* the loop.
BasicMore ==
  /\ pc = "more" /\ Basic
  /\ bmc' = BMCSized(call.n)
  /\ ic3' = IC3Sized(call.n)
  /\ LET more == HybridAnswers(bmc', ic3', Gate) # {}
     IN  IF call.kind = "more" \/ ~more
         THEN Return(more)
         ELSE /\ cardinality' = cardinality + 1
              /\ pc' = "find"
              /\ UNCHANGED <<answer, k, lastSoln>>
  /\ UNCHANGED <<opts, memory, calls, call, results>>

--------------------------------------------------------------------------------
(* BMCCorrectionSetFinder.                                                    *)

IsExhausted(depth, n) == <<depth, n>> \in m_exhausted

InRange == cardinality <= MaxCardinality /\ k <= m_k_max

\* Faulty: a depth searched among some gates counts as done with.
Exhausts_Among(depth, n) == {<<depth, n>>}

\* findNext looks for all sets of the depth and cardinality, except among gates.
Exhausts(depth, n) == IF call.kind = "among" THEN {} ELSE {<<depth, n>>}

\* findAt: the query, unless it is known that nothing is left.
FindAt ==
  /\ pc = "find" /\ ~Basic
  /\ InRange
  /\ LET skip == IsExhausted(k, cardinality)
         b == IF skip THEN bmc ELSE BMCSized(cardinality)
         answers == IF skip THEN {} ELSE AnswersAt(b, call.gates, k)
     IN  \/ \E C \in answers :
              /\ BlockSolution(b, ic3, C)
              /\ IF call.kind = "batch"
                 THEN /\ lastSoln' = k
                      /\ m_k_min' = Greatest(m_k_min, k)
                      /\ pc' = "giveUp"
                      /\ UNCHANGED <<answer, cardinality, k>>
                 ELSE FoundOne /\ UNCHANGED m_k_min
              /\ UNCHANGED m_exhausted
         \/ /\ answers = {}
            /\ bmc' = b
            /\ m_exhausted' = m_exhausted \union Exhausts(k, cardinality)
            /\ pc' = CASE call.kind = "batch" -> "giveUp"
                       [] call.kind = "among" /\ opts.try_to_exhaust -> "check"
                       [] OTHER -> "find"
            /\ k' = IF pc' = "check" THEN k ELSE k + 1
            /\ UNCHANGED <<ic3, results, answer, cardinality, lastSoln, m_k_min>>
  /\ UNCHANGED <<opts, m_cardinality, m_k_max, calls, call>>

\* checkAt: is anything left at all at this depth?
CheckAt ==
  /\ pc = "check"
  /\ LET skip == IsExhausted(k, cardinality)
     IN  /\ bmc' = IF skip THEN bmc ELSE BMCSized(cardinality)
         /\ m_exhausted' =
              IF skip \/ AnswersAt(bmc', Gate, k) = {}
              THEN m_exhausted \union {<<k, cardinality>>}
              ELSE m_exhausted
  /\ k' = k + 1
  /\ pc' = "find"
  /\ UNCHANGED <<opts, ic3, m_cardinality, m_k_max, m_k_min, calls, call, results,
                 answer, cardinality, lastSoln>>

\* Faulty: starts the cardinality again instead of giving it up.
GiveUp_Again ==
  /\ pc = "giveUp"
  /\ IF k - lastSoln >= 3 /\ k >= m_k_min
     THEN /\ m_k_max' = k
          /\ k' = 0
          /\ lastSoln' = 0
          /\ UNCHANGED cardinality
     ELSE UNCHANGED <<m_k_max, position>>
  /\ pc' = "find"
  /\ UNCHANGED <<opts, debuggers, m_cardinality, m_exhausted, m_k_min, calls, call,
                 results, answer>>

\* findBatch gives a cardinality up after three depths without a solution, and
\* takes the depth it is at for the largest from now on.
GiveUp ==
  /\ pc = "giveUp"
  /\ IF k - lastSoln >= 3 /\ k >= m_k_min
     THEN /\ m_k_max' = k
          /\ cardinality' = cardinality + 1
          /\ k' = 0
          /\ lastSoln' = 0
     ELSE UNCHANGED <<m_k_max, position>>
  /\ pc' = "find"
  /\ UNCHANGED <<opts, debuggers, m_cardinality, m_exhausted, m_k_min, calls, call,
                 results, answer>>

\* All depths are done with: the next cardinality.
NextCardinality ==
  /\ pc = "find" /\ ~Basic
  /\ cardinality <= MaxCardinality
  /\ k > m_k_max
  /\ cardinality' = cardinality + 1
  /\ k' = 0
  /\ lastSoln' = 0
  /\ UNCHANGED <<opts, debuggers, memory, calls, call, results, answer, pc>>

\* The loops end.  findNext among gates goes on with IC3, from the start.
BMCEnd ==
  /\ pc = "find" /\ ~Basic
  /\ cardinality > MaxCardinality
  /\ IF call.kind = "among"
     THEN /\ cardinality' = 1
          /\ pc' = "fallback"
          /\ UNCHANGED <<answer, k, lastSoln>>
     ELSE Return(FALSE)
  /\ UNCHANGED <<opts, debuggers, memory, calls, call, results>>

\* findFallback.
Fallback ==
  /\ pc = "fallback"
  /\ cardinality <= Least(call.n, Cardinality(call.gates))
  /\ LET i == [ic3 EXCEPT !.cardinality = cardinality]
         answers == IC3Answers(i, call.gates)
     IN  \/ \E C \in answers : BlockSolution(bmc, i, C) /\ Return(TRUE)
         \/ /\ answers = {}
            /\ ic3' = i
            /\ pc' = "more"
            /\ UNCHANGED <<bmc, results, answer, position>>
  /\ UNCHANGED <<opts, memory, calls, call>>

FallbackEnd ==
  /\ pc = "fallback"
  /\ cardinality > Least(call.n, Cardinality(call.gates))
  /\ Return(FALSE)
  /\ UNCHANGED <<opts, debuggers, memory, calls, call, results>>

\* moreCorrectionSets by BMC, and then by IC3; of any size in findFallback.
BMCMore ==
  /\ pc = "more" /\ ~Basic
  /\ bmc' = BMCSized(call.n)
  /\ LET byBMC == BMCAnswers(bmc', Gate, 0 .. m_k_max) # {}
     IN  /\ ic3' = IF byBMC THEN ic3 ELSE IC3Sized(call.n)
         /\ LET more == byBMC \/ IC3Answers(ic3', Gate) # {}
            IN  IF call.kind = "more" \/ ~more
                THEN Return(more)
                ELSE /\ cardinality' = cardinality + 1
                     /\ pc' = "fallback"
                     /\ UNCHANGED <<answer, k, lastSoln>>
  /\ UNCHANGED <<opts, memory, calls, call, results>>

Next ==
  \/ CallNextAmong \/ CallNext \/ CallBatch \/ CallMore \/ CallBlock
  \/ BasicFind \/ BasicEnd \/ BasicMore
  \/ FindAt \/ CheckAt \/ GiveUp \/ NextCardinality \/ BMCEnd
  \/ Fallback \/ FallbackEnd \/ BMCMore

Calls == CallNextAmong \/ CallNext \/ CallBatch \/ CallMore \/ CallBlock

\* A call runs until it returns; the client need not make one.
Spec == Init /\ [][Next]_vars /\ WF_vars(Next /\ ~Calls)

--------------------------------------------------------------------------------
(* Properties.                                                                *)

\* The debuggers have blocked all that is known, although BMCDebugger clears its
\* solver when the cardinality grows, and BMC's cardinality is one its constraint
\* was built for.  Sizes that nobody need try are not: the loops over the sizes
\* end no later than the number of gates, not at CARDINALITY_INF.  findBatch's
\* assertion on m_k_min holds.
DebuggersAgree ==
  /\ bmc.blocked = Known /\ bmc.clauses = Known /\ ic3.blocked = Known
  /\ bmc.cardinality < CardinalityInf => bmc.cardinality < bmc.capacity
  /\ pc \in {"find", "fallback"} => cardinality <= NumGates + 1
  /\ m_k_min <= m_k_max

\* What is remembered as searched has no set left, whatever the searches in
\* between were for: no set below m_cardinality, and none of an exhausted depth
\* and cardinality.
SearchedIsDone ==
  /\ Left(Gate, m_cardinality - 1, AnyDepth) = {}
  /\ \A p \in m_exhausted : Left(Gate, p[2], {p[1]}) = {}

\* A call returns what its caller counts on.  A set found is a correction set not
\* blocked before, a minimal one but for findBatch, and for findNext and findAll of
\* the BMC finder if the depth is limited.  A call that finds none has left none,
\* of the sizes and depths it searches; findAll has found all.
BMCDepths == IF Basic \/ call.kind = "among" THEN AnyDepth ELSE 0 .. m_k_max
BMCSizes == IF call.kind \in {"among", "more"} THEN call.n ELSE MaxCardinality

FoundIsLeft ==
  \A i \in DOMAIN results :
    /\ results[i] \subseteq call.gates
    /\ Cardinality(results[i]) <= call.n
    /\ Corrects(results[i])
    /\ \A B \in call.before : ~(B \subseteq results[i])
    /\ Basic => results[i] \in MCS

AnswersRight ==
  /\ FoundIsLeft
  /\ pc = "ready" =>
       /\ call.kind \in {"next", "all", "among"} /\ ~answer =>
            Left(call.gates, IF Basic THEN call.n ELSE BMCSizes, BMCDepths) = {}
       /\ call.kind = "among" /\ answer => results # <<>>
       /\ call.kind = "more" => (answer <=> Left(Gate, call.n, AnyDepth) # {})

\* Every call returns.
Termination == pc # "ready" ~> pc = "ready"

================================================================================
