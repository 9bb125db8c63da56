------------------------------ MODULE MCFindIVCs ------------------------------
(* A circuit of five gates, and every supported setting of the options.       *)
EXTENDS FindIVCs, TLC

Cex(k, C) == [depth |-> k, cut |-> C]

\* Three cores: {0, 1, 4}, {1, 2, 4} and {0, 2, 3, 4}.  Gate 4 is the output and
\* gate 3 is of use to gate 2 only.  With counterexamples up to depth 2 in reach,
\* the correction set {0, 1} takes IC3, and one counterexample has a cut that is
\* not minimal.
ThreeCores == { Cex(0, {4}), Cex(1, {1, 2}), Cex(2, {1, 3}), Cex(3, {0, 1}),
                Cex(1, {0, 2}), Cex(0, {1, 2, 3}) }

\* Gates 0, 1 and 2 feed gate 4; gate 1 also feeds gate 0, and gate 3 gate 2.
ThreeCoresFanout ==
  (0 :> {4}) @@ (1 :> {0, 4}) @@ (2 :> {4}) @@ (3 :> {2}) @@ (4 :> {})

OutputGate == {4}

AllFinders ==
  [finder : {"marcoivc", "ivcbf", "ivcucbf"}, use_ivcucbf : BOOLEAN,
   basic_hints : BOOLEAN, complex_hints : BOOLEAN, use_core : BOOLEAN]

Variants ==
  { [ar |-> TRUE, upfront_nmax |-> n, mcs |-> k, approx_mcs |-> TRUE] :
      n \in {0, 2}, k \in {"grow", "simple", "approx"} }
  \union
  { [ar |-> TRUE, upfront_nmax |-> n, mcs |-> k, approx_mcs |-> FALSE] :
      n \in {1, 2}, k \in {"grow", "simple", "exact"} }
  \union
  { [ar |-> FALSE, upfront_nmax |-> 1, mcs |-> "exact", approx_mcs |-> FALSE] }

\* The exact finder after the sets of one gate only: findMCSOverGates relies on
\* every set that is blocked having become a clause, and on those of one gate
\* having been found.
SupportedVariants ==
  { o \in Variants : o.ar /\ o.mcs = "exact" => o.upfront_nmax = 1 }

Default == [mcs_finder |-> "basic", map_solver |-> "msu4", upfront_nmax |-> 0,
            cex_cache |-> 0, proof_cache |-> 0, shrink_cached |-> FALSE,
            direction_up |-> FALSE, direction_down |-> TRUE, mcs_grow |-> FALSE,
            coi_hints |-> FALSE, check_map |-> FALSE, clever_issafe |-> FALSE,
            skip_uc |-> FALSE]

\* The configurations of the repository's README, and others that together use
\* every option.
README_Down ==
  [Default EXCEPT !.proof_cache = 1, !.cex_cache = 2, !.shrink_cached = TRUE,
     !.clever_issafe = TRUE, !.coi_hints = TRUE, !.upfront_nmax = 2]
README_Up == [Default EXCEPT !.direction_down = FALSE, !.direction_up = TRUE,
                             !.mcs_grow = TRUE]
README_CAMUS == [Default EXCEPT !.direction_down = FALSE, !.direction_up = TRUE,
                                !.upfront_nmax = NumGates]

Covering == {
  Default, README_Down, README_Up, README_CAMUS,
  [README_Up EXCEPT !.mcs_finder = "bmc", !.upfront_nmax = 1, !.cex_cache = 1],
  [Default EXCEPT !.direction_up = TRUE, !.check_map = TRUE,
     !.cex_cache = 2, !.proof_cache = 2],
  [Default EXCEPT !.direction_up = TRUE, !.clever_issafe = TRUE, !.proof_cache = 1,
     !.mcs_finder = "bmc", !.upfront_nmax = 1, !.cex_cache = 2],
  [Default EXCEPT !.direction_down = FALSE, !.map_solver = "sat", !.coi_hints = TRUE,
     !.cex_cache = 1],
  [Default EXCEPT !.direction_down = FALSE, !.mcs_grow = TRUE, !.check_map = TRUE,
     !.skip_uc = TRUE] }

\* The default options, but for a cache of one proof.
CachedProof == { [Default EXCEPT !.proof_cache = 1] }

NoOptions == {}

\* Two counterexamples can do without gate 0, which makes one core smaller than
\* the other four; gate 5 is the output.
OneSmallCore == { Cex(0, {5}), Cex(1, {0, 1, 2}), Cex(1, {0, 3, 4}) }

OneSmallCoreFanout == [g \in 0 .. 4 |-> {5}] @@ (5 :> {})

OutputOfSix == {5}

\* Seeds of greatest and of least size in turns.
BothDirections == { [Default EXCEPT !.direction_up = TRUE] }

\* Gate 1 is the conjunction of gate 0 and a latch that stays low, gate 0 of an
\* input and that latch.  Each is the next-state function of another latch, and
\* the property fails, at gate 2, when both of these are high: one of gates 0 and 1
\* is enough.
GateAndNextState == { Cex(0, {2}), Cex(1, {0, 1}) }

GateAndNextStateFanout == (0 :> {1}) @@ (1 :> {}) @@ (2 :> {})

OutputsOfThree == {0, 1, 2}

\* Gate 1, the output, is the conjunction of gate 0 and a latch that stays low; gate 0
\* is the conjunction of two inputs.  Gate 1 alone is the only core.
GateAndInput == { Cex(0, {1}) }

GateAndInputFanout == (0 :> {1}) @@ (1 :> {})

OutputOfTwo == {1}

\* MARCOIVCFinder with its binary hints.
BasicHints == { [finder |-> "marcoivc", use_ivcucbf |-> FALSE, basic_hints |-> TRUE,
                 complex_hints |-> FALSE, use_core |-> FALSE] }

================================================================================
