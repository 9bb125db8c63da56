--------------------------- MODULE MCCorrectionSets ---------------------------
(* A circuit of four gates.                                                   *)
EXTENDS CorrectionSets

Cex(n, C) == [depth |-> n, cut |-> C]

\* Minimal correction sets of one and two gates, at depths within and beyond
\* those BMC is asked for, and one of three gates that has a smaller one.
FourGates == { Cex(3, {0}), Cex(1, {0, 1}), Cex(0, {1, 2}), Cex(4, {2, 3}),
               Cex(0, {0, 1, 3}) }

Options(finder, hybrid, kmax, kmin, nmax, exhaust) ==
  [finder |-> finder, hybrid_kmax |-> hybrid, mcs_bmc_kmax |-> kmax,
   mcs_bmc_kmin |-> kmin, mcs_bmc_nmax |-> nmax, try_to_exhaust |-> exhaust]

BothFinders == {
  Options("basic", 0, 0, 0, 1, FALSE),  Options("basic", 2, 0, 0, 1, FALSE),
  Options("bmc", 0, 5, 1, 2, FALSE),    Options("bmc", 0, 3, 2, 4, TRUE) }

================================================================================
