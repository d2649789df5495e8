--------------------------- MODULE MCDiagCounters ---------------------------
(* DiagCounters with two interchangeable event counters.                   *)
EXTENDS DiagCounters, TLC

EventSymmetry == Permutations(EventCounters)

=============================================================================
