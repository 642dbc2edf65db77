---------------------------- MODULE MCMetricsRollup ----------------------------
(* MetricsRollup for TLC. *)
EXTENDS MetricsRollup, TLC

\* The nodes are interchangeable.
Symmetry == Permutations(Nodes)

=============================================================================
