---------------------------- MODULE MCStatusWatcher ----------------------------
(* StatusWatcher for TLC. *)
EXTENDS StatusWatcher, TLC

\* The commands are interchangeable.
Symmetry == Permutations(Commands)

=============================================================================
