---------------------------- MODULE MCCommandFlow ----------------------------
(***************************************************************************)
(* CommandFlow for TLC: either two commands on one connection of the node,  *)
(* or one command over all of its connections.  Commands and connections    *)
(* are taken up in the order of their numbers.  The bound only refuses new  *)
(* commands and connections; nothing that has begun is cut off.             *)
(***************************************************************************)
EXTENDS CommandFlow, FiniteSets

Used(h) == {k \in Conns : h[k] # "unused"}

IsPrefix(S, T) == \A x \in S, y \in T : y < x => y \in S

Bound ==
    /\ Cardinality(exists) <= 1 \/ Cardinality(Used(handler)) <= 1
    /\ IsPrefix(exists, Commands)
    /\ IsPrefix(Used(handler), Conns)

MCSpec == Init /\ [][Next /\ Bound']_vars /\ Fairness

=============================================================================
