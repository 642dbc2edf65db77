------------------------------ MODULE MCInventory ------------------------------
(* One container stops, then the other one is replaced by a third: the list   *)
(* may have a container of each of the three contents.                        *)
EXTENDS Inventory

MCContents ==
    << { [id |-> "a", state |-> "running"], [id |-> "b", state |-> "running"] },
       { [id |-> "a", state |-> "exited"], [id |-> "b", state |-> "running"] },
       { [id |-> "a", state |-> "exited"], [id |-> "c", state |-> "running"] } >>

=============================================================================
