------------------------------- MODULE MCAlerts -------------------------------
(* Two metrics and two successive connections of the node.                   *)
EXTENDS Alerts

MCValues == {0, 1}

=============================================================================
