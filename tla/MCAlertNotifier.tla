---------------------------- MODULE MCAlertNotifier ----------------------------
(* AlertNotifier for TLC: the module of its configuration.                     *)
EXTENDS AlertNotifier

=============================================================================
