-------------------------------- MODULE MCUiFeed --------------------------------
(* UiFeed for TLC: the module of its configuration.                           *)
EXTENDS UiFeed

=============================================================================
