--------------------------- MODULE MCRelayProcess ---------------------------
(* The instance of RelayProcess for TLC is in the .cfg file alone. *)
EXTENDS RelayProcess

=============================================================================
