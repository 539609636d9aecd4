--------------------------- MODULE MCServiceShutdown ---------------------------
(*****************************************************************************)
(* Values for the constants of ServiceShutdown.                               *)
(*****************************************************************************)
EXTENDS ServiceShutdown

=============================================================================
