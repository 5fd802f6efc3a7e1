-------------------------- MODULE MCCommandRouter --------------------------
(* CommandRouter, its CONSTANTS given in the configuration. *)
EXTENDS CommandRouter
=============================================================================
