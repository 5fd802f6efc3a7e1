---------------------------- MODULE MCJobIntake ----------------------------
(* JobIntake, its CONSTANTS given in the configuration. *)
EXTENDS JobIntake
=============================================================================
