--------------------------- MODULE MCCommandQueue ---------------------------
(* CommandQueue with three callers and room for two waiting commands. *)
EXTENDS CommandQueue

CONSTANTS c1, c2, c3

=============================================================================
