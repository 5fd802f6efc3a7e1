--------------------------- MODULE MCVisionWatch ---------------------------
(* VisionWatch, its CONSTANTS given in the configurations. *)
EXTENDS VisionWatch
=============================================================================
