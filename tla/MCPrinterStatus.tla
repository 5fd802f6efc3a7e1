-------------------------- MODULE MCPrinterStatus --------------------------
(* PrinterStatus, its CONSTANTS given in the configurations. *)
EXTENDS PrinterStatus
=============================================================================
