---------------------------- MODULE MCSerialLink ----------------------------
(* SerialLink on small instances: the numbers are given in the .cfg files. *)
EXTENDS SerialLink
=============================================================================
