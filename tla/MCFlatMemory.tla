------------------------------ MODULE MCFlatMemory ------------------------------
(* Small instance of FlatMemory for TLC.                                   *)
EXTENDS FlatMemory
=============================================================================
