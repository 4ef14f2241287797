---------------------------- MODULE MCResearchMemory ----------------------------
(* Small instances of ResearchMemory for TLC.                              *)
EXTENDS ResearchMemory
=============================================================================
