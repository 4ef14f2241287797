------------------------------ MODULE MCResearchLab ------------------------------
(* Small instances of ResearchLab for TLC.                                 *)
EXTENDS ResearchLab
=============================================================================
