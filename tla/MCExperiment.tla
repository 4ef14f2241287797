------------------------------ MODULE MCExperiment ------------------------------
(***************************************************************************)
(* Three sources and two oracles.  The base passes its regressions; "fix"  *)
(* is the change wanted and "slip" breaks a regression.  All checks run on *)
(* the outputs, as the packages' tests do; stray ones pass everything.     *)
(* The red oracle fails on the base, the lax one passes on everything.     *)
(***************************************************************************)
EXTENDS Experiment

MCContents == {"base", "fix", "slip"}
MCEligible == {"fix", "slip"}
MCGreen == {tree \in Trees : tree.outputs \in {"base", "fix", Stray}}
MCOracles == {"red", "lax"}
MCMeets == [red |-> {tree \in Trees : tree.outputs \in {"fix", "slip", Stray}},
            lax |-> Trees]
MCForged == {[status |-> "improved", patch |-> "fix", oracle |-> "red",
              checks |-> <<"pass", "fail", "pass", "pass">>]}

\* Two edits of anything, saved evidence included, and then one more of what
\* an agent works on, the source of the candidate.
Everything == {"draft", "oracle", "baseline", "candidate", "outputs", "metadata",
               "evaluation", "patch", "receipts"}
MCEditable == <<Everything, Everything, {"candidate"}>>

\* Of edits, a fault and the deadline, three things go wrong together.
Affordable == edits + faults + (IF late THEN 1 ELSE 0) =< 3
=============================================================================
