---------------------------------- MODULE Trial ----------------------------------
(***************************************************************************)
(* What an experiment promises, however often its evaluator is killed and  *)
(* started again and whoever edits files meanwhile: a check is launched at *)
(* most once, one verdict is recorded and it is final, a genuine one (that *)
(* the evaluator reached, not one put on disk before it was recorded)      *)
(* claims an improvement only after all checks were launched, and it is    *)
(* accepted only by a verification during the whole of which nothing stood *)
(* altered.  Experiment implements this specification.                     *)
(***************************************************************************)
EXTENDS Naturals

CONSTANTS Checks, Artefacts

Verdicts == {"improved", "rejected", "inconclusive"}

VARIABLES
  launches,    (* how often each check was launched                        *)
  verdict,     (* "none" or the recorded one                               *)
  genuine,     (* the recorded evaluation is what the evaluator concluded  *)
  altered,     (* artefacts that differ from what was recorded             *)
  verifying,
  doubt,       (* altered ones, ever since this verification began         *)
  accepted

vars == <<launches, verdict, genuine, altered, verifying, doubt, accepted>>

Init ==
  /\ launches = [c \in Checks |-> 0] /\ verdict = "none" /\ genuine = FALSE
  /\ altered = {} /\ verifying = FALSE /\ doubt = {} /\ accepted = FALSE

Launch(c) ==
  /\ verdict = "none" /\ launches[c] = 0
  /\ launches' = [launches EXCEPT ![c] = 1]
  /\ UNCHANGED <<verdict, genuine, altered, verifying, doubt, accepted>>

Judge ==
  /\ verdict = "none" /\ verdict' \in Verdicts /\ genuine' \in BOOLEAN
  /\ genuine' /\ verdict' = "improved" => \A c \in Checks : launches[c] = 1
  /\ altered' \in SUBSET Artefacts
  /\ UNCHANGED <<launches, verifying, doubt, accepted>>

Alter ==
  /\ altered' \in SUBSET Artefacts /\ doubt' = doubt \cap altered'
  /\ UNCHANGED <<launches, verdict, genuine, verifying, accepted>>

Verify ==
  /\ verdict # "none" /\ ~verifying /\ verifying' = TRUE /\ doubt' = altered
  /\ UNCHANGED <<launches, verdict, genuine, altered, accepted>>

Accept ==
  /\ verifying /\ verdict = "improved" /\ doubt = {}
  /\ accepted' = TRUE /\ verifying' = FALSE
  /\ UNCHANGED <<launches, verdict, genuine, altered, doubt>>

GiveUp ==
  /\ verifying /\ verifying' = FALSE /\ doubt' = {}
  /\ UNCHANGED <<launches, verdict, genuine, altered, accepted>>

Next ==
  Alter \/ Verify \/ Accept \/ GiveUp \/ Judge \/ \E c \in Checks : Launch(c)

Spec == Init /\ [][Next]_vars
=============================================================================
