------------------------------- MODULE SafetyGate -------------------------------
(***************************************************************************)
(* What the safety controller promises to whoever watches its output: the  *)
(* gate follows one authorised cue at a time, is open exactly during that  *)
(* cue's window, each authorisation is spent once, and a stop may come at  *)
(* any instant and closes the gate at once.  SafetyController implements   *)
(* this specification; how authority is earned is not visible here.        *)
(***************************************************************************)
EXTENDS Naturals

CONSTANTS Null, Cues, Times

VARIABLES
  now,
  armed,                (* the controller may take a cue                   *)
  cue,                  (* the authorised cue, or Null                     *)
  open,                 (* the gate                                        *)
  used                  (* challenges spent so far                         *)

vars == <<now, armed, cue, open, used>>

Init == now = 0 /\ armed = FALSE /\ cue = Null /\ open = FALSE /\ used = {}

Arm ==
  /\ ~armed
  /\ armed' = TRUE
  /\ UNCHANGED <<now, cue, open, used>>

Authorise ==
  /\ armed /\ cue = Null
  /\ cue' \in Cues
  /\ now =< cue'.start /\ cue'.start < cue'.end
  /\ cue'.challengeId \notin used
  /\ used' = used \cup {cue'.challengeId}
  /\ open' = (cue'.start = now)
  /\ UNCHANGED <<now, armed>>

Closed == armed' = FALSE /\ cue' = Null /\ open' = FALSE

Stop == Closed /\ UNCHANGED <<now, used>>

\* Time moves on, to any later instant: the cue runs on or ends, or the
\* authority lapses on the way.
Elapse ==
  /\ now' \in Times /\ now =< now'
  /\ UNCHANGED used
  /\ \/ Closed
     \/ /\ cue # Null /\ cue.end =< now'
        /\ cue' = Null /\ open' = FALSE /\ UNCHANGED armed
     \/ /\ cue = Null /\ UNCHANGED <<armed, cue, open>>
     \/ /\ cue # Null /\ now' < cue.end
        /\ open' = (cue.start =< now') /\ UNCHANGED <<armed, cue>>

Next == Arm \/ Authorise \/ Stop \/ Elapse

Spec == Init /\ [][Next]_vars
=============================================================================
