------------------------------ MODULE ResearchCycle ------------------------------
(***************************************************************************)
(* What the research laboratory promises about its cycles, whatever        *)
(* crashes, retries or concurrent commands happen below: one cycle is      *)
(* active at a time, a cycle only moves forward, a verdict is given once   *)
(* and never revised, an ACCEPT is earned by an evaluation, and accepted   *)
(* candidates awaiting review are bounded.  ResearchLab implements this    *)
(* specification.                                                          *)
(***************************************************************************)
EXTENDS Naturals, FiniteSets

CONSTANTS Slots, MaxPending

Stages == {"none", "preparing", "prepared", "frozen", "evaluated", "complete"}
Verdicts == {"none", "ACCEPT", "REJECT", "INCONCLUSIVE"}

VARIABLES stage, verdict, reviewed

vars == <<stage, verdict, reviewed>>

Active == {s \in Slots : stage[s] \notin {"none", "complete"}}

\* Accepted candidates whose review is still to come.
Pending == {s \in Slots : verdict[s] = "ACCEPT" /\ ~reviewed[s]}

Rank == [none |-> 0, preparing |-> 1, prepared |-> 2, frozen |-> 3,
         evaluated |-> 4, complete |-> 5]

Init ==
  /\ stage = [s \in Slots |-> "none"]
  /\ verdict = [s \in Slots |-> "none"]
  /\ reviewed = [s \in Slots |-> FALSE]

Begin(s) ==
  /\ Active = {} /\ stage[s] = "none"
  /\ stage' = [stage EXCEPT ![s] = "preparing"]
  /\ UNCHANGED <<verdict, reviewed>>

Progress(s) ==
  /\ s \in Active
  /\ \E next \in Stages \ {"complete"} :
       /\ Rank[next] > Rank[stage[s]]
       /\ stage' = [stage EXCEPT ![s] = next]
  /\ UNCHANGED <<verdict, reviewed>>

Finish(s, v) ==
  /\ s \in Active /\ v # "none"
  /\ v # "INCONCLUSIVE" => stage[s] = "evaluated"
  /\ v = "ACCEPT" => Cardinality(Pending) < MaxPending
  /\ stage' = [stage EXCEPT ![s] = "complete"]
  /\ verdict' = [verdict EXCEPT ![s] = v]
  /\ UNCHANGED reviewed

Review(s) ==
  /\ stage[s] = "complete"
  /\ reviewed' = [reviewed EXCEPT ![s] = TRUE]
  /\ UNCHANGED <<stage, verdict>>

Next ==
  \E s \in Slots :
    Begin(s) \/ Progress(s) \/ (\E v \in Verdicts : Finish(s, v)) \/ Review(s)

Spec == Init /\ [][Next]_vars
=============================================================================
