---------------------------- MODULE ResearchLabProofs ----------------------------
(***************************************************************************)
(* Proofs about ResearchLab, for any number of callers, slots, commits and *)
(* faults: one command at a time, checks that are started once, an ACCEPT  *)
(* that is earned, derived files that agree with the run records, and the  *)
(* promise of ResearchCycle.                                               *)
(*                                                                         *)
(* The invariant has two halves.  Sound says how the files of one cycle    *)
(* agree with its run record, whoever was interrupted where; Knows says    *)
(* how the run object a command holds in memory differs from that record   *)
(* at each place.  Both speak of one slot, so a step, which writes to one  *)
(* slot only, leaves the others alone (StepKeeps).                         *)
(***************************************************************************)
EXTENDS ResearchLab, FiniteSetTheorems, TLAPS

Labels == {"idle", "enter", "leave", "killed", "open", "create", "prepareAdr", "prepareSave",
           "refine", "worktrees", "writeExperiment", "saveFrozen", "checks", "writeEvaluation",
           "saveEvaluated", "saveComplete", "report", "ledger", "materialAdr", "remember",
           "saveMaterialized", "adr"}

Op == [name : Commands, at : Labels, id : Slots, draft : Run \cup {Null}]

LabTypeOK ==
  /\ lock \in Callers \cup {Null} /\ op \in [Callers -> Op]
  /\ runs \in [Slots -> Run \cup {Null}]
  /\ experimentFile \in [Slots -> Commits \cup {Null, Torn}]
  /\ evaluationFile \in [Slots -> Results \cup {Null, Torn}]
  /\ trials \in [Slots -> {0, 1}]
  /\ reports \in [Slots -> Verdicts \cup {Null}]
  /\ lessons \in [Slots -> Verdicts \cup {Null}]
  /\ ledger \in [Slots -> Rows \cup {Null}] /\ adrs \in [Slots -> Adrs \cup {Null}]
  /\ head \in Commits /\ slot \in Slots /\ faults \in Nat

\* Whoever is inside the controller owns its lock.
Mutex == \A c \in Callers : ~At(c, "idle") => lock = c

-----------------------------------------------------------------------------
(* What the files of a cycle say.                                          *)

Staged(s, run) ==
  /\ run.status # "complete" =>
       run.verdict = Null /\ run.disposition = Null /\ ~run.materialized
  /\ run.status = "complete" => run.verdict # Null
  /\ run.status \in {"preparing", "prepared"} =>
       /\ run.experiment = Null /\ run.evaluation = Null
       /\ evaluationFile[s] = Null /\ trials[s] = 0
  /\ run.status = "preparing" => experimentFile[s] = Null
  /\ run.status = "frozen" =>
       /\ run.experiment # Null /\ experimentFile[s] = run.experiment
       /\ run.evaluation = Null
  /\ run.status = "evaluated" =>
       /\ run.experiment = run.base /\ experimentFile[s] = run.base
       /\ run.evaluation # Null /\ run.evaluation = evaluationFile[s]
  /\ evaluationFile[s] # Null => experimentFile[s] = run.base
  /\ evaluationFile[s] = "improved" => trials[s] = 1

Earned(s, run) ==
  /\ run.evaluation = "improved" /\ evaluationFile[s] = "improved"
  /\ run.experiment = run.base /\ experimentFile[s] = run.base
  /\ trials[s] = 1

Reported(s, run) == reports[s] = run.verdict
Listed(s, run) == ledger[s] # Null /\ ledger[s].verdict = run.verdict
Recorded(s, run) == adrs[s] # Null /\ adrs[s].status = "complete" /\ adrs[s].verdict = run.verdict
Derived(s, run) ==
  /\ run.status = "complete"
  /\ Reported(s, run) /\ Listed(s, run) /\ Recorded(s, run) /\ lessons[s] = run.verdict

Sound(s) ==
  /\ runs[s] = Null =>
       experimentFile[s] = Null /\ evaluationFile[s] = Null /\ trials[s] = 0
  /\ runs[s] # Null =>
       /\ Staged(s, runs[s])
       /\ runs[s].verdict = "ACCEPT" => Earned(s, runs[s])
       /\ runs[s].materialized => Derived(s, runs[s])

-----------------------------------------------------------------------------
(* What a command knows at each of its places.                             *)

Blank == {"idle", "enter", "leave", "killed", "create"}
AsSaved == {"prepareAdr", "refine", "worktrees", "checks", "report", "ledger", "materialAdr",
            "remember", "saveMaterialized", "adr"}
Deriving == {"report", "ledger", "materialAdr", "remember", "saveMaterialized"}

Unfrozen(i) == runs[i].status = "prepared" /\ experimentFile[i] = Null
NothingToTake(i) ==
  /\ runs[i].status = "prepared" => experimentFile[i] = Null
  /\ runs[i].status = "frozen" => evaluationFile[i] = Null
Undecided(i) ==
  runs[i].status = "frozen" /\ runs[i].experiment = runs[i].base /\ experimentFile[i] = runs[i].base

\* Where the object in memory stands to the record on disk.
Holds(e) ==
  LET i == e.id
      run == runs[i]
  IN  /\ e.at \in Blank => e.draft = Null
      /\ e.at \notin Blank \cup {"open"} => e.draft # Null
      /\ e.draft # Null => run # Null
      /\ e.at \in AsSaved \/ (e.at = "open" /\ e.draft # Null) => e.draft = run
      /\ e.at = "prepareSave" => e.draft = [run EXCEPT !.status = "prepared"]
      /\ e.at \in {"writeExperiment", "saveFrozen"} =>
           e.draft = [run EXCEPT !.experiment = e.draft.experiment] /\ e.draft.experiment # Null
      /\ e.at \in {"writeEvaluation", "saveEvaluated"} =>
           e.draft = [run EXCEPT !.evaluation = e.draft.evaluation] /\ e.draft.evaluation # Null
      /\ e.at = "saveComplete" =>
           e.draft = [run EXCEPT !.verdict = e.draft.verdict] /\ e.draft.verdict # Null

\* In which stage the cycle is.
InStage(e) ==
  LET i == e.id
      run == runs[i]
  IN  /\ e.at = "create" \/ (e.at = "open" /\ e.draft = Null) =>
           e.name = "prepare" /\ run = Null /\ Active = {}
      /\ e.at = "open" /\ e.draft # Null /\ run.status # "complete" =>
           /\ e.name \in {"prepare", "search"} /\ run.status \in {"preparing", "prepared"}
           /\ e.name = "search" => run.status = "prepared"
           /\ experimentFile[i] = Null
      /\ e.at = "open" /\ e.name = "search" => e.draft # Null /\ run.status # "complete"
      /\ e.at \in {"prepareAdr", "prepareSave"} =>
           run.status \in {"preparing", "prepared"} /\ experimentFile[i] = Null
      /\ e.at = "refine" => Unfrozen(i)
      /\ e.at \in {"worktrees", "writeExperiment"} => Unfrozen(i) /\ Room
      /\ e.at = "saveFrozen" =>
           run.status = "prepared" /\ experimentFile[i] = e.draft.experiment
      /\ e.at \in {"checks", "writeEvaluation", "saveEvaluated"} => Undecided(i)
      /\ e.at \in {"checks", "writeEvaluation"} => evaluationFile[i] = Null
      /\ e.at = "writeEvaluation" => (e.draft.evaluation = "improved" => trials[i] = 1)
      /\ e.at = "saveEvaluated" => evaluationFile[i] = e.draft.evaluation
      /\ e.at = "saveComplete" =>
           /\ run.status # "complete"
           /\ e.draft.verdict # "INCONCLUSIVE" => run.status = "evaluated"
           /\ e.draft.verdict = "ACCEPT" => run.evaluation = "improved"
      /\ e.at = "adr" => NothingToTake(i)
      /\ e.at \in Deriving => run.status = "complete"
      /\ e.at \in Deriving \cup {"saveComplete"} => e.name # "search"

\* What has been derived from a completed run so far.
HasDerived(e) ==
  LET i == e.id
      run == runs[i]
      opening == e.at = "open" /\ e.draft # Null /\ run.status = "complete"
  IN  /\ e.at \in Deriving \ {"report"} \/ opening => Reported(i, run)
      /\ e.at \in Deriving \ {"report", "ledger"} \/ opening => Listed(i, run)
      /\ e.at \in {"remember", "saveMaterialized"} \/ opening => Recorded(i, run)
      /\ e.at = "saveMaterialized" => lessons[i] = run.verdict

Knows(e) == Holds(e) /\ InStage(e) /\ HasDerived(e)

-----------------------------------------------------------------------------
(* What all cycles keep between them.                                      *)

OneActive == \A s, t \in Active : s = t

\* While a frozen cycle is unfinished there is room for it to be accepted.
RoomLeft == \A s \in Active : experimentFile[s] # Null => Room

\* The ADR of s states its record, and there is nothing for reconcile to take up.
Stated(s) ==
  /\ adrs[s] = AdrOf(runs[s])
  /\ experimentFile[s] # Null => runs[s].status # "prepared"
  /\ evaluationFile[s] # Null => runs[s].status # "frozen"

Unstated == {"prepareAdr", "prepareSave", "saveFrozen", "adr", "saveEvaluated", "report",
             "ledger", "materialAdr"}

\* Without faults, what is not stated is about to be.
Stating ==
  faults = 0 =>
    \A s \in Slots : runs[s] # Null =>
      Stated(s) \/ \E c \in Callers : op[c].id = s /\ op[c].at \in Unstated

\* The ADR that prepareSave agrees with is written.
PrepareStated ==
  \A c \in Callers : At(c, "prepareSave") => adrs[op[c].id] = AdrOf(op[c].draft)

LabInv ==
  /\ LabTypeOK /\ Mutex
  /\ \A s \in Slots : Sound(s)
  /\ \A c \in Callers : Knows(op[c])
  /\ OneActive /\ RoomLeft /\ Stating /\ PrepareStated

-----------------------------------------------------------------------------
(* A step changes one caller and one slot.                                 *)

Same(s) ==
  /\ runs'[s] = runs[s] /\ experimentFile'[s] = experimentFile[s]
  /\ evaluationFile'[s] = evaluationFile[s] /\ trials'[s] = trials[s]
  /\ reports'[s] = reports[s] /\ adrs'[s] = adrs[s] /\ lessons'[s] = lessons[s]
  /\ s \in Complete => ledger'[s] \in {ledger[s], RowOf(runs[s])}

LEMMA OthersIdle ==
  ASSUME LabInv, NEW c \in Callers, ~At(c, "idle")
  PROVE  /\ lock = c /\ \A d \in Callers : d # c => op[d].at = "idle"
         /\ op[c] \in Op /\ Knows(op[c])
BY DEF LabInv, Mutex, At, LabTypeOK

LEMMA RowsAndAdrs ==
  ASSUME NEW run \in Run
  PROVE  /\ AdrOf(run) \in Adrs /\ AdrOf(run) # Null
         /\ RowOf(run) \in Rows /\ RowOf(run) # Null
         /\ RowOf(run).verdict = run.verdict
BY NullAssumption DEF AdrOf, Adrs, RowOf, Rows, Run

\* Awaiting review, fewer leave more room.
LEMMA RoomGrows ==
  ASSUME Room, PendingReview' \subseteq PendingReview
  PROVE  Room'
<1>1. IsFiniteSet(PendingReview)
  <2>1. IsFiniteSet(Slots)
    BY FS_Interval, LabAssumption DEF Slots
  <2>2. PendingReview \subseteq Slots
    BY DEF PendingReview
  <2> QED BY <2>1, <2>2, FS_Subset
<1>2. /\ Cardinality(PendingReview') =< Cardinality(PendingReview)
      /\ Cardinality(PendingReview) \in Nat /\ Cardinality(PendingReview') \in Nat
  BY <1>1, FS_Subset, FS_CardinalityType
<1> QED BY <1>2, LabAssumption DEF Room

LEMMA SoundFrame ==
  ASSUME LabTypeOK, NEW s \in Slots, Sound(s), Same(s)
  PROVE  Sound(s)'
<1>1. CASE runs[s] = Null
  BY <1>1 DEF Sound, Same
<1>2. CASE runs[s] # Null
  <2>1. runs[s] \in Run
    BY <1>2 DEF LabTypeOK
  <2>2. Staged(s, runs[s])' /\ (runs[s].verdict = "ACCEPT" => Earned(s, runs[s])')
    BY <1>2 DEF Sound, Same, Staged, Earned
  <2>3. ASSUME runs[s].materialized PROVE Derived(s, runs[s])'
    <3>1. Derived(s, runs[s]) /\ s \in Complete
      BY <1>2, <2>3 DEF Sound, Complete, Derived
    <3>2. Listed(s, runs[s])'
      BY <3>1, <2>1, RowsAndAdrs DEF Derived, Listed, Same
    <3> QED BY <3>1, <3>2 DEF Derived, Reported, Recorded, Same
  <2> QED BY <1>2, <2>2, <2>3 DEF Sound, Same, Staged, Earned, Derived, Reported, Listed, Recorded
<1> QED BY <1>1, <1>2

LEMMA StepKeeps ==
  ASSUME LabInv, LabTypeOK', NEW c \in Callers, NEW e \in Op, NEW j \in Slots,
         op' = [op EXCEPT ![c] = e],
         \A d \in Callers : d # c => op[d].at = "idle",
         e.at # "idle" => lock' = c,
         \A s \in Slots : s # j => Same(s),
         op[c].at \in Unstated => op[c].id = j,
         Sound(j)', Knows(e)',
         j \in Active' => j \in Active \/ Active = {},
         PendingReview' \subseteq PendingReview \/ Active' = {},
         j \in Active' /\ experimentFile'[j] # Null =>
           Room \/ (j \in Active /\ experimentFile[j] # Null),
         faults' = 0 => faults = 0,
         faults' = 0 /\ runs'[j] # Null => Stated(j)' \/ (e.id = j /\ e.at \in Unstated),
         e.at = "prepareSave" => adrs'[e.id] = AdrOf(e.draft)
  PROVE  LabInv'
<1>1. op'[c] = e /\ \A d \in Callers : d # c => op'[d] = op[d] /\ op'[d].at = "idle"
  BY DEF LabInv, LabTypeOK
<1>2. Mutex'
  BY <1>1 DEF Mutex, At
<1>3. \A s \in Slots : Sound(s)'
  BY SoundFrame DEF LabInv
<1>4. \A d \in Callers : Knows(op[d])'
  <2>1. ASSUME NEW d \in Callers, d # c PROVE Knows(op[d])'
    <3>1. op'[d].at = "idle" /\ op'[d] = op[d] /\ op[d].draft = Null
      BY <1>1, <2>1 DEF LabInv, Knows, Holds, Blank
    <3> QED BY <3>1 DEF Knows, Holds, InStage, HasDerived, Blank, AsSaved, Deriving
  <2> QED BY <1>1, <2>1
<1>5. \A s \in Active' : s = j \/ s \in Active
  BY DEF Active, Same
<1>6. OneActive'
  BY <1>5 DEF LabInv, OneActive
<1>7. RoomLeft'
  <2> SUFFICES ASSUME NEW s \in Active', experimentFile'[s] # Null PROVE Room'
    BY DEF RoomLeft
  <2>1. Room
    <3>1. CASE s = j
      BY <3>1 DEF LabInv, RoomLeft
    <3>2. CASE s # j
      BY <1>5, <3>2 DEF LabInv, RoomLeft, Same, Active
    <3> QED BY <3>1, <3>2
  <2> QED BY <2>1, RoomGrows
<1>8. Stating'
  <2> SUFFICES ASSUME faults' = 0, NEW s \in Slots, runs'[s] # Null
               PROVE  Stated(s)' \/ \E d \in Callers : op'[d].id = s /\ op'[d].at \in Unstated
    BY DEF Stating
  <2>1. CASE s = j
    BY <1>1, <2>1
  <2>2. CASE s # j
    <3>1. runs[s] # Null /\ Same(s)
      BY <2>2 DEF Same
    <3>2. ~\E d \in Callers : op[d].id = s /\ op[d].at \in Unstated
      BY <2>2 DEF Unstated
    <3>3. Stated(s)
      BY <3>1, <3>2 DEF LabInv, Stating
    <3> QED BY <3>1, <3>3 DEF Stated, Same, AdrOf
  <2> QED BY <2>1, <2>2
<1>9. PrepareStated'
  BY <1>1 DEF PrepareStated, At
<1> QED BY <1>2, <1>3, <1>4, <1>6, <1>7, <1>8, <1>9 DEF LabInv

-----------------------------------------------------------------------------
(* Steps that only move the command on.                                    *)

\* Where a throw leaves a command.
Thrown == [Idle EXCEPT !.at = "leave"]

LEMMA IdleKnows ==
  ASSUME NEW label \in {"idle", "leave", "killed"}
  PROVE  /\ [Idle EXCEPT !.at = label] \in Op /\ [Idle EXCEPT !.at = label].at = label
         /\ Knows([Idle EXCEPT !.at = label]) /\ Knows([Idle EXCEPT !.at = label])'
BY LabAssumption DEF Idle, Op, Commands, Labels, Slots, Knows, Holds, InStage, HasDerived, Blank,
   AsSaved, Deriving

LEMMA MoveKeeps ==
  ASSUME LabInv, NEW c \in Callers, NEW e \in Op,
         op' = [op EXCEPT ![c] = e], UNCHANGED <<disk, derived, head, slot>>,
         \A d \in Callers : d # c => op[d].at = "idle",
         lock' \in Callers \cup {Null}, e.at # "idle" => lock' = c,
         faults' \in Nat, faults' = 0 => faults = 0,
         Knows(e),
         faults' = 0 /\ op[c].at \in Unstated =>
           Stated(op[c].id) \/ (e.id = op[c].id /\ e.at \in Unstated),
         e.at = "prepareSave" => adrs[e.id] = AdrOf(e.draft)
  PROVE  LabInv'
<1>1. PICK j \in Slots : j = op[c].id
  BY DEF LabInv, LabTypeOK, Op
<1>2. LabTypeOK'
  BY DEF LabInv, LabTypeOK, disk, derived
<1>3. UNCHANGED <<runs, experimentFile, evaluationFile, trials, reports, ledger, adrs, lessons>>
  BY DEF disk, derived
<1>4. \A s \in Slots : Same(s) /\ Sound(s)'
  BY <1>3 DEF LabInv, Same, Sound, Staged, Earned, Derived, Reported, Listed, Recorded
<1>5. /\ Active' = Active /\ PendingReview' = PendingReview
      /\ Room' <=> Room
  BY <1>3 DEF Active, PendingReview, Room
<1>6. Knows(e)'
  BY <1>3, <1>5 DEF Knows, Holds, InStage, HasDerived, Reported, Listed, Recorded, Unfrozen,
                    Undecided, NothingToTake
<1>7. faults' = 0 /\ runs'[j] # Null =>
        Stated(j)' \/ (e.id = j /\ e.at \in Unstated)
  <2>1. Stated(j)' <=> Stated(j)
    BY <1>3 DEF Stated, AdrOf
  <2>2. CASE op[c].at \in Unstated
    BY <1>1, <2>1, <2>2
  <2>3. CASE op[c].at \notin Unstated
    <3>1. ~\E d \in Callers : op[d].at \in Unstated
      BY <2>3 DEF Unstated
    <3> QED BY <1>1, <1>3, <2>1, <3>1 DEF LabInv, Stating
  <2> QED BY <2>2, <2>3
<1>8. PendingReview' \subseteq PendingReview
  BY <1>5
<1>9. /\ j \in Active' => j \in Active
      /\ experimentFile' = experimentFile /\ adrs' = adrs
  BY <1>3, <1>5
<1> QED BY <1>1, <1>2, <1>4, <1>6, <1>7, <1>8, <1>9, StepKeeps

\* A command that ends without having written.
LEMMA ThrowKeeps ==
  ASSUME LabInv, NEW c \in Callers, ~At(c, "idle"), NEW label \in {"leave", "killed"},
         Stop(c, label), UNCHANGED <<lock, disk, derived, head, slot>>,
         faults' \in Nat, faults' = 0 => faults = 0 /\ op[c].at \notin Unstated
  PROVE  LabInv'
<1> DEFINE e == [Idle EXCEPT !.at = label]
<1>1. op' = [op EXCEPT ![c] = e] /\ e \in Op /\ e.at = label /\ Knows(e)
  BY IdleKnows DEF Stop
<1>2. lock' = c /\ \A d \in Callers : d # c => op[d].at = "idle"
  BY OthersIdle
<1> HIDE DEF e
<1> QED BY <1>1, <1>2, MoveKeeps

LEMMA StartStep ==
  ASSUME LabInv, NEW c \in Callers, NEW name \in Commands, NEW id \in Slots, Start(c, name, id)
  PROVE  LabInv'
<1> DEFINE e == [name |-> name, at |-> "enter", id |-> id, draft |-> Null]
<1>1. /\ At(c, "idle") /\ lock = Null /\ lock' = c /\ op' = [op EXCEPT ![c] = e]
      /\ UNCHANGED <<disk, derived, world>>
  BY DEF Start
<1>2. \A d \in Callers : op[d].at = "idle"
  BY <1>1, LabAssumption DEF LabInv, Mutex, At
<1>3. e \in Op /\ e.at = "enter" /\ Knows(e)
  BY DEF Op, Labels, Knows, Holds, InStage, HasDerived, Blank, AsSaved, Deriving
<1>4. UNCHANGED <<head, slot, faults>> /\ faults \in Nat /\ op[c].at \notin Unstated
  BY <1>1, <1>2 DEF world, LabInv, LabTypeOK, Unstated
<1> HIDE DEF e
<1> QED BY <1>1, <1>2, <1>3, <1>4, MoveKeeps

LEMMA CannotEnterStep ==
  ASSUME LabInv, NEW c \in Callers, CannotEnter(c)
  PROVE  LabInv'
<1>1. /\ op[c].at = "enter" /\ Stop(c, "leave")
      /\ UNCHANGED <<lock, disk, derived, head, slot, faults>>
  BY DEF CannotEnter, At, Throw, world
<1>2. ~At(c, "idle") /\ op[c].at \notin Unstated /\ faults \in Nat
  BY <1>1 DEF At, Unstated, LabInv, LabTypeOK
<1> QED BY <1>1, <1>2, ThrowKeeps

LEMMA LeaveStep ==
  ASSUME LabInv, NEW c \in Callers, Leave(c) \/ RemoveStaleLocks(c)
  PROVE  LabInv'
<1>1. /\ op[c].at \in {"leave", "killed"} /\ op' = [op EXCEPT ![c] = Idle]
      /\ UNCHANGED <<disk, derived, head, slot, faults>> /\ lock' \in {lock, Null}
  BY DEF Leave, RemoveStaleLocks, At, world
<1>2. ~At(c, "idle") /\ op[c].at \notin Unstated /\ faults \in Nat
  BY <1>1 DEF At, Unstated, LabInv, LabTypeOK
<1>3. Idle = [Idle EXCEPT !.at = "idle"]
  BY DEF Idle
<1>4. Idle \in Op /\ Idle.at = "idle" /\ Knows(Idle)
  BY <1>3, IdleKnows
<1>5. lock' \in Callers \cup {Null}
  BY <1>1 DEF LabInv, LabTypeOK
<1> QED BY <1>1, <1>2, <1>4, <1>5, OthersIdle, MoveKeeps

LEMMA OpenMemoryStep ==
  ASSUME LabInv, NEW c \in Callers, OpenMemory(c)
  PROVE  LabInv'
<1>1. op[c].at = "open" /\ UNCHANGED <<lock, disk, derived, head, slot, faults>>
  BY DEF OpenMemory, At, world
<1>2. /\ ~At(c, "idle") /\ op[c].at \notin Unstated /\ faults \in Nat
      /\ lock = c /\ op[c] \in Op /\ Knows(op[c])
      /\ \A d \in Callers : d # c => op[d].at = "idle"
  BY <1>1, OthersIdle DEF At, Unstated, LabInv, LabTypeOK
<1>3. CASE Throw(c)
  BY <1>1, <1>2, <1>3, ThrowKeeps DEF Throw
<1>4. CASE ~Throw(c)
  <2> DEFINE label == IF Command(c) = "search" THEN "refine"
                      ELSE IF Command(c) # "prepare" THEN "remember"
                      ELSE IF Draft(c) = Null THEN "create"
                      ELSE IF Draft(c).status = "complete" THEN "remember" ELSE "prepareAdr"
             e == [op[c] EXCEPT !.at = label]
  <2>1. op' = [op EXCEPT ![c].at = label]
    BY <1>4 DEF OpenMemory, GoTo
  <2>2. label = IF op[c].name = "search" THEN "refine"
                ELSE IF op[c].name # "prepare" THEN "remember"
                ELSE IF op[c].draft = Null THEN "create"
                ELSE IF op[c].draft.status = "complete" THEN "remember" ELSE "prepareAdr"
    BY DEF Command, Draft
  <2>3. label \in {"create", "prepareAdr", "refine", "remember"}
    BY <2>2
  <2> HIDE DEF label
  <2>4. /\ e \in Op /\ e.at = label /\ e.name = op[c].name /\ e.id = op[c].id
        /\ e.draft = op[c].draft /\ op' = [op EXCEPT ![c] = e]
    BY <1>2, <2>1, <2>3 DEF Op, Labels, LabInv, LabTypeOK
  <2>5. /\ label = "create" => op[c].draft = Null
        /\ label # "create" => op[c].draft # Null /\ op[c].draft = runs[op[c].id]
        /\ label = "prepareAdr" => op[c].name = "prepare" /\ op[c].draft.status # "complete"
        /\ label = "refine" => op[c].name = "search"
        /\ label = "remember" => op[c].draft.status = "complete"
    <3>1. CASE op[c].draft = Null
      <4>1. op[c].name = "prepare"
        BY <1>1, <1>2, <3>1 DEF Knows, InStage
      <4>2. label = "create"
        BY <2>2, <3>1, <4>1
      <4> QED BY <3>1, <4>2
    <3>2. CASE op[c].draft # Null
      <4>1. op[c].draft = runs[op[c].id]
        BY <1>1, <1>2, <3>2 DEF Knows, Holds
      <4>2. /\ op[c].draft.status # "complete" => op[c].name \in {"prepare", "search"}
            /\ op[c].name = "search" => op[c].draft.status # "complete"
        BY <1>1, <1>2, <3>2, <4>1 DEF Knows, InStage
      <4> QED BY <2>2, <3>2, <4>1, <4>2
    <3> QED BY <3>1, <3>2
  <2>6. Holds(e)
    BY <1>2, <2>3, <2>4, <2>5 DEF Knows, Holds, Blank, AsSaved
  <2>7. InStage(e)
    BY <1>1, <1>2, <2>3, <2>4, <2>5 DEF Knows, InStage, Deriving, Unfrozen
  <2>8. HasDerived(e)
    BY <1>1, <1>2, <2>3, <2>4, <2>5 DEF Knows, HasDerived, Deriving
  <2> HIDE DEF e
  <2> QED BY <1>1, <1>2, <2>3, <2>4, <2>6, <2>7, <2>8, MoveKeeps DEF Knows
<1> QED BY <1>3, <1>4

-----------------------------------------------------------------------------
(* Steps that save a run record.                                           *)

LEMMA SaveKeeps ==
  ASSUME LabInv, NEW c \in Callers, ~At(c, "idle"), NEW e \in Op, e.at # "prepareSave",
         NEW j \in Slots, NEW run \in Run, op' = [op EXCEPT ![c] = e],
         SaveRun(j, run), OnlyRunRecord,
         op[c].at \in Unstated => op[c].id = j,
         Staged(j, run), run.verdict = "ACCEPT" => Earned(j, run),
         run.materialized => Derived(j, run),
         Knows(e)',
         run.status # "complete" => j \in Active \/ (Active = {} /\ experimentFile[j] = Null),
         (run.verdict = "ACCEPT" /\ run.disposition = Null => j \in PendingReview)
           \/ (run.status = "complete" /\ j \in Active),
         faults = 0 =>
           \/ /\ adrs[j] = AdrOf(run)
              /\ experimentFile[j] # Null => run.status # "prepared"
              /\ evaluationFile[j] # Null => run.status # "frozen"
           \/ e.id = j /\ e.at \in Unstated
  PROVE  LabInv'
<1>1. /\ UNCHANGED <<lock, experimentFile, evaluationFile, trials, reports, ledger, adrs,
                     lessons, head, slot, faults>>
      /\ runs' = [runs EXCEPT ![j] = run] /\ runs'[j] = run /\ run # Null
      /\ \A s \in Slots : s # j => runs'[s] = runs[s]
  BY NullAssumption DEF SaveRun, OnlyRunRecord, derived, world, LabInv, LabTypeOK
<1>2. LabTypeOK'
  BY <1>1 DEF LabInv, LabTypeOK
<1>3. \A s \in Slots : s # j => Same(s)
  BY <1>1 DEF Same
<1>4. Sound(j)'
  BY <1>1 DEF Sound, Staged, Earned, Derived, Reported, Listed, Recorded
<1>5. j \in Active' => run.status # "complete"
  BY <1>1 DEF Active
<1>6. PendingReview' \subseteq PendingReview \/ Active' = {}
  <2>1. CASE run.verdict = "ACCEPT" /\ run.disposition = Null => j \in PendingReview
    BY <1>1, <2>1 DEF PendingReview
  <2>2. CASE run.status = "complete" /\ j \in Active
    BY <1>1, <2>2 DEF Active, LabInv, OneActive
  <2> QED BY <2>1, <2>2
<1>7. faults' = 0 /\ runs'[j] # Null => Stated(j)' \/ (e.id = j /\ e.at \in Unstated)
  BY <1>1 DEF Stated, AdrOf
<1>8. j \in Active' /\ experimentFile'[j] # Null =>
        Room \/ (j \in Active /\ experimentFile[j] # Null)
  BY <1>1, <1>5
<1>9. \A d \in Callers : d # c => op[d].at = "idle"
  BY OthersIdle
<1>10. (e.at # "idle" => lock' = c) /\ (faults' = 0 => faults = 0)
  BY <1>1, OthersIdle
<1>11. j \in Active' => j \in Active \/ Active = {}
  BY <1>5
<1> QED BY <1>2, <1>3, <1>4, <1>6, <1>7, <1>8, <1>9, <1>10, <1>11, StepKeeps

\* What reconcile saves: a record its files agree with.
LEMMA ReconcileSound ==
  ASSUME LabInv, NEW s \in Slots, runs[s] # Null, CanReconcile(s),
         NEW run, run = Reconciled(s)
  PROVE  /\ run \in Run /\ runs[s] \in Run /\ Staged(s, run)
         /\ run.base = runs[s].base /\ run.verdict = runs[s].verdict
         /\ run.disposition = runs[s].disposition /\ run.materialized = runs[s].materialized
         /\ run.status = "complete" <=> runs[s].status = "complete"
         /\ run.status \in {"preparing", "prepared"} => experimentFile[s] = Null
         /\ run.status = "frozen" =>
              /\ run.experiment = run.base /\ experimentFile[s] = run.base
              /\ evaluationFile[s] = Null
         /\ \/ run = runs[s]
            \/ runs[s].status = "prepared" /\ run.status = "frozen"
            \/ runs[s].status \in {"prepared", "frozen"} /\ run.status = "evaluated"
         /\ run.status = "complete" \/ Stated(s) => run = runs[s]
<1> DEFINE old == runs[s]
<1>1. old \in Run /\ Staged(s, old)
  BY DEF LabInv, LabTypeOK, Sound
<1>2. CASE experimentFile[s] # Null /\ old.status \in {"prepared", "frozen"}
  <2>1. /\ experimentFile[s] = old.base /\ old.base \in Commits
        /\ evaluationFile[s] # Torn /\ evaluationFile[s] \in Results \cup {Null}
    BY <1>1, <1>2 DEF CanReconcile, LabInv, LabTypeOK, Run
  <2>2. CASE evaluationFile[s] = Null
    <3>1. run = [old EXCEPT !.experiment = old.base, !.status = "frozen"]
      BY <1>1, <1>2, <2>1, <2>2 DEF Reconciled, Run
    <3>2. /\ run \in Run /\ run.experiment = old.base /\ run.status = "frozen"
          /\ run.base = old.base /\ run.verdict = old.verdict /\ run.evaluation = old.evaluation
          /\ run.disposition = old.disposition /\ run.materialized = old.materialized
      BY <1>1, <2>1, <3>1 DEF Run, Statuses
    <3>3. old.evaluation = Null /\ old.verdict = Null /\ old.disposition = Null /\ ~old.materialized
      BY <1>1, <1>2 DEF Staged
    <3>4. Staged(s, run)
      BY <1>1, <1>2, <2>1, <2>2, <3>2, <3>3, NullAssumption DEF Staged
    <3>5. old.status = "frozen" => run = old
      <4> SUFFICES ASSUME old.status = "frozen" PROVE run = old
        OBVIOUS
      <4>1. old.experiment = old.base
        BY <1>1, <2>1 DEF Staged
      <4>2. run = [old EXCEPT !.experiment = old.experiment, !.status = old.status]
        BY <3>1, <4>1
      <4> QED BY <1>1, <4>2 DEF Run
    <3>6. Stated(s) => old.status = "frozen"
      BY <1>2 DEF Stated
    <3> QED BY <1>1, <1>2, <2>1, <2>2, <3>2, <3>4, <3>5, <3>6
  <2>3. CASE evaluationFile[s] # Null
    <3>1. run = [old EXCEPT !.experiment = old.base, !.evaluation = evaluationFile[s],
                            !.status = "evaluated"]
      BY <1>1, <1>2, <2>1, <2>3 DEF Reconciled
    <3>2. /\ run \in Run /\ run.experiment = old.base /\ run.status = "evaluated"
          /\ run.base = old.base /\ run.verdict = old.verdict
          /\ run.evaluation = evaluationFile[s]
          /\ run.disposition = old.disposition /\ run.materialized = old.materialized
      BY <1>1, <2>1, <2>3, <3>1 DEF Run, Statuses
    <3>3. old.verdict = Null /\ old.disposition = Null /\ ~old.materialized
      BY <1>1, <1>2 DEF Staged
    <3>4. Staged(s, run)
      BY <1>1, <1>2, <2>1, <2>3, <3>2, <3>3 DEF Staged
    <3>5. ~Stated(s)
      BY <1>1, <1>2, <2>3 DEF Stated, Staged
    <3> QED BY <1>1, <1>2, <2>1, <2>3, <3>2, <3>4, <3>5
  <2> QED BY <2>2, <2>3
<1>3. CASE ~(experimentFile[s] # Null /\ old.status \in {"prepared", "frozen"})
  <2>1. run = old
    BY <1>3 DEF Reconciled
  <2>2. old.status \in {"preparing", "prepared"} => experimentFile[s] = Null
    BY <1>1, <1>3 DEF Staged
  <2>3. old.status # "frozen"
    BY <1>1, <1>3 DEF Staged
  <2> QED BY <1>1, <2>1, <2>2, <2>3
<1> QED BY <1>2, <1>3

\* Entering saves the reconciled record of slot j; what the command goes on to
\* hold is left to the caller of this lemma.
LEMMA EnterKeeps ==
  ASSUME LabInv, NEW c \in Callers, At(c, "enter"), NEW j \in Slots,
         runs[j] # Null, CanReconcile(j), SaveRun(j, Reconciled(j)), OnlyRunRecord,
         NEW e \in Op, op' = [op EXCEPT ![c] = e], e.at # "prepareSave", Knows(e)'
  PROVE  LabInv'
<1> DEFINE run == Reconciled(j)
<1>1. op[c].at = "enter" /\ ~At(c, "idle")
  BY DEF At
<1>2. \A d \in Callers : op[d].at \notin Unstated
  BY <1>1, OthersIdle DEF Unstated
<1>3. faults = 0 => Stated(j)
  BY <1>2 DEF LabInv, Stating
<1>4. Sound(j)
  BY DEF LabInv
<1>5. /\ run \in Run /\ Staged(j, run)
      /\ run.verdict = runs[j].verdict
      /\ run.disposition = runs[j].disposition /\ run.materialized = runs[j].materialized
      /\ run.status = "complete" <=> runs[j].status = "complete"
      /\ run.status = "complete" \/ Stated(j) => run = runs[j]
  BY ReconcileSound
<1> HIDE DEF run
<1>6. runs[j].materialized => run = runs[j]
  BY <1>4, <1>5 DEF Sound, Derived
<1>7. run.verdict = "ACCEPT" => run = runs[j]
  <2>1. run.verdict = "ACCEPT" => run.verdict # Null
    BY NullAssumption DEF Verdicts
  <2> QED BY <1>4, <1>5, <2>1 DEF Sound, Staged
<1>8. run.status # "complete" => j \in Active
  BY <1>5 DEF Active
<1>9. run.verdict = "ACCEPT" /\ run.disposition = Null => j \in PendingReview
  BY <1>5, <1>7 DEF PendingReview
<1>10. faults = 0 =>
         /\ adrs[j] = AdrOf(run)
         /\ experimentFile[j] # Null => run.status # "prepared"
         /\ evaluationFile[j] # Null => run.status # "frozen"
  BY <1>3, <1>5 DEF Stated
<1>11. SaveRun(j, run)
  BY DEF run
<1>12. /\ run.verdict = "ACCEPT" => Earned(j, run)
       /\ run.materialized => Derived(j, run)
  BY <1>4, <1>5, <1>6, <1>7 DEF Sound
<1> QED BY <1>1, <1>2, <1>5, <1>8, <1>9, <1>10, <1>11, <1>12, SaveKeeps

LEMMA EnterThrows ==
  ASSUME LabInv, NEW c \in Callers, NEW names, Enters(c, names), Throw(c)
  PROVE  LabInv'
<1> DEFINE e == [Idle EXCEPT !.at = "leave"]
<1>1. /\ op' = [op EXCEPT ![c] = e] /\ e \in Op /\ e.at = "leave" /\ Knows(e)'
  BY IdleKnows DEF Throw, Stop
<1>2. op[c].id \in Slots /\ Id(c) = op[c].id
  BY DEF LabInv, LabTypeOK, Op, Id
<1> HIDE DEF e
<1> QED BY <1>1, <1>2, EnterKeeps DEF Enters

\* A command that goes on with the record it has saved.
LEMMA EnterContinues ==
  ASSUME LabInv, NEW c \in Callers, NEW names, Enters(c, names),
         NEW run, run = Reconciled(Id(c)), NEW label, Continue(c, label, run),
         \/ label = "adr"
         \/ label = "open" /\ run.status = "prepared" /\ Command(c) = "search"
         \/ label = "worktrees" /\ run.status = "prepared" /\ Room
         \/ label = "checks" /\ run.status = "frozen"
         \/ label = "report" /\ run.status = "complete" /\ Command(c) # "search"
  PROVE  LabInv'
<1>0. PICK e : e = [op[c] EXCEPT !.at = label, !.draft = run]
  OBVIOUS
<1>1. PICK i \in Slots : i = op[c].id /\ Id(c) = i
  BY DEF LabInv, LabTypeOK, Op, Id
<1>2. /\ op[c].at = "enter" /\ At(c, "enter") /\ runs[i] # Null /\ CanReconcile(i)
      /\ SaveRun(i, Reconciled(i)) /\ OnlyRunRecord /\ run = Reconciled(i)
  BY <1>1 DEF Enters, At
<1>3. /\ run \in Run /\ runs[i] \in Run
      /\ run.verdict = runs[i].verdict /\ run.disposition = runs[i].disposition
      /\ run.status \in {"preparing", "prepared"} => experimentFile[i] = Null
      /\ run.status = "frozen" =>
           /\ run.experiment = run.base /\ experimentFile[i] = run.base
           /\ evaluationFile[i] = Null
  BY <1>2, ReconcileSound
<1>4. label \in {"adr", "open", "worktrees", "checks", "report"}
  OBVIOUS
<1>5. /\ e \in Op /\ e.at = label /\ e.id = i /\ e.draft = run /\ e.name = op[c].name
      /\ op' = [op EXCEPT ![c] = e]
  BY <1>0, <1>1, <1>3, <1>4 DEF Continue, Op, Labels, LabInv, LabTypeOK
<1>6. /\ runs'[i] = run /\ run # Null /\ UNCHANGED <<experimentFile, evaluationFile>>
      /\ \A s \in Slots : s # i => runs'[s] = runs[s]
  BY <1>2, <1>3, NullAssumption DEF SaveRun, OnlyRunRecord, LabInv, LabTypeOK
<1>7. Room => Room'
  <2>1. PendingReview' \subseteq PendingReview
    BY <1>2, <1>3, <1>6 DEF PendingReview
  <2> QED BY <2>1, RoomGrows
<1>8. Holds(e)'
  BY <1>4, <1>5, <1>6 DEF Holds, Blank, AsSaved
<1>9. InStage(e)' /\ HasDerived(e)'
  BY <1>3, <1>4, <1>5, <1>6, <1>7
     DEF InStage, HasDerived, Unfrozen, Undecided, NothingToTake, Deriving, Command
<1> QED BY <1>1, <1>2, <1>4, <1>5, <1>8, <1>9, EnterKeeps DEF Knows

LEMMA EnterSearchStep ==
  ASSUME LabInv, NEW c \in Callers, EnterSearch(c) PROVE LabInv'
<1> DEFINE run == Reconciled(Id(c))
<1>1. Enters(c, {"search"}) /\ Command(c) = "search"
  BY DEF EnterSearch, Enters
<1>2. \/ run.status = "prepared" /\ Continue(c, "open", run)
      \/ Throw(c)
  BY DEF EnterSearch, Searchable
<1> QED BY <1>1, <1>2, EnterThrows, EnterContinues

LEMMA EnterFreezeStep ==
  ASSUME LabInv, NEW c \in Callers, EnterFreeze(c) PROVE LabInv'
<1> DEFINE run == Reconciled(Id(c))
<1>1. Enters(c, {"freeze"})
  BY DEF EnterFreeze
<1>2. \/ Continue(c, "adr", run)
      \/ run.status = "prepared" /\ Room /\ Continue(c, "worktrees", run)
      \/ Throw(c)
  BY DEF EnterFreeze
<1> HIDE DEF run
<1> QED BY <1>1, <1>2, EnterThrows, EnterContinues DEF run

LEMMA EnterEvaluateStep ==
  ASSUME LabInv, NEW c \in Callers, EnterEvaluate(c) PROVE LabInv'
<1> DEFINE run == Reconciled(Id(c))
<1>1. Enters(c, {"evaluate"})
  BY DEF EnterEvaluate
<1>2. \/ Continue(c, "adr", run)
      \/ run.status = "frozen" /\ Continue(c, "checks", run)
      \/ Throw(c)
  BY DEF EnterEvaluate
<1> QED BY <1>1, <1>2, EnterThrows, EnterContinues

LEMMA RefuseStep ==
  ASSUME LabInv, NEW c \in Callers, Refuse(c) PROVE LabInv'
BY EnterThrows DEF Refuse

LEMMA EnterFinalizeStep ==
  ASSUME LabInv, NEW c \in Callers, EnterFinalize(c) PROVE LabInv'
<1> DEFINE run == Reconciled(Id(c))
           e(verdict) == [op[c] EXCEPT !.at = "saveComplete",
                                       !.draft = [run EXCEPT !.verdict = verdict]]
<1>1. /\ Enters(c, {"finish", "abandon"}) /\ Id(c) = op[c].id /\ op[c].id \in Slots
      /\ op[c].name # "search" /\ Command(c) # "search"
  BY DEF EnterFinalize, Enters, Command, Id, LabInv, LabTypeOK, Op
<1>2. \/ run.status = "complete" /\ Continue(c, "report", run)
      \/ Throw(c)
      \/ /\ run.status # "complete"
         /\ \E verdict \in Verdicts :
              /\ verdict # "INCONCLUSIVE" => run.status = "evaluated"
              /\ verdict = "ACCEPT" => run.evaluation = "improved"
              /\ Continue(c, "saveComplete", [run EXCEPT !.verdict = verdict])
  BY DEF EnterFinalize, Rebuilds, Finishes, VerdictOf, Verdicts
<1>3. CASE run.status = "complete" /\ Continue(c, "report", run)
  BY <1>1, <1>3, EnterContinues
<1>4. CASE Throw(c)
  BY <1>1, <1>4, EnterThrows
<1>5. ASSUME run.status # "complete", NEW verdict \in Verdicts,
             verdict # "INCONCLUSIVE" => run.status = "evaluated",
             verdict = "ACCEPT" => run.evaluation = "improved",
             Continue(c, "saveComplete", [run EXCEPT !.verdict = verdict])
      PROVE  LabInv'
  <2>1. PICK i \in Slots : i = op[c].id /\ Id(c) = i
    BY <1>1
  <2>2. /\ At(c, "enter") /\ runs[i] # Null /\ CanReconcile(i)
        /\ SaveRun(i, run) /\ OnlyRunRecord
    BY <1>1, <2>1 DEF Enters
  <2>3. run \in Run
    BY <2>1, <2>2, ReconcileSound
  <2>4. PICK draft : draft = [run EXCEPT !.verdict = verdict]
    OBVIOUS
  <2>5. draft \in Run /\ draft.verdict = verdict
    BY <2>3, <2>4 DEF Run
  <2>6. PICK step : step = [op[c] EXCEPT !.at = "saveComplete", !.draft = draft]
    OBVIOUS
  <2>7. /\ step \in Op /\ step.at = "saveComplete" /\ step.id = i /\ step.draft = draft
        /\ step.name # "search" /\ op' = [op EXCEPT ![c] = step]
    BY <1>1, <1>5, <2>1, <2>4, <2>5, <2>6 DEF Continue, Op, Labels, LabInv, LabTypeOK
  <2>8. runs'[i] = run /\ run # Null /\ draft # Null /\ verdict # Null
    BY <2>2, <2>3, <2>5, NullAssumption DEF SaveRun, LabInv, LabTypeOK
  <2> HIDE DEF run
  <2>9. Knows(step)'
    BY <1>5, <2>4, <2>5, <2>7, <2>8
       DEF Knows, Holds, InStage, HasDerived, Blank, AsSaved, Deriving
  <2> QED BY <2>1, <2>2, <2>7, <2>9, EnterKeeps DEF run
<1> QED BY <1>2, <1>3, <1>4, <1>5

LEMMA EnterPrepareStep ==
  ASSUME LabInv, NEW c \in Callers, EnterPrepare(c) PROVE LabInv'
<1>1. /\ op[c].at = "enter" /\ At(c, "enter") /\ ~At(c, "idle") /\ op[c].name = "prepare"
      /\ op[c] \in Op /\ OnlyRunRecord /\ op \in [Callers -> Op]
  BY DEF EnterPrepare, At, Command, LabInv, LabTypeOK
<1>2. CASE Active # {}
  <2>1. PICK s \in Active :
          IF CanReconcile(s)
            THEN LET run == Reconciled(s)
                     rebuild == ~run.ready /\ run.status \in {"preparing", "prepared"}
                 IN  /\ SaveRun(s, run)
                     /\ op' = [op EXCEPT ![c].id = s, ![c].draft = run,
                                 ![c].at = IF rebuild THEN "open" ELSE "adr"]
            ELSE Throw(c) /\ UNCHANGED runs
    BY <1>2 DEF EnterPrepare, Resumable
  <2>2. CASE ~CanReconcile(s)
    <3>1. Stop(c, "leave") /\ UNCHANGED <<lock, disk, derived, head, slot, faults>>
      BY <1>1, <2>1, <2>2 DEF Throw, OnlyRunRecord, world, disk
    <3>2. faults \in Nat /\ op[c].at \notin Unstated
      BY <1>1 DEF LabInv, LabTypeOK, Unstated
    <3> QED BY <1>1, <3>1, <3>2, ThrowKeeps
  <2>3. CASE CanReconcile(s)
    <3>1. PICK run : run = Reconciled(s)
      OBVIOUS
    <3>2. PICK label \in {"open", "adr"} :
            /\ op' = [op EXCEPT ![c].id = s, ![c].draft = run, ![c].at = label]
            /\ label = "open" => run.status \in {"preparing", "prepared"}
      BY <2>1, <2>3, <3>1
    <3>3. s \in Slots /\ runs[s] # Null
      BY DEF Active
    <3>4. /\ run \in Run
          /\ run.status \in {"preparing", "prepared"} => experimentFile[s] = Null
          /\ run.status = "frozen" => evaluationFile[s] = Null
      BY <2>3, <3>1, <3>3, ReconcileSound
    <3>5. PICK e : e = [op[c] EXCEPT !.id = s, !.draft = run, !.at = label]
      OBVIOUS
    <3>6. /\ e \in Op /\ e.at = label /\ e.id = s /\ e.draft = run /\ e.name = "prepare"
          /\ op' = [op EXCEPT ![c] = e]
      BY <1>1, <3>2, <3>3, <3>4, <3>5 DEF Op, Labels
    <3>7. /\ SaveRun(s, run) /\ runs'[s] = run /\ run # Null
          /\ UNCHANGED <<experimentFile, evaluationFile>>
      BY <1>1, <2>1, <2>3, <3>1, <3>3, <3>4, NullAssumption
         DEF SaveRun, OnlyRunRecord, LabInv, LabTypeOK
    <3>8. Knows(e)'
      BY <3>2, <3>4, <3>6, <3>7
         DEF Knows, Holds, InStage, HasDerived, NothingToTake, Blank, AsSaved, Deriving
    <3> QED BY <1>1, <2>3, <3>1, <3>2, <3>3, <3>6, <3>7, <3>8, EnterKeeps DEF SaveRun
  <2> QED BY <2>2, <2>3
<1>3. CASE Active = {}
  <2>1. PICK label : label = IF runs[slot] = Null THEN "open"
                             ELSE IF runs[slot].materialized THEN "adr" ELSE "report"
    OBVIOUS
  <2>2. /\ op' = [op EXCEPT ![c].id = slot, ![c].draft = runs[slot], ![c].at = label]
        /\ UNCHANGED runs
    BY <1>3, <2>1 DEF EnterPrepare, Resumable
  <2>3. PICK e : e = [op[c] EXCEPT !.id = slot, !.draft = runs[slot], !.at = label]
    OBVIOUS
  <2>4. /\ slot \in Slots /\ runs[slot] \in Run \cup {Null} /\ faults \in Nat
        /\ runs[slot] # Null => runs[slot].status = "complete"
    BY <1>3 DEF LabInv, LabTypeOK, Active
  <2>5. /\ e \in Op /\ e.at = label /\ e.id = slot /\ e.draft = runs[slot] /\ e.name = "prepare"
        /\ op' = [op EXCEPT ![c] = e]
    BY <1>1, <2>1, <2>2, <2>3, <2>4 DEF Op, Labels
  <2>6. Knows(e)
    BY <1>3, <2>1, <2>4, <2>5
       DEF Knows, Holds, InStage, HasDerived, NothingToTake, Blank, AsSaved, Deriving
  <2>7. UNCHANGED <<lock, disk, derived, head, slot, faults>> /\ op[c].at \notin Unstated
    BY <1>1, <2>2 DEF OnlyRunRecord, world, disk, Unstated
  <2>8. e.at # "prepareSave"
    BY <2>1, <2>5
  <2> QED BY <1>1, <2>4, <2>5, <2>6, <2>7, <2>8, OthersIdle, MoveKeeps
<1> QED BY <1>2, <1>3

-----------------------------------------------------------------------------
(* The other steps that save a run record.                                 *)

\* A command that holds a record works on a slot that has one.
LEMMA Holding ==
  ASSUME LabInv, NEW c \in Callers, op[c].draft # Null
  PROVE  /\ ~At(c, "idle") /\ op[c] \in Op /\ Knows(op[c]) /\ op[c].id \in Slots
         /\ op[c].draft \in Run /\ runs[op[c].id] \in Run /\ runs[op[c].id] # Null
         /\ Sound(op[c].id) /\ Staged(op[c].id, runs[op[c].id])
         /\ Id(c) = op[c].id /\ Draft(c) = op[c].draft /\ Command(c) = op[c].name
         /\ runs[op[c].id].status # "complete" <=> op[c].id \in Active
         /\ op \in [Callers -> Op]
<1>1. op[c] \in Op /\ Knows(op[c]) /\ op[c].id \in Slots
  BY DEF LabInv, LabTypeOK, Op
<1>2. ~At(c, "idle") /\ runs[op[c].id] # Null
  BY <1>1 DEF Knows, Holds, Blank, At
<1>3. Sound(op[c].id) /\ runs[op[c].id] \in Run /\ op[c].draft \in Run
  BY <1>1, <1>2 DEF LabInv, LabTypeOK, Op
<1> QED BY <1>1, <1>2, <1>3 DEF Sound, Id, Draft, Command, Active, LabInv, LabTypeOK

\* After a save the record on disk is the one saved.
LEMMA Saved ==
  ASSUME LabInv, NEW j \in Slots, NEW run \in Run, SaveRun(j, run), OnlyRunRecord
  PROVE  /\ runs'[j] = run /\ run # Null /\ \A s \in Slots : s # j => runs'[s] = runs[s]
         /\ UNCHANGED <<experimentFile, evaluationFile, trials, reports, ledger, adrs, lessons>>
BY NullAssumption DEF SaveRun, OnlyRunRecord, derived, LabInv, LabTypeOK

LEMMA CreateRunStep ==
  ASSUME LabInv, NEW c \in Callers, CreateRun(c) PROVE LabInv'
<1>1. PICK i \in Slots : i = op[c].id
  BY DEF LabInv, LabTypeOK, Op
<1>2. /\ op[c].at = "create" /\ ~At(c, "idle") /\ op[c] \in Op /\ op \in [Callers -> Op]
      /\ op[c].name = "prepare" /\ runs[i] = Null /\ Active = {} /\ Id(c) = i
      /\ experimentFile[i] = Null /\ evaluationFile[i] = Null /\ trials[i] = 0
      /\ head \in Commits
  BY <1>1 DEF CreateRun, At, LabInv, LabTypeOK, Knows, InStage, Sound, Id
<1>3. PICK run : run = [status |-> "preparing", ready |-> FALSE, base |-> head,
                        sources |-> 1, seen |-> {s \in Slots : lessons[s] # Null},
                        experiment |-> Null, evaluation |-> Null, verdict |-> Null,
                        disposition |-> Null, materialized |-> FALSE]
  OBVIOUS
<1>4. run \in Run
  BY <1>2, <1>3 DEF Run, Statuses
<1>5. SaveRun(i, run) /\ Continue(c, "prepareAdr", run) /\ OnlyRunRecord
  BY <1>1, <1>2, <1>3 DEF CreateRun
<1>6. PICK e : e = [op[c] EXCEPT !.at = "prepareAdr", !.draft = run]
  OBVIOUS
<1>7. /\ e \in Op /\ e.at = "prepareAdr" /\ e.id = i /\ e.draft = run /\ e.name = "prepare"
      /\ op' = [op EXCEPT ![c] = e]
  BY <1>1, <1>2, <1>4, <1>5, <1>6 DEF Continue, Op, Labels
<1>8. Staged(i, run) /\ run.verdict # "ACCEPT" /\ ~run.materialized
  BY <1>2, <1>3, NullAssumption DEF Staged, Verdicts, Results
<1>11. runs'[i] = run /\ run # Null /\ UNCHANGED experimentFile
  BY <1>4, <1>5, Saved
<1>9. Knows(e)'
  BY <1>2, <1>3, <1>7, <1>11
     DEF Knows, Holds, InStage, HasDerived, Blank, AsSaved, Deriving
<1>10. op[c].at \notin Unstated /\ e.at \in Unstated
  BY <1>2, <1>7 DEF Unstated
<1> QED BY <1>2, <1>4, <1>5, <1>7, <1>8, <1>9, <1>10, SaveKeeps

LEMMA RefineRunStep ==
  ASSUME LabInv, NEW c \in Callers, RefineRun(c) PROVE LabInv'
<1>1. op[c].at = "refine" /\ op[c].draft # Null
  BY DEF RefineRun, At, LabInv, Knows, Holds, Blank
<1>2. PICK i \in Slots, old \in Run : i = op[c].id /\ old = op[c].draft
  BY <1>1, Holding
<1>3. /\ op[c] \in Op /\ op \in [Callers -> Op] /\ Id(c) = i /\ Draft(c) = old
      /\ runs[i] = old /\ old.status = "prepared" /\ experimentFile[i] = Null /\ i \in Active
      /\ Staged(i, old)
  BY <1>1, <1>2, Holding DEF Knows, Holds, InStage, Unfrozen, AsSaved
<1>4. PICK run : run = [old EXCEPT !.sources = old.sources + 1, !.ready = FALSE]
  OBVIOUS
<1>5. /\ run \in Run /\ run.status = "prepared" /\ AdrOf(run) = AdrOf(old)
      /\ run.experiment = old.experiment /\ run.evaluation = old.evaluation
      /\ run.verdict = old.verdict /\ run.disposition = old.disposition
      /\ run.materialized = old.materialized /\ run.base = old.base
  <2>1. old.sources + 1 \in Nat /\ DOMAIN old = {"status", "ready", "base", "sources", "seen",
          "experiment", "evaluation", "verdict", "disposition", "materialized"}
    BY DEF Run
  <2>2. run \in Run
    BY <1>4, <2>1 DEF Run
  <2>3. /\ run.status = old.status /\ run.experiment = old.experiment
        /\ run.evaluation = old.evaluation /\ run.verdict = old.verdict
        /\ run.disposition = old.disposition /\ run.materialized = old.materialized
        /\ run.base = old.base
    BY <1>4, <2>1
  <2> QED BY <1>3, <2>2, <2>3 DEF AdrOf
<1>6. SaveRun(i, run) /\ Continue(c, "prepareAdr", run) /\ OnlyRunRecord
  BY <1>3, <1>4 DEF RefineRun
<1>7. PICK e : e = [op[c] EXCEPT !.at = "prepareAdr", !.draft = run]
  OBVIOUS
<1>8. /\ e \in Op /\ e.at = "prepareAdr" /\ e.id = i /\ e.draft = run
      /\ op' = [op EXCEPT ![c] = e]
  BY <1>2, <1>3, <1>5, <1>6, <1>7 DEF Continue, Op, Labels
<1>9. Staged(i, run) /\ run.verdict # "ACCEPT" /\ ~run.materialized
  BY <1>3, <1>5, NullAssumption DEF Staged, Verdicts
<1>12. runs'[i] = run /\ run # Null /\ UNCHANGED experimentFile
  BY <1>5, <1>6, Saved
<1>10. Knows(e)'
  BY <1>3, <1>5, <1>8, <1>12
     DEF Knows, Holds, InStage, HasDerived, Blank, AsSaved, Deriving
<1>11. op[c].at \notin Unstated /\ e.at \in Unstated /\ ~At(c, "idle")
  BY <1>1, <1>8 DEF Unstated, At
<1> QED BY <1>3, <1>5, <1>6, <1>8, <1>9, <1>10, <1>11, SaveKeeps

LEMMA PrepareSaveStep ==
  ASSUME LabInv, NEW c \in Callers, PrepareSave(c) PROVE LabInv'
<1>1. op[c].at = "prepareSave" /\ op[c].draft # Null
  BY DEF PrepareSave, At, LabInv, Knows, Holds, Blank
<1>2. PICK i \in Slots, old \in Run, draft \in Run :
        i = op[c].id /\ old = runs[i] /\ draft = op[c].draft
  BY <1>1, Holding
<1>3. /\ Id(c) = i /\ Draft(c) = draft /\ draft = [old EXCEPT !.status = "prepared"]
      /\ old.status \in {"preparing", "prepared"} /\ experimentFile[i] = Null /\ i \in Active
      /\ Staged(i, old) /\ adrs[i] = AdrOf(draft)
  BY <1>1, <1>2, Holding DEF Knows, Holds, InStage, LabInv, PrepareStated, At
<1>4. PICK run : run = [draft EXCEPT !.ready = TRUE]
  OBVIOUS
<1>5. /\ run \in Run /\ run.status = "prepared" /\ AdrOf(run) = AdrOf(draft)
      /\ run.experiment = old.experiment /\ run.evaluation = old.evaluation
      /\ run.verdict = old.verdict /\ run.disposition = old.disposition
      /\ run.materialized = old.materialized /\ run.base = old.base
  BY <1>3, <1>4 DEF Run, AdrOf
<1>6. SaveRun(i, run) /\ Stop(c, "leave") /\ OnlyRunRecord
  BY <1>3, <1>4 DEF PrepareSave, Throw
<1>7. PICK e : e = [Idle EXCEPT !.at = "leave"]
  OBVIOUS
<1>8. /\ e \in Op /\ e.at = "leave" /\ Knows(e)' /\ op' = [op EXCEPT ![c] = e]
  BY <1>6, <1>7, IdleKnows DEF Stop
<1>9. Staged(i, run) /\ run.verdict # "ACCEPT" /\ ~run.materialized
  BY <1>3, <1>5, NullAssumption DEF Staged, Verdicts
<1>10. ~At(c, "idle") /\ evaluationFile[i] = Null
  BY <1>1, <1>3 DEF At, Staged
<1> QED BY <1>2, <1>3, <1>5, <1>6, <1>8, <1>9, <1>10, SaveKeeps

LEMMA SaveFrozenStep ==
  ASSUME LabInv, NEW c \in Callers, SaveFrozen(c) PROVE LabInv'
<1>1. op[c].at = "saveFrozen" /\ op[c].draft # Null
  BY DEF SaveFrozen, At, LabInv, Knows, Holds, Blank
<1>2. PICK i \in Slots, old \in Run, draft \in Run :
        i = op[c].id /\ old = runs[i] /\ draft = op[c].draft
  BY <1>1, Holding
<1>3. /\ op[c] \in Op /\ op \in [Callers -> Op] /\ Id(c) = i /\ Draft(c) = draft
      /\ draft = [old EXCEPT !.experiment = draft.experiment] /\ draft.experiment # Null
      /\ old.status = "prepared" /\ experimentFile[i] = draft.experiment /\ i \in Active
      /\ Staged(i, old)
  BY <1>1, <1>2, Holding DEF Knows, Holds, InStage
<1>4. PICK run : run = [draft EXCEPT !.status = "frozen"]
  OBVIOUS
<1>5. run \in Run /\ run.status = "frozen" /\ run.experiment = draft.experiment
  BY <1>4 DEF Run, Statuses
<1>6. /\ run.evaluation = old.evaluation
      /\ run.verdict = old.verdict /\ run.disposition = old.disposition
      /\ run.materialized = old.materialized /\ run.base = old.base
  BY <1>3, <1>4 DEF Run
<1>7. SaveRun(i, run) /\ Continue(c, "adr", run) /\ OnlyRunRecord
  BY <1>3, <1>4 DEF SaveFrozen
<1>8. PICK e : e = [op[c] EXCEPT !.at = "adr", !.draft = run]
  OBVIOUS
<1>9. /\ e \in Op /\ e.at = "adr" /\ e.id = i /\ e.draft = run /\ op' = [op EXCEPT ![c] = e]
  BY <1>2, <1>3, <1>5, <1>7, <1>8 DEF Continue, Op, Labels
<1>10. Staged(i, run) /\ run.verdict # "ACCEPT" /\ ~run.materialized
  BY <1>3, <1>5, <1>6, NullAssumption DEF Staged, Verdicts
<1>11. runs'[i] = run /\ run # Null /\ evaluationFile' = evaluationFile
  BY <1>5, <1>7, Saved
<1>12. Knows(e)'
  BY <1>3, <1>5, <1>9, <1>11
     DEF Knows, Holds, InStage, HasDerived, NothingToTake, Staged, Blank, AsSaved, Deriving
<1>13. op[c].id = i /\ e.at \in Unstated /\ ~At(c, "idle")
  BY <1>1, <1>2, <1>9 DEF Unstated, At
<1> QED BY <1>3, <1>5, <1>7, <1>9, <1>10, <1>12, <1>13, SaveKeeps

LEMMA SaveEvaluatedStep ==
  ASSUME LabInv, NEW c \in Callers, SaveEvaluated(c) PROVE LabInv'
<1>1. op[c].at = "saveEvaluated" /\ op[c].draft # Null
  BY DEF SaveEvaluated, At, LabInv, Knows, Holds, Blank
<1>2. PICK i \in Slots, old \in Run, draft \in Run :
        i = op[c].id /\ old = runs[i] /\ draft = op[c].draft
  BY <1>1, Holding
<1>3. /\ op[c] \in Op /\ op \in [Callers -> Op] /\ Id(c) = i /\ Draft(c) = draft
      /\ draft = [old EXCEPT !.evaluation = draft.evaluation] /\ draft.evaluation # Null
      /\ old.status = "frozen" /\ old.experiment = old.base /\ experimentFile[i] = old.base
      /\ evaluationFile[i] = draft.evaluation /\ i \in Active
      /\ Staged(i, old)
  BY <1>1, <1>2, Holding DEF Knows, Holds, InStage, Undecided
<1>4. PICK run : run = [draft EXCEPT !.status = "evaluated"]
  OBVIOUS
<1>5. run \in Run /\ run.status = "evaluated" /\ run.evaluation = draft.evaluation
  BY <1>4 DEF Run, Statuses
<1>6. /\ run.experiment = old.experiment
      /\ run.verdict = old.verdict /\ run.disposition = old.disposition
      /\ run.materialized = old.materialized /\ run.base = old.base
  BY <1>3, <1>4 DEF Run
<1>7. SaveRun(i, run) /\ Continue(c, "adr", run) /\ OnlyRunRecord
  BY <1>3, <1>4 DEF SaveEvaluated
<1>8. PICK e : e = [op[c] EXCEPT !.at = "adr", !.draft = run]
  OBVIOUS
<1>9. /\ e \in Op /\ e.at = "adr" /\ e.id = i /\ e.draft = run /\ op' = [op EXCEPT ![c] = e]
  BY <1>2, <1>3, <1>5, <1>7, <1>8 DEF Continue, Op, Labels
<1>10. Staged(i, run) /\ run.verdict # "ACCEPT" /\ ~run.materialized
  BY <1>3, <1>5, <1>6, NullAssumption DEF Staged, Verdicts
<1>11. runs'[i] = run /\ run # Null /\ evaluationFile' = evaluationFile
  BY <1>5, <1>7, Saved
<1>12. Knows(e)'
  BY <1>3, <1>5, <1>9, <1>11
     DEF Knows, Holds, InStage, HasDerived, NothingToTake, Staged, Blank, AsSaved, Deriving
<1>13. op[c].id = i /\ e.at \in Unstated /\ ~At(c, "idle")
  BY <1>1, <1>2, <1>9 DEF Unstated, At
<1> QED BY <1>3, <1>5, <1>7, <1>9, <1>10, <1>12, <1>13, SaveKeeps

\* The verdict a command has decided on, in memory.
LEMMA Deciding ==
  ASSUME LabInv, NEW c \in Callers, op[c].at = "saveComplete"
  PROVE  /\ op[c].draft # Null /\ op[c].draft \in Run /\ runs[op[c].id] \in Run
         /\ op[c].draft = [runs[op[c].id] EXCEPT !.verdict = op[c].draft.verdict]
         /\ op[c].draft.verdict \in Verdicts /\ op[c].id \in Active
         /\ op[c].draft.verdict # "INCONCLUSIVE" => runs[op[c].id].status = "evaluated"
         /\ op[c].draft.verdict = "ACCEPT" => Earned(op[c].id, runs[op[c].id])
<1>1. op[c].draft # Null
  BY DEF LabInv, Knows, Holds, Blank
<1>2. PICK i \in Slots, old \in Run, draft \in Run :
        i = op[c].id /\ old = runs[i] /\ draft = op[c].draft
  BY <1>1, Holding
<1>3. /\ draft = [old EXCEPT !.verdict = draft.verdict] /\ draft.verdict # Null
      /\ old.status # "complete" /\ i \in Active /\ Staged(i, old)
      /\ draft.verdict # "INCONCLUSIVE" => old.status = "evaluated"
      /\ draft.verdict = "ACCEPT" => old.evaluation = "improved"
  BY <1>1, <1>2, Holding DEF Knows, Holds, InStage
<1>4. draft.verdict \in Verdicts
  BY <1>3 DEF Run
<1>5. draft.verdict = "ACCEPT" => Earned(i, old)
  BY <1>3 DEF Staged, Earned
<1> QED BY <1>1, <1>2, <1>3, <1>4, <1>5

LEMMA SaveCompleteStep ==
  ASSUME LabInv, NEW c \in Callers, SaveComplete(c) PROVE LabInv'
<1>1. op[c].at = "saveComplete" /\ op[c].draft # Null
  BY Deciding DEF SaveComplete, At
<1>2. PICK i \in Slots, old \in Run, draft \in Run :
        i = op[c].id /\ old = runs[i] /\ draft = op[c].draft
  BY <1>1, Holding
<1>3. /\ op[c] \in Op /\ op \in [Callers -> Op] /\ Id(c) = i /\ Draft(c) = draft
      /\ draft = [old EXCEPT !.verdict = draft.verdict] /\ draft.verdict # Null
      /\ draft.verdict = "ACCEPT" => Earned(i, old)
      /\ i \in Active /\ old.status # "complete" /\ Staged(i, old) /\ op[c].name # "search"
  BY <1>1, <1>2, Holding, Deciding DEF Knows, Holds, InStage
<1>4. PICK run : run = [draft EXCEPT !.status = "complete"]
  OBVIOUS
<1>5. run \in Run /\ run.status = "complete" /\ run.verdict = draft.verdict
  BY <1>4 DEF Run, Statuses
<1>6. /\ run.experiment = old.experiment /\ run.evaluation = old.evaluation
      /\ run.disposition = old.disposition
      /\ run.materialized = old.materialized /\ run.base = old.base
  BY <1>3, <1>4 DEF Run
<1>7. SaveRun(i, run) /\ Continue(c, "report", run) /\ OnlyRunRecord
  BY <1>3, <1>4 DEF SaveComplete, Completed
<1>8. PICK e : e = [op[c] EXCEPT !.at = "report", !.draft = run]
  OBVIOUS
<1>9. /\ e \in Op /\ e.at = "report" /\ e.id = i /\ e.draft = run
      /\ e.name # "search" /\ op' = [op EXCEPT ![c] = e]
  BY <1>2, <1>3, <1>5, <1>7, <1>8 DEF Continue, Op, Labels
<1>10. /\ Staged(i, run) /\ ~run.materialized
       /\ run.verdict = "ACCEPT" => Earned(i, run)
  BY <1>3, <1>5, <1>6 DEF Staged, Earned
<1>11. runs'[i] = run /\ run # Null
  BY <1>5, <1>7, Saved
<1>12. Knows(e)'
  BY <1>5, <1>9, <1>11 DEF Knows, Holds, InStage, HasDerived, Blank, AsSaved, Deriving
<1>13. op[c].id = i /\ e.at \in Unstated /\ ~At(c, "idle")
  BY <1>1, <1>2, <1>9 DEF Unstated, At
<1> QED BY <1>3, <1>5, <1>7, <1>9, <1>10, <1>12, <1>13, SaveKeeps

\* Without faults a command that owes no ADR finds all of them written.
LEMMA AllStated ==
  ASSUME LabInv, NEW c \in Callers, ~At(c, "idle"), op[c].at \notin Unstated, faults = 0,
         NEW s \in Slots, runs[s] # Null
  PROVE  Stated(s)
<1>1. \A d \in Callers : op[d].at \notin Unstated
  BY OthersIdle DEF Unstated
<1> QED BY <1>1 DEF LabInv, Stating

LEMMA EnterDispositionStep ==
  ASSUME LabInv, NEW c \in Callers, EnterDisposition(c) PROVE LabInv'
<1>1. PICK i \in Slots : i = op[c].id
  BY DEF LabInv, LabTypeOK, Op
<1>2. /\ op[c].at = "enter" /\ ~At(c, "idle") /\ op[c] \in Op /\ op \in [Callers -> Op]
      /\ op[c].name = "disposition" /\ Id(c) = i /\ OnlyRunRecord
      /\ op[c].at \notin Unstated /\ faults \in Nat
  BY <1>1 DEF EnterDisposition, At, LabInv, LabTypeOK, Id, Command, Unstated
<1>3. CASE i \notin Complete
  <2>1. Stop(c, "leave") /\ UNCHANGED <<lock, disk, derived, head, slot, faults>>
    BY <1>2, <1>3 DEF EnterDisposition, Throw, OnlyRunRecord, disk, world
  <2> QED BY <1>2, <2>1, ThrowKeeps
<1>4. CASE i \in Complete
  <2>1. PICK old \in Run : old = runs[i] /\ old.status = "complete" /\ Sound(i) /\ Staged(i, old)
    BY <1>4 DEF Complete, LabInv, LabTypeOK, Sound
  <2>2. PICK value \in {"reviewed", "discarded"} :
          LET run == [old EXCEPT !.disposition = value]
          IN  SaveRun(i, run) /\ Continue(c, "report", run)
    BY <1>2, <1>4, <2>1 DEF EnterDisposition
  <2>3. PICK run : run = [old EXCEPT !.disposition = value]
    OBVIOUS
  <2>4. /\ run \in Run /\ run.status = "complete" /\ run.disposition # Null
        /\ run.experiment = old.experiment /\ run.evaluation = old.evaluation
        /\ run.verdict = old.verdict /\ run.materialized = old.materialized
        /\ run.base = old.base
    BY <2>1, <2>3, NullAssumption DEF Run
  <2>5. SaveRun(i, run) /\ Continue(c, "report", run)
    BY <2>2, <2>3 DEF SaveRun, Continue
  <2>6. PICK e : e = [op[c] EXCEPT !.at = "report", !.draft = run]
    OBVIOUS
  <2>7. /\ e \in Op /\ e.at = "report" /\ e.id = i /\ e.draft = run
        /\ e.name = "disposition" /\ op' = [op EXCEPT ![c] = e]
    BY <1>1, <1>2, <2>4, <2>5, <2>6 DEF Continue, Op, Labels
  <2>8. /\ Staged(i, run)
        /\ run.verdict = "ACCEPT" => Earned(i, run)
        /\ run.materialized => Derived(i, run)
    <3>1. Staged(i, run)
      BY <2>1, <2>4 DEF Staged
    <3>2. /\ old.verdict = "ACCEPT" => Earned(i, old)
          /\ old.materialized => Derived(i, old)
      BY <1>4, <2>1 DEF Sound, Complete
    <3>3. run.verdict = "ACCEPT" => Earned(i, run)
      BY <2>4, <3>2 DEF Earned
    <3>4. run.materialized => Derived(i, run)
      <4>1. Derived(i, old) => Derived(i, run)
        BY <2>1, <2>4 DEF Derived, Reported, Listed, Recorded
      <4> QED BY <2>4, <3>2, <4>1
    <3> QED BY <3>1, <3>3, <3>4
  <2>9. runs'[i] = run /\ run # Null
    BY <1>2, <2>4, <2>5, Saved
  <2>10. Knows(e)'
    BY <2>4, <2>7, <2>9 DEF Knows, Holds, InStage, HasDerived, Blank, AsSaved, Deriving
  <2>11. e.at \in Unstated
    BY <2>7 DEF Unstated
  <2> QED BY <1>2, <2>4, <2>5, <2>7, <2>8, <2>10, <2>11, SaveKeeps
<1> QED BY <1>3, <1>4

LEMMA SaveMaterializedStep ==
  ASSUME LabInv, NEW c \in Callers, SaveMaterialized(c) PROVE LabInv'
<1>1. op[c].at = "saveMaterialized" /\ op[c].draft # Null
  BY DEF SaveMaterialized, At, LabInv, Knows, Holds, Blank
<1>2. PICK i \in Slots, old \in Run :
        i = op[c].id /\ old = runs[i] /\ old # Null /\ Sound(i) /\ Staged(i, old)
  BY <1>1, Holding
<1>3. /\ Id(c) = i /\ Draft(c) = old /\ old.status = "complete" /\ Derived(i, old)
  BY <1>1, <1>2, Holding DEF Knows, Holds, InStage, HasDerived, AsSaved, Deriving, Derived
<1>4. PICK run : run = [old EXCEPT !.materialized = TRUE]
  OBVIOUS
<1>5. /\ run \in Run /\ run.status = "complete" /\ AdrOf(run) = AdrOf(old)
      /\ run.experiment = old.experiment /\ run.evaluation = old.evaluation
      /\ run.verdict = old.verdict /\ run.disposition = old.disposition /\ run.base = old.base
  BY <1>3, <1>4 DEF Run, AdrOf
<1>6. SaveRun(i, run) /\ Stop(c, "leave") /\ OnlyRunRecord
  BY <1>3, <1>4 DEF SaveMaterialized, Throw
<1>7. PICK e : e = [Idle EXCEPT !.at = "leave"]
  OBVIOUS
<1>8. /\ e \in Op /\ e.at = "leave" /\ Knows(e)' /\ op' = [op EXCEPT ![c] = e]
  BY <1>6, <1>7, IdleKnows DEF Stop
<1>9. /\ Staged(i, run) /\ Derived(i, run)
      /\ run.verdict = "ACCEPT" => Earned(i, run)
  BY <1>2, <1>3, <1>5 DEF Sound, Staged, Earned, Derived, Reported, Listed, Recorded
<1>10. ~At(c, "idle") /\ op[c].at \notin Unstated
  BY <1>1 DEF At, Unstated
<1>11. faults = 0 => adrs[i] = AdrOf(run)
  BY <1>2, <1>5, <1>10, AllStated DEF Stated
<1>12. run.verdict = "ACCEPT" /\ run.disposition = Null => i \in PendingReview
  BY <1>2, <1>5 DEF PendingReview
<1> QED BY <1>5, <1>6, <1>8, <1>9, <1>10, <1>11, <1>12, SaveKeeps

-----------------------------------------------------------------------------
(* Steps that write a file beside the run record.                          *)

\* The run records stay; the files of the command's own slot may change.
LEMMA FileKeeps ==
  ASSUME LabInv, LabTypeOK', NEW c \in Callers, ~At(c, "idle"), NEW e \in Op,
         NEW j \in Slots, j = op[c].id, op' = [op EXCEPT ![c] = e],
         UNCHANGED <<lock, runs>>,
         \A s \in Slots : s # j => Same(s),
         Sound(j)', Knows(e)',
         j \in Active /\ experimentFile'[j] # Null => Room \/ experimentFile[j] # Null,
         faults' = 0 => faults = 0,
         faults' = 0 /\ runs[j] # Null => Stated(j)' \/ (e.id = j /\ e.at \in Unstated),
         e.at = "prepareSave" => adrs'[e.id] = AdrOf(e.draft)
  PROVE  LabInv'
<1>1. lock' = c /\ \A d \in Callers : d # c => op[d].at = "idle"
  BY OthersIdle
<1>2. Active' = Active /\ PendingReview' = PendingReview
  BY DEF Active, PendingReview
<1>3. /\ PendingReview' \subseteq PendingReview
      /\ j \in Active' => j \in Active
      /\ j \in Active' /\ experimentFile'[j] # Null =>
           Room \/ (j \in Active /\ experimentFile[j] # Null)
      /\ faults' = 0 /\ runs'[j] # Null => Stated(j)' \/ (e.id = j /\ e.at \in Unstated)
  BY <1>2
<1> QED BY <1>1, <1>3, StepKeeps

LEMMA PrepareAdrStep ==
  ASSUME LabInv, NEW c \in Callers, PrepareAdr(c) PROVE LabInv'
<1>1. op[c].at = "prepareAdr" /\ op[c].draft # Null
  BY DEF PrepareAdr, At, LabInv, Knows, Holds, Blank
<1>2. PICK i \in Slots, old \in Run : i = op[c].id /\ old = runs[i] /\ Sound(i)
  BY <1>1, Holding
<1>3. /\ op[c] \in Op /\ op \in [Callers -> Op] /\ Id(c) = i /\ Draft(c) = old
      /\ old.status \in {"preparing", "prepared"} /\ experimentFile[i] = Null /\ ~At(c, "idle")
      /\ ~old.materialized
  BY <1>1, <1>2, Holding DEF Knows, Holds, InStage, AsSaved, Staged
<1>4. PICK run : run = [old EXCEPT !.status = "prepared"]
  OBVIOUS
<1>5. run \in Run /\ run # Null /\ AdrOf(run) \in Adrs
  BY <1>4, RowsAndAdrs, NullAssumption DEF Run, Statuses
<1>6. /\ adrs' = [adrs EXCEPT ![i] = AdrOf(run)] /\ Continue(c, "prepareSave", run)
      /\ UNCHANGED <<lock, runs, experimentFile, evaluationFile, trials, reports, ledger, lessons,
                     head, slot, faults>>
  BY <1>3, <1>4 DEF PrepareAdr, disk, world, Continue
<1>7. PICK e : e = [op[c] EXCEPT !.at = "prepareSave", !.draft = run]
  OBVIOUS
<1>8. /\ e \in Op /\ e.at = "prepareSave" /\ e.id = i /\ e.draft = run
      /\ op' = [op EXCEPT ![c] = e]
  BY <1>2, <1>3, <1>5, <1>6, <1>7 DEF Continue, Op, Labels
<1>9. LabTypeOK'
  BY <1>3, <1>5, <1>6, <1>8 DEF LabInv, LabTypeOK
<1>10. adrs'[i] = AdrOf(run) /\ \A s \in Slots : s # i => Same(s)
  BY <1>6 DEF LabInv, LabTypeOK, Same
<1>11. Sound(i)'
  BY <1>2, <1>3, <1>6 DEF Sound, Staged, Earned
<1>12. Knows(e)'
  BY <1>2, <1>3, <1>4, <1>5, <1>6, <1>8, NullAssumption
     DEF Knows, Holds, InStage, HasDerived, Blank, AsSaved, Deriving
<1>13. e.at \in Unstated
  BY <1>8 DEF Unstated
<1> QED BY <1>2, <1>3, <1>6, <1>8, <1>9, <1>10, <1>11, <1>12, <1>13, FileKeeps

LEMMA WriteAdrStep ==
  ASSUME LabInv, NEW c \in Callers, WriteAdr(c) PROVE LabInv'
<1>1. op[c].at = "adr" /\ op[c].draft # Null
  BY DEF WriteAdr, At, LabInv, Knows, Holds, Blank
<1>2. PICK i \in Slots, run \in Run : i = op[c].id /\ run = runs[i] /\ Sound(i)
  BY <1>1, Holding
<1>3. Id(c) = i /\ Draft(c) = run /\ NothingToTake(i) /\ ~At(c, "idle")
  BY <1>1, <1>2, Holding DEF Knows, Holds, InStage, AsSaved
<1>4. AdrOf(run) \in Adrs /\ AdrOf(run) # Null
  BY RowsAndAdrs
<1>5. /\ adrs' = [adrs EXCEPT ![i] = AdrOf(run)] /\ Stop(c, "leave")
      /\ UNCHANGED <<lock, runs, experimentFile, evaluationFile, trials, reports, ledger, lessons,
                     head, slot, faults>>
  BY <1>3 DEF WriteAdr, Throw, disk, world
<1>6. PICK e : e = [Idle EXCEPT !.at = "leave"]
  OBVIOUS
<1>7. e \in Op /\ e.at = "leave" /\ Knows(e)' /\ op' = [op EXCEPT ![c] = e]
  BY <1>5, <1>6, IdleKnows DEF Stop
<1>8. LabTypeOK'
  BY <1>4, <1>5, <1>7 DEF LabInv, LabTypeOK
<1>9. adrs'[i] = AdrOf(run) /\ \A s \in Slots : s # i => Same(s)
  BY <1>5 DEF LabInv, LabTypeOK, Same
<1>10. Sound(i)'
  <2>1. (Sound(i) /\ (runs[i] # Null /\ runs[i].materialized => Derived(i, runs[i])'))
          => Sound(i)'
    BY <1>5 DEF Sound, Staged, Earned
  <2>2. ASSUME runs[i].materialized, runs[i] # Null PROVE Derived(i, runs[i])'
    <3>1. Derived(i, run)
      BY <1>2, <2>2 DEF Sound
    <3> QED BY <1>2, <1>4, <1>5, <1>9, <3>1 DEF Derived, Reported, Listed, Recorded, AdrOf
  <2> QED BY <1>2, <2>1, <2>2
<1>11. Stated(i)'
  BY <1>2, <1>3, <1>5, <1>9 DEF Stated, NothingToTake
<1> QED BY <1>2, <1>3, <1>5, <1>7, <1>8, <1>9, <1>10, <1>11, FileKeeps

\* A command that derives works from the complete record on disk.
LEMMA Materializing ==
  ASSUME LabInv, NEW c \in Callers, op[c].at \in Deriving
  PROVE  \E i \in Slots, run \in Run :
           /\ i = op[c].id /\ run = runs[i] /\ Sound(i) /\ Staged(i, run)
           /\ Id(c) = i /\ Draft(c) = run /\ op[c].draft = run /\ run.status = "complete"
           /\ run.verdict \in Verdicts
           /\ ~At(c, "idle") /\ op[c].name # "search" /\ op[c] \in Op /\ op \in [Callers -> Op]
           /\ op[c].at # "report" => Reported(i, run)
           /\ op[c].at \notin {"report", "ledger"} => Listed(i, run)
           /\ op[c].at \in {"remember", "saveMaterialized"} => Recorded(i, run)
           /\ op[c].at = "saveMaterialized" => lessons[i] = run.verdict
<1>1. op[c].draft # Null
  BY DEF LabInv, Knows, Holds, Blank, Deriving
<1>2. PICK i \in Slots, run \in Run :
        i = op[c].id /\ run = runs[i] /\ Sound(i) /\ Staged(i, run)
  BY <1>1, Holding
<1>3. /\ Id(c) = i /\ Draft(c) = run /\ op[c].draft = run /\ run.status = "complete"
      /\ op[c].name # "search" /\ ~At(c, "idle") /\ op[c] \in Op /\ op \in [Callers -> Op]
  BY <1>1, <1>2, Holding DEF Knows, Holds, InStage, AsSaved, Deriving
<1>4. /\ op[c].at # "report" => Reported(i, run)
      /\ op[c].at \notin {"report", "ledger"} => Listed(i, run)
      /\ op[c].at \in {"remember", "saveMaterialized"} => Recorded(i, run)
      /\ op[c].at = "saveMaterialized" => lessons[i] = run.verdict
  BY <1>1, <1>2, Holding DEF Knows, HasDerived, Deriving
<1>5. run.verdict \in Verdicts
  BY <1>2, <1>3 DEF Staged, Run
<1> QED BY <1>2, <1>3, <1>4, <1>5

LEMMA WriteReportStep ==
  ASSUME LabInv, NEW c \in Callers, WriteReport(c) PROVE LabInv'
<1>1. op[c].at = "report" /\ op[c].at \in Deriving
  BY DEF WriteReport, At, Deriving
<1>2. PICK i \in Slots, run \in Run :
        /\ i = op[c].id /\ run = runs[i] /\ Sound(i) /\ Id(c) = i /\ Draft(c) = run
        /\ op[c].draft = run /\ run.status = "complete" /\ run.verdict \in Verdicts
        /\ ~At(c, "idle") /\ op[c].name # "search" /\ op[c] \in Op /\ op \in [Callers -> Op]
  BY <1>1, Materializing
<1>3. /\ reports' = [reports EXCEPT ![i] = run.verdict] /\ GoTo(c, "ledger")
      /\ UNCHANGED <<lock, runs, experimentFile, evaluationFile, trials, ledger, adrs, lessons,
                     head, slot, faults>>
  BY <1>2 DEF WriteReport, disk, world
<1>4. PICK e : e = [op[c] EXCEPT !.at = "ledger"]
  OBVIOUS
<1>5. /\ e \in Op /\ e.at = "ledger" /\ e.id = i /\ e.draft = run /\ e.name # "search"
      /\ op' = [op EXCEPT ![c] = e]
  BY <1>2, <1>3, <1>4 DEF GoTo, Op, Labels
<1>6. LabTypeOK'
  BY <1>2, <1>3, <1>5 DEF LabInv, LabTypeOK
<1>7. reports'[i] = run.verdict /\ \A s \in Slots : s # i => Same(s)
  BY <1>3 DEF LabInv, LabTypeOK, Same
<1>8. Sound(i)'
  BY <1>2, <1>3, <1>7 DEF Sound, Staged, Earned, Derived, Reported, Listed, Recorded
<1>9. Knows(e)'
  BY <1>2, <1>3, <1>5, <1>7, NullAssumption
     DEF Knows, Holds, InStage, HasDerived, Reported, Blank, AsSaved, Deriving
<1>10. e.at \in Unstated
  BY <1>5 DEF Unstated
<1> QED BY <1>2, <1>3, <1>5, <1>6, <1>7, <1>8, <1>9, <1>10, FileKeeps

LEMMA WriteLedgerStep ==
  ASSUME LabInv, NEW c \in Callers, WriteLedger(c) PROVE LabInv'
<1>1. op[c].at = "ledger" /\ op[c].at \in Deriving
  BY DEF WriteLedger, At, Deriving
<1>2. PICK i \in Slots, run \in Run :
        /\ i = op[c].id /\ run = runs[i] /\ Sound(i) /\ Id(c) = i /\ Draft(c) = run
        /\ op[c].draft = run /\ run.status = "complete" /\ Reported(i, run)
        /\ ~At(c, "idle") /\ op[c].name # "search" /\ op[c] \in Op /\ op \in [Callers -> Op]
  BY <1>1, Materializing
<1>3. /\ ledger' = [s \in Slots |-> IF s \in Complete THEN RowOf(runs[s]) ELSE Null]
      /\ GoTo(c, "materialAdr")
      /\ UNCHANGED <<lock, runs, experimentFile, evaluationFile, trials, reports, adrs, lessons,
                     head, slot, faults>>
  BY DEF WriteLedger, disk, world
<1>4. PICK e : e = [op[c] EXCEPT !.at = "materialAdr"]
  OBVIOUS
<1>5. /\ e \in Op /\ e.at = "materialAdr" /\ e.id = i /\ e.draft = run /\ e.name # "search"
      /\ op' = [op EXCEPT ![c] = e]
  BY <1>2, <1>3, <1>4 DEF GoTo, Op, Labels
<1>6. \A s \in Complete : runs[s] \in Run /\ RowOf(runs[s]) \in Rows
  BY RowsAndAdrs DEF Complete, LabInv, LabTypeOK
<1>7. LabTypeOK'
  BY <1>2, <1>3, <1>5, <1>6 DEF LabInv, LabTypeOK
<1>8. \A s \in Slots : Same(s)
  BY <1>3 DEF Same
<1>9. Sound(i)'
  BY <1>8, SoundFrame, <1>2 DEF LabInv
<1>10. Listed(i, run)'
  <2>1. i \in Complete
    BY <1>2, NullAssumption DEF Complete
  <2>2. ledger'[i] = RowOf(run)
    BY <1>2, <1>3, <2>1
  <2> QED BY <1>2, <2>2, RowsAndAdrs DEF Listed
<1>11. Knows(e)'
  BY <1>2, <1>3, <1>5, <1>10, NullAssumption
     DEF Knows, Holds, InStage, HasDerived, Reported, Listed, Blank, AsSaved, Deriving
<1>12. e.at \in Unstated
  BY <1>5 DEF Unstated
<1> QED BY <1>2, <1>3, <1>5, <1>7, <1>8, <1>9, <1>11, <1>12, FileKeeps

LEMMA MaterialAdrStep ==
  ASSUME LabInv, NEW c \in Callers, MaterialAdr(c) PROVE LabInv'
<1>1. op[c].at = "materialAdr" /\ op[c].at \in Deriving
  BY DEF MaterialAdr, At, Deriving
<1>2. PICK i \in Slots, run \in Run :
        /\ i = op[c].id /\ run = runs[i] /\ Sound(i) /\ Id(c) = i /\ Draft(c) = run
        /\ op[c].draft = run /\ run.status = "complete" /\ Reported(i, run) /\ Listed(i, run)
        /\ ~At(c, "idle") /\ op[c].name # "search" /\ op[c] \in Op /\ op \in [Callers -> Op]
  BY <1>1, Materializing
<1>3. AdrOf(run) \in Adrs /\ AdrOf(run) # Null
  BY RowsAndAdrs
<1>4. /\ adrs' = [adrs EXCEPT ![i] = AdrOf(run)] /\ GoTo(c, "open")
      /\ UNCHANGED <<lock, runs, experimentFile, evaluationFile, trials, reports, ledger, lessons,
                     head, slot, faults>>
  BY <1>2 DEF MaterialAdr, disk, world
<1>5. PICK e : e = [op[c] EXCEPT !.at = "open"]
  OBVIOUS
<1>6. /\ e \in Op /\ e.at = "open" /\ e.id = i /\ e.draft = run /\ e.name # "search"
      /\ op' = [op EXCEPT ![c] = e]
  BY <1>2, <1>4, <1>5 DEF GoTo, Op, Labels
<1>7. LabTypeOK'
  BY <1>3, <1>4, <1>6 DEF LabInv, LabTypeOK
<1>8. adrs'[i] = AdrOf(run) /\ \A s \in Slots : s # i => Same(s)
  BY <1>4 DEF LabInv, LabTypeOK, Same
<1>9. Recorded(i, run)'
  BY <1>2, <1>3, <1>8 DEF Recorded, AdrOf
<1>10. Sound(i)'
  BY <1>2, <1>4, <1>9 DEF Sound, Staged, Earned, Derived, Reported, Listed
<1>11. Knows(e)'
  BY <1>2, <1>4, <1>6, <1>9, NullAssumption
     DEF Knows, Holds, InStage, HasDerived, Reported, Listed, Recorded, Blank, AsSaved, Deriving
<1>12. Stated(i)'
  BY <1>2, <1>4, <1>8 DEF Stated
<1> QED BY <1>2, <1>4, <1>6, <1>7, <1>8, <1>10, <1>11, <1>12, FileKeeps

LEMMA RememberStep ==
  ASSUME LabInv, NEW c \in Callers, Remember(c) PROVE LabInv'
<1>1. op[c].at = "remember" /\ op[c].at \in Deriving /\ op[c].at \notin Unstated
  BY DEF Remember, At, Deriving, Unstated
<1>2. PICK i \in Slots, run \in Run :
        /\ i = op[c].id /\ run = runs[i] /\ Sound(i) /\ Id(c) = i /\ Draft(c) = run
        /\ op[c].draft = run /\ run.status = "complete" /\ run.verdict \in Verdicts
        /\ Reported(i, run) /\ Listed(i, run) /\ Recorded(i, run)
        /\ ~At(c, "idle") /\ op[c].name # "search" /\ op[c] \in Op /\ op \in [Callers -> Op]
  BY <1>1, Materializing
<1>3. /\ lessons' = [lessons EXCEPT ![i] = run.verdict]
      /\ Stop(c, "leave") \/ GoTo(c, "saveMaterialized")
      /\ UNCHANGED <<lock, runs, experimentFile, evaluationFile, trials, reports, ledger, adrs,
                     head, slot, faults>>
  BY <1>2 DEF Remember, Throw, disk, world
<1>4. lessons'[i] = run.verdict /\ \A s \in Slots : s # i => Same(s)
  BY <1>3 DEF LabInv, LabTypeOK, Same
<1>5. PICK e \in Op : Knows(e)' /\ op' = [op EXCEPT ![c] = e] /\ e.at # "prepareSave"
  <2>1. CASE Stop(c, "leave")
    <3>1. PICK e : e = [Idle EXCEPT !.at = "leave"]
      OBVIOUS
    <3> QED BY <2>1, <3>1, IdleKnows DEF Stop
  <2>2. CASE GoTo(c, "saveMaterialized")
    <3>1. PICK e : e = [op[c] EXCEPT !.at = "saveMaterialized"]
      OBVIOUS
    <3>2. /\ e \in Op /\ e.at = "saveMaterialized" /\ e.id = i /\ e.draft = run
          /\ e.name # "search" /\ op' = [op EXCEPT ![c] = e]
      BY <1>2, <2>2, <3>1 DEF GoTo, Op, Labels
    <3>3. Knows(e)'
      BY <1>2, <1>3, <1>4, <3>2, NullAssumption
         DEF Knows, Holds, InStage, HasDerived, Reported, Listed, Recorded, Blank, AsSaved,
             Deriving
    <3> QED BY <3>2, <3>3
  <2> QED BY <1>3, <2>1, <2>2
<1>6. LabTypeOK'
  BY <1>2, <1>3, <1>5 DEF LabInv, LabTypeOK
<1>7. Sound(i)'
  BY <1>2, <1>3, <1>4 DEF Sound, Staged, Earned, Derived, Reported, Listed, Recorded
<1>8. faults' = 0 /\ runs[i] # Null => Stated(i)'
  <2>1. faults = 0 /\ runs[i] # Null => Stated(i)
    BY <1>1, <1>2, AllStated
  <2> QED BY <1>3, <2>1 DEF Stated, AdrOf
<1> QED BY <1>2, <1>3, <1>4, <1>5, <1>6, <1>7, <1>8, FileKeeps

LEMMA EnterRepairStep ==
  ASSUME LabInv, NEW c \in Callers, EnterRepair(c) PROVE LabInv'
<1>1. PICK i \in Slots : i = op[c].id
  BY DEF LabInv, LabTypeOK, Op
<1>2. /\ op[c].at = "enter" /\ ~At(c, "idle") /\ op[c] \in Op /\ op \in [Callers -> Op]
      /\ op[c].name = "repair" /\ Id(c) = i /\ lock = c
      /\ UNCHANGED <<lock, disk, derived, head, slot, faults>>
      /\ op[c].at \notin Unstated /\ faults \in Nat
  BY <1>1, OthersIdle
     DEF EnterRepair, At, LabInv, LabTypeOK, Id, Command, Unstated, world
<1>3. CASE i \notin Complete
  BY <1>2, <1>3, ThrowKeeps DEF EnterRepair, Throw
<1>4. CASE i \in Complete
  <2>1. PICK run \in Run : run = runs[i] /\ run.status = "complete"
    BY <1>4 DEF Complete, LabInv, LabTypeOK
  <2>2. PICK e : e = [op[c] EXCEPT !.at = "report", !.draft = run]
    OBVIOUS
  <2>3. /\ e \in Op /\ e.at = "report" /\ e.id = i /\ e.draft = run /\ e.name = "repair"
        /\ op' = [op EXCEPT ![c] = e]
    BY <1>1, <1>2, <1>4, <2>1, <2>2 DEF EnterRepair, Continue, Op, Labels
  <2>4. Knows(e)
    BY <2>1, <2>3, NullAssumption
       DEF Knows, Holds, InStage, HasDerived, Blank, AsSaved, Deriving
  <2> QED BY <1>2, <2>3, <2>4, OthersIdle, MoveKeeps
<1> QED BY <1>3, <1>4

\* An unfinished run has no verdict to earn and nothing derived from it.
LEMMA UnfinishedSound ==
  ASSUME NEW s \in Slots, NEW run \in Run, runs'[s] = run, run.status # "complete",
         Staged(s, run)'
  PROVE  Sound(s)'
<1>1. runs'[s] # Null /\ run.verdict # "ACCEPT" /\ ~run.materialized
  BY NullAssumption DEF Staged, Verdicts
<1> QED BY <1>1 DEF Sound

LEMMA AddWorktreesStep ==
  ASSUME LabInv, NEW c \in Callers, AddWorktrees(c) PROVE LabInv'
<1>1. /\ op[c].at = "worktrees" /\ op[c].draft # Null /\ ~At(c, "idle")
      /\ op[c].at \notin Unstated /\ faults \in Nat
  BY DEF AddWorktrees, At, LabInv, LabTypeOK, Knows, Holds, Blank, Unstated
<1>2. PICK i \in Slots, old \in Run : i = op[c].id /\ old = runs[i] /\ Sound(i)
  BY <1>1, Holding
<1>3. /\ op[c] \in Op /\ op \in [Callers -> Op] /\ Id(c) = i /\ Draft(c) = old
      /\ old.status = "prepared" /\ experimentFile[i] = Null /\ Room
  BY <1>1, <1>2, Holding DEF Knows, Holds, InStage, Unfrozen, AsSaved
<1>4. UNCHANGED <<lock, runs, experimentFile, evaluationFile, trials, reports, ledger, adrs,
                  lessons, head, slot, faults>>
  BY DEF AddWorktrees, derived, world
<1>5. CASE Throw(c) /\ UNCHANGED worktrees
  <2>1. UNCHANGED disk /\ UNCHANGED derived
    BY <1>4, <1>5 DEF disk, derived
  <2> QED BY <1>1, <1>4, <1>5, <2>1, ThrowKeeps DEF Throw
<1>6. CASE ~(Throw(c) /\ UNCHANGED worktrees)
  <2>1. PICK run : run = [old EXCEPT !.experiment = head]
    OBVIOUS
  <2>2. run \in Run /\ run # Null /\ run.experiment = head /\ head # Null
    BY <2>1, NullAssumption DEF LabInv, LabTypeOK, Run
  <2>3. Continue(c, "writeExperiment", run)
    BY <1>3, <1>6, <2>1 DEF AddWorktrees, Continue
  <2>4. PICK e : e = [op[c] EXCEPT !.at = "writeExperiment", !.draft = run]
    OBVIOUS
  <2>5. /\ e \in Op /\ e.at = "writeExperiment" /\ e.id = i /\ e.draft = run
        /\ op' = [op EXCEPT ![c] = e]
    BY <1>2, <1>3, <2>2, <2>3, <2>4 DEF Continue, Op, Labels
  <2>6. LabTypeOK'
    BY <1>3, <1>4, <2>5 DEF LabInv, LabTypeOK
  <2>7. \A s \in Slots : Same(s)
    BY <1>4 DEF Same
  <2>8. Sound(i)'
    BY <1>2, <2>7, SoundFrame DEF LabInv
  <2>9. Room'
    BY <1>3, <1>4 DEF Room, PendingReview
  <2>10. Knows(e)'
    BY <1>2, <1>3, <1>4, <2>1, <2>2, <2>5, <2>9, NullAssumption
       DEF Knows, Holds, InStage, HasDerived, Unfrozen, Blank, AsSaved, Deriving
  <2>11. faults' = 0 /\ runs[i] # Null => Stated(i)'
    <3>1. faults = 0 /\ runs[i] # Null => Stated(i)
      BY <1>1, <1>2, AllStated
    <3> QED BY <1>4, <3>1 DEF Stated, AdrOf
  <2> QED BY <1>1, <1>2, <1>3, <1>4, <2>5, <2>6, <2>7, <2>8, <2>10, <2>11, FileKeeps
<1> QED BY <1>5, <1>6

\* Where a command that writes experiment.json stands.
LEMMA Freezing ==
  ASSUME LabInv, NEW c \in Callers, op[c].at = "writeExperiment"
  PROVE  \E i \in Slots, old \in Run, draft \in Run :
           /\ i = op[c].id /\ old = runs[i] /\ draft = op[c].draft /\ Sound(i) /\ Staged(i, old)
           /\ Id(c) = i /\ Draft(c) = draft /\ op[c] \in Op /\ op \in [Callers -> Op]
           /\ draft = [old EXCEPT !.experiment = draft.experiment]
           /\ draft.experiment \in Commits
           /\ old.status = "prepared" /\ experimentFile[i] = Null /\ Room /\ ~At(c, "idle")
<1>1. op[c].draft # Null
  BY DEF LabInv, Knows, Holds, Blank
<1>2. PICK i \in Slots, old \in Run, draft \in Run :
        /\ i = op[c].id /\ old = runs[i] /\ draft = op[c].draft
        /\ Sound(i) /\ Staged(i, old)
  BY <1>1, Holding
<1>3. /\ draft = [old EXCEPT !.experiment = draft.experiment] /\ draft.experiment # Null
      /\ old.status = "prepared" /\ experimentFile[i] = Null /\ Room
  BY <1>1, <1>2, Holding DEF Knows, Holds, InStage, Unfrozen
<1>4. draft.experiment \in Commits
  BY <1>3 DEF Run
<1> QED BY <1>1, <1>2, <1>3, <1>4, Holding

LEMMA WriteExperimentStep ==
  ASSUME LabInv, NEW c \in Callers, WriteExperiment(c) PROVE LabInv'
<1>1. op[c].at = "writeExperiment" /\ op[c].at \notin Unstated
  BY DEF WriteExperiment, At, Unstated
<1>2. PICK i \in Slots, old \in Run, draft \in Run :
        /\ i = op[c].id /\ old = runs[i] /\ draft = op[c].draft /\ Sound(i) /\ Staged(i, old)
        /\ Id(c) = i /\ Draft(c) = draft /\ op[c] \in Op /\ op \in [Callers -> Op]
        /\ draft = [old EXCEPT !.experiment = draft.experiment] /\ draft.experiment \in Commits
        /\ old.status = "prepared" /\ experimentFile[i] = Null /\ Room /\ ~At(c, "idle")
  BY <1>1, Freezing
<1>3. /\ experimentFile' = [experimentFile EXCEPT ![i] = draft.experiment]
      /\ GoTo(c, "saveFrozen")
      /\ UNCHANGED <<lock, runs, evaluationFile, trials, reports, ledger, adrs, lessons,
                     head, slot, faults>>
  BY <1>2 DEF WriteExperiment, derived, world
<1>4. PICK e : e = [op[c] EXCEPT !.at = "saveFrozen"]
  OBVIOUS
<1>5. /\ e \in Op /\ e.at = "saveFrozen" /\ e.id = i /\ e.draft = draft
      /\ op' = [op EXCEPT ![c] = e]
  BY <1>2, <1>3, <1>4 DEF GoTo, Op, Labels
<1>6. LabTypeOK'
  BY <1>2, <1>3, <1>5 DEF LabInv, LabTypeOK
<1>7. experimentFile'[i] = draft.experiment /\ \A s \in Slots : s # i => Same(s)
  BY <1>3 DEF LabInv, LabTypeOK, Same
<1>8. Sound(i)'
  <2>1. Staged(i, old)'
    BY <1>2, <1>3, <1>7 DEF Staged
  <2> QED BY <1>2, <1>3, <2>1, UnfinishedSound
<1>9. Knows(e)'
  BY <1>2, <1>3, <1>5, <1>7, NullAssumption
     DEF Knows, Holds, InStage, HasDerived, Blank, AsSaved, Deriving
<1>10. e.at \in Unstated
  BY <1>5 DEF Unstated
<1> QED BY <1>2, <1>3, <1>5, <1>6, <1>7, <1>8, <1>9, <1>10, FileKeeps

LEMMA RunChecksStep ==
  ASSUME LabInv, NEW c \in Callers, RunChecks(c) PROVE LabInv'
<1>1. /\ op[c].at = "checks" /\ op[c].draft # Null /\ ~At(c, "idle")
      /\ op[c].at \notin Unstated /\ faults \in Nat
  BY DEF RunChecks, At, LabInv, LabTypeOK, Knows, Holds, Blank, Unstated
<1>2. PICK i \in Slots, old \in Run :
        i = op[c].id /\ old = runs[i] /\ Sound(i) /\ Staged(i, old)
  BY <1>1, Holding
<1>3. /\ op[c] \in Op /\ op \in [Callers -> Op] /\ Id(c) = i /\ Draft(c) = old
      /\ Undecided(i) /\ evaluationFile[i] = Null
  BY <1>1, <1>2, Holding DEF Knows, Holds, InStage, AsSaved
<1>4. UNCHANGED <<lock, runs, experimentFile, evaluationFile, worktrees, reports, ledger, adrs,
                  lessons, head, slot, faults>>
  BY DEF RunChecks, derived, world
<1>5. CASE Throw(c) /\ UNCHANGED trials
  <2>1. UNCHANGED disk /\ UNCHANGED derived
    BY <1>4, <1>5 DEF disk, derived
  <2> QED BY <1>1, <1>4, <1>5, <2>1, ThrowKeeps DEF Throw
<1>6. CASE ~(Throw(c) /\ UNCHANGED trials)
  <2>1. PICK result \in Results :
          /\ Continue(c, "writeEvaluation", [old EXCEPT !.evaluation = result])
          /\ \/ trials' = [trials EXCEPT ![i] = 1]
             \/ UNCHANGED trials /\ result # "improved"
    BY <1>3, <1>6 DEF RunChecks, Results, Continue
  <2>2. PICK run : run = [old EXCEPT !.evaluation = result]
    OBVIOUS
  <2>3. run \in Run /\ run # Null /\ run.evaluation = result /\ result # Null
    BY <2>2, NullAssumption DEF Run
  <2>4. PICK e : e = [op[c] EXCEPT !.at = "writeEvaluation", !.draft = run]
    OBVIOUS
  <2>5. /\ e \in Op /\ e.at = "writeEvaluation" /\ e.id = i /\ e.draft = run
        /\ op' = [op EXCEPT ![c] = e]
    BY <1>2, <1>3, <2>1, <2>2, <2>3, <2>4 DEF Continue, Op, Labels
  <2>6. LabTypeOK'
    BY <1>3, <1>4, <2>1, <2>5 DEF LabInv, LabTypeOK
  <2>7. /\ result = "improved" => trials'[i] = 1
        /\ \A s \in Slots : s # i => Same(s)
    BY <1>4, <2>1 DEF LabInv, LabTypeOK, Same
  <2>8. Sound(i)'
    <3>1. Staged(i, old)'
      BY <1>2, <1>3, <1>4, <2>7, NullAssumption DEF Staged, Undecided, Results
    <3> QED BY <1>2, <1>3, <1>4, <3>1, UnfinishedSound DEF Undecided
  <2>9. Knows(e)'
    BY <1>2, <1>3, <1>4, <2>2, <2>3, <2>5, <2>7, NullAssumption
       DEF Knows, Holds, InStage, HasDerived, Undecided, Blank, AsSaved, Deriving
  <2>10. faults' = 0 /\ runs[i] # Null => Stated(i)'
    <3>1. faults = 0 /\ runs[i] # Null => Stated(i)
      BY <1>1, <1>2, AllStated
    <3> QED BY <1>4, <3>1 DEF Stated, AdrOf
  <2> QED BY <1>1, <1>2, <1>4, <2>5, <2>6, <2>7, <2>8, <2>9, <2>10, FileKeeps, <1>3
            DEF Undecided
<1> QED BY <1>5, <1>6

\* Where a command that writes evaluation.json stands.
LEMMA Evaluating ==
  ASSUME LabInv, NEW c \in Callers, op[c].at = "writeEvaluation"
  PROVE  \E i \in Slots, old \in Run, draft \in Run :
           /\ i = op[c].id /\ old = runs[i] /\ draft = op[c].draft /\ Sound(i) /\ Staged(i, old)
           /\ Id(c) = i /\ Draft(c) = draft /\ op[c] \in Op /\ op \in [Callers -> Op]
           /\ draft = [old EXCEPT !.evaluation = draft.evaluation]
           /\ draft.evaluation \in Results /\ ~At(c, "idle")
           /\ Undecided(i) /\ evaluationFile[i] = Null /\ experimentFile[i] # Null
           /\ draft.evaluation = "improved" => trials[i] = 1
<1>1. op[c].draft # Null
  BY DEF LabInv, Knows, Holds, Blank
<1>2. PICK i \in Slots, old \in Run, draft \in Run :
        /\ i = op[c].id /\ old = runs[i] /\ draft = op[c].draft
        /\ Sound(i) /\ Staged(i, old)
  BY <1>1, Holding
<1>3. /\ draft = [old EXCEPT !.evaluation = draft.evaluation] /\ draft.evaluation # Null
      /\ Undecided(i) /\ evaluationFile[i] = Null
      /\ draft.evaluation = "improved" => trials[i] = 1
  BY <1>1, <1>2, Holding DEF Knows, Holds, InStage
<1>4. draft.evaluation \in Results /\ experimentFile[i] # Null
  BY <1>2, <1>3 DEF Run, Staged, Undecided
<1> QED BY <1>1, <1>2, <1>3, <1>4, Holding

LEMMA WriteEvaluationStep ==
  ASSUME LabInv, NEW c \in Callers, WriteEvaluation(c) PROVE LabInv'
<1>1. op[c].at = "writeEvaluation"
  BY DEF WriteEvaluation, At
<1>2. PICK i \in Slots, old \in Run, draft \in Run :
        /\ i = op[c].id /\ old = runs[i] /\ draft = op[c].draft /\ Sound(i) /\ Staged(i, old)
        /\ Id(c) = i /\ Draft(c) = draft /\ op[c] \in Op /\ op \in [Callers -> Op]
        /\ draft = [old EXCEPT !.evaluation = draft.evaluation]
        /\ draft.evaluation \in Results /\ ~At(c, "idle")
        /\ Undecided(i) /\ evaluationFile[i] = Null /\ experimentFile[i] # Null
        /\ draft.evaluation = "improved" => trials[i] = 1
  BY <1>1, Evaluating
<1>3. /\ evaluationFile' = [evaluationFile EXCEPT ![i] = draft.evaluation]
      /\ GoTo(c, "saveEvaluated")
      /\ UNCHANGED <<lock, runs, experimentFile, trials, reports, ledger, adrs, lessons,
                     head, slot, faults>>
  BY <1>2 DEF WriteEvaluation, derived, world
<1>4. PICK e : e = [op[c] EXCEPT !.at = "saveEvaluated"]
  OBVIOUS
<1>5. /\ e \in Op /\ e.at = "saveEvaluated" /\ e.id = i /\ e.draft = draft
      /\ op' = [op EXCEPT ![c] = e]
  BY <1>2, <1>3, <1>4 DEF GoTo, Op, Labels
<1>6. LabTypeOK'
  BY <1>2, <1>3, <1>5 DEF LabInv, LabTypeOK
<1>7. evaluationFile'[i] = draft.evaluation /\ \A s \in Slots : s # i => Same(s)
  BY <1>3 DEF LabInv, LabTypeOK, Same
<1>8. Sound(i)'
  <2>1. Staged(i, old)'
    BY <1>2, <1>3, <1>7 DEF Staged, Undecided
  <2> QED BY <1>2, <1>3, <2>1, UnfinishedSound DEF Undecided
<1>9. Knows(e)'
  BY <1>2, <1>3, <1>5, <1>7, NullAssumption
     DEF Knows, Holds, InStage, HasDerived, Undecided, Blank, AsSaved, Deriving
<1>10. e.at \in Unstated
  BY <1>5 DEF Unstated
<1> QED BY <1>2, <1>3, <1>5, <1>6, <1>7, <1>8, <1>9, <1>10, FileKeeps

-----------------------------------------------------------------------------
(* Faults, readers, people and time.                                       *)

\* An interruption may leave a torn file, and ends the command.
LEMMA InterruptStep ==
  ASSUME LabInv, NEW c \in Callers, Fail(c) \/ Kill(c) PROVE LabInv'
<1>1. PICK label \in {"leave", "killed"} : Stop(c, label)
  BY DEF Fail, Kill, Throw
<1>2. /\ Running(c) /\ faults' = faults + 1 /\ MaybeTorn(c) /\ faults \in Nat
      /\ UNCHANGED <<lock, runs, trials, reports, ledger, adrs, lessons, head, slot>>
      /\ UNCHANGED <<worktrees, derived>>
  BY DEF Fail, Kill, derived, LabInv, LabTypeOK
<1>3. PICK e : e = [Idle EXCEPT !.at = label]
  OBVIOUS
<1>4. /\ e \in Op /\ Knows(e) /\ Knows(e)' /\ op' = [op EXCEPT ![c] = e]
      /\ e.at # "prepareSave" /\ e.at # "idle"
  BY <1>1, <1>3, IdleKnows DEF Stop
<1>5. ~At(c, "idle") /\ ~(faults' = 0) /\ faults' \in Nat
  BY <1>2 DEF Running, At
<1>6. CASE UNCHANGED <<experimentFile, evaluationFile>>
  <2>1. UNCHANGED disk
    BY <1>2, <1>6 DEF disk
  <2> QED BY <1>1, <1>2, <1>5, <2>1, ThrowKeeps
<1>7. CASE op[c].at = "writeExperiment" /\ ~(experimentFile' = experimentFile)
  <2>1. PICK i \in Slots, old \in Run :
          /\ i = op[c].id /\ old = runs[i] /\ Staged(i, old) /\ Id(c) = i
          /\ old.status = "prepared" /\ experimentFile[i] = Null /\ Room
    BY <1>7, Freezing
  <2>2. experimentFile' = [experimentFile EXCEPT ![i] = Torn] /\ UNCHANGED evaluationFile
    BY <1>2, <1>7, <2>1 DEF MaybeTorn, At
  <2>3. LabTypeOK'
    BY <1>2, <1>4, <1>5, <2>2 DEF LabInv, LabTypeOK
  <2>4. \A s \in Slots : s # i => Same(s)
    BY <1>2, <2>2 DEF LabInv, LabTypeOK, Same
  <2>5. Sound(i)'
    <3>1. Staged(i, old)'
      BY <1>2, <2>1, <2>2 DEF Staged
    <3> QED BY <1>2, <2>1, <3>1, UnfinishedSound
  <2> QED BY <1>2, <1>4, <1>5, <2>1, <2>3, <2>4, <2>5, FileKeeps
<1>8. CASE op[c].at = "writeEvaluation" /\ ~(evaluationFile' = evaluationFile)
  <2>1. PICK i \in Slots, old \in Run :
          /\ i = op[c].id /\ old = runs[i] /\ Staged(i, old) /\ Id(c) = i
          /\ Undecided(i) /\ experimentFile[i] # Null
    BY <1>8, Evaluating
  <2>2. evaluationFile' = [evaluationFile EXCEPT ![i] = Torn] /\ UNCHANGED experimentFile
    BY <1>2, <1>8, <2>1 DEF MaybeTorn, At
  <2>3. LabTypeOK'
    BY <1>2, <1>4, <1>5, <2>2 DEF LabInv, LabTypeOK
  <2>4. evaluationFile'[i] = Torn /\ \A s \in Slots : s # i => Same(s)
    BY <1>2, <2>2 DEF LabInv, LabTypeOK, Same
  <2>5. Sound(i)'
    <3>1. Torn # "improved"
      BY NullAssumption DEF Results
    <3>2. Staged(i, old)'
      BY <1>2, <2>1, <2>2, <2>4, <3>1 DEF Staged, Undecided
    <3> QED BY <1>2, <2>1, <3>2, UnfinishedSound DEF Undecided
  <2> QED BY <1>2, <1>4, <1>5, <2>1, <2>2, <2>3, <2>4, <2>5, FileKeeps
<1>9. \/ UNCHANGED <<experimentFile, evaluationFile>>
      \/ op[c].at = "writeExperiment" /\ ~(experimentFile' = experimentFile)
      \/ op[c].at = "writeEvaluation" /\ ~(evaluationFile' = evaluationFile)
  BY <1>2 DEF MaybeTorn, At
<1> QED BY <1>6, <1>7, <1>8, <1>9

\* Readers, people who commit, the clock, and steps in which nothing happens.
LEMMA WorldStep ==
  ASSUME LabInv, UNCHANGED <<lock, op, disk, derived, faults>>, head' \in Commits, slot' \in Slots
  PROVE  LabInv'
<1>1. UNCHANGED <<lock, op, runs, experimentFile, evaluationFile, trials, reports, ledger, adrs,
                  lessons, faults>>
  BY DEF disk, derived
<1>2. LabTypeOK' /\ Mutex' /\ PrepareStated'
  BY <1>1 DEF LabInv, LabTypeOK, Mutex, At, PrepareStated, AdrOf
<1>3. \A s \in Slots : Sound(s)'
  BY <1>1 DEF LabInv, Sound, Staged, Earned, Derived, Reported, Listed, Recorded
<1>4. Active' = Active /\ (Room' <=> Room)
  BY <1>1 DEF Active, PendingReview, Room
<1>5. \A c \in Callers : Knows(op[c])'
  <2> SUFFICES ASSUME NEW c \in Callers PROVE Knows(op[c])'
    OBVIOUS
  <2>1. Knows(op[c])
    BY DEF LabInv
  <2>2. Holds(op[c])'
    BY <1>1, <2>1 DEF Knows, Holds
  <2>3. InStage(op[c])'
    BY <1>1, <1>4, <2>1 DEF Knows, InStage, Unfrozen, Undecided, NothingToTake
  <2>4. HasDerived(op[c])'
    BY <1>1, <2>1 DEF Knows, HasDerived, Reported, Listed, Recorded
  <2> QED BY <2>2, <2>3, <2>4 DEF Knows
<1>6. OneActive' /\ RoomLeft'
  BY <1>1, <1>4 DEF LabInv, OneActive, RoomLeft
<1>7. Stating'
  BY <1>1 DEF LabInv, Stating, Stated, AdrOf
<1> QED BY <1>2, <1>3, <1>5, <1>6, <1>7 DEF LabInv

-----------------------------------------------------------------------------
(* The invariant.                                                          *)

LEMMA InitLabInv == Init => LabInv
<1> SUFFICES ASSUME Init PROVE LabInv
  OBVIOUS
<1>1. \A c \in Callers : op[c] = Idle
  BY DEF Init
<1>2. Idle = [Idle EXCEPT !.at = "idle"]
  BY DEF Idle
<1>3. Idle \in Op /\ Idle.at = "idle" /\ Knows(Idle)
  BY <1>2, IdleKnows
<1>4. LabTypeOK
  BY <1>3, LabAssumption DEF Init, LabTypeOK, Commits, Slots
<1>5. Mutex /\ PrepareStated /\ \A c \in Callers : Knows(op[c])
  BY <1>1, <1>3 DEF Mutex, PrepareStated, At
<1>6. \A s \in Slots : runs[s] = Null /\ Sound(s)
  BY DEF Init, Sound
<1>7. Active = {}
  BY <1>6 DEF Active
<1>8. OneActive /\ RoomLeft /\ Stating
  BY <1>6, <1>7 DEF OneActive, RoomLeft, Stating
<1> QED BY <1>4, <1>5, <1>6, <1>8 DEF LabInv

LEMMA NextLabInv == LabInv /\ [Next]_vars => LabInv'
<1> SUFFICES ASSUME LabInv, [Next]_vars PROVE LabInv'
  OBVIOUS
<1>1. head \in Commits /\ slot \in Slots
  BY DEF LabInv, LabTypeOK
<1>2. ASSUME NEW c \in Callers, NEW name \in Commands, NEW id \in Slots, Start(c, name, id)
      PROVE  LabInv'
  BY <1>2, StartStep
<1>3. ASSUME NEW c \in Callers, Step(c) PROVE LabInv'
  BY <1>3, CannotEnterStep, EnterPrepareStep, CreateRunStep, EnterSearchStep, RefineRunStep,
     PrepareAdrStep, PrepareSaveStep, EnterFreezeStep, AddWorktreesStep, WriteExperimentStep,
     SaveFrozenStep, EnterEvaluateStep, RunChecksStep, WriteEvaluationStep, SaveEvaluatedStep,
     EnterFinalizeStep, SaveCompleteStep, EnterRepairStep, EnterDispositionStep, WriteReportStep,
     WriteLedgerStep, MaterialAdrStep, RememberStep, SaveMaterializedStep, OpenMemoryStep,
     WriteAdrStep, LeaveStep
     DEF Step
<1>4. ASSUME NEW c \in Callers, Refuse(c) \/ Fail(c) \/ Kill(c) \/ RemoveStaleLocks(c)
      PROVE  LabInv'
  BY <1>4, RefuseStep, InterruptStep, LeaveStep
<1>5. CASE ReaderOpens \/ ReaderCloses
  BY <1>1, <1>5, WorldStep DEF ReaderOpens, ReaderCloses, world
<1>6. CASE Commit
  <2>1. head' \in Commits
    BY <1>1, <1>6, LabAssumption DEF Commit, Commits
  <2> QED BY <1>1, <1>6, <2>1, WorldStep DEF Commit, control
<1>7. CASE SlotDue
  <2>1. slot' \in Slots
    BY <1>1, <1>7, LabAssumption DEF SlotDue, Slots
  <2> QED BY <1>1, <1>7, <2>1, WorldStep DEF SlotDue, control
<1>8. CASE UNCHANGED vars
  BY <1>1, <1>8, WorldStep DEF vars, control, world
<1> QED BY <1>2, <1>3, <1>4, <1>5, <1>6, <1>7, <1>8 DEF Next

LEMMA LabInvHolds == Spec => []LabInv
BY InitLabInv, NextLabInv, PTL DEF Spec

-----------------------------------------------------------------------------
(* What it means.                                                          *)

\* One command at a time (lock, core.mjs): whoever is inside the controller,
\* or was killed there, owns controller.lock, and nobody else is inside.
THEOREM OneCommandCorrect == Spec => []OneCommand
<1>1. LabInv => OneCommand
  BY DEF LabInv, Mutex, OneCommand
<1> QED BY <1>1, LabInvHolds, PTL

\* An ACCEPT of finish rests on one run of the checks, on the cycle's own
\* baseline, and on files that say the same.
THEOREM AcceptEarnedCorrect == Spec => []AcceptEarned
<1>1. LabInv => AcceptEarned
  BY DEF LabInv, Sound, Earned, AcceptEarned
<1> QED BY <1>1, LabInvHolds, PTL

\* What materialize recorded as done is in the report, the ledger, the ADR and
\* the memory, whatever was interrupted since.
THEOREM MaterializedIsDerivedCorrect == Spec => []MaterializedIsDerived
<1>1. LabInv => MaterializedIsDerived
  BY DEF LabInv, Sound, Derived, Reported, Listed, Recorded, MaterializedIsDerived
<1> QED BY <1>1, LabInvHolds, PTL

\* Without faults every command leaves the ADRs in agreement with the run
\* records (writeAdr at the end of each command), also when it throws.
THEOREM AdrsFreshCorrect == Spec => []AdrsFresh
<1>1. LabInv => AdrsFresh
  <2> SUFFICES ASSUME LabInv, lock = Null, faults = 0, NEW s \in Slots, runs[s] # Null
               PROVE  adrs[s] = AdrOf(runs[s])
    BY DEF AdrsFresh
  <2>1. \A c \in Callers : op[c].at \notin Unstated
    BY LabAssumption DEF LabInv, Mutex, At, Unstated
  <2> QED BY <2>1 DEF LabInv, Stating, Stated
<1> QED BY <1>1, LabInvHolds, PTL

-----------------------------------------------------------------------------
(* The laboratory implements ResearchCycle.                                *)

StageOf(run) == IF run = Null THEN "none" ELSE run.status
VerdictIn(run) == IF run = Null \/ run.verdict = Null THEN "none" ELSE run.verdict
ReviewedIn(run) == run # Null /\ run.disposition # Null

LEMMA CycleStutters ==
  ASSUME runs' = runs
  PROVE  UNCHANGED Cycle!vars
BY DEF Cycle!vars

\* Saving one run changes one cycle of the abstract state.
LEMMA CycleChanges ==
  ASSUME LabInv, NEW j \in Slots, NEW run \in Run, SaveRun(j, run)
  PROVE  /\ [s \in Slots |-> StageOf(runs[s])]'
              = [[s \in Slots |-> StageOf(runs[s])] EXCEPT ![j] = StageOf(run)]
         /\ [s \in Slots |-> VerdictIn(runs[s])]'
              = [[s \in Slots |-> VerdictIn(runs[s])] EXCEPT ![j] = VerdictIn(run)]
         /\ [s \in Slots |-> ReviewedIn(runs[s])]'
              = [[s \in Slots |-> ReviewedIn(runs[s])] EXCEPT ![j] = ReviewedIn(run)]
<1>1. \A s \in Slots : runs'[s] = IF s = j THEN run ELSE runs[s]
  BY DEF SaveRun, LabInv, LabTypeOK
<1> QED BY <1>1 DEF StageOf, VerdictIn, ReviewedIn

LEMMA CycleSets ==
  ASSUME LabInv
  PROVE  Cycle!Active = Active /\ Cycle!Pending = PendingReview
<1>1. \A s \in Slots : runs[s] # Null => runs[s].status \in Statuses
  BY DEF LabInv, LabTypeOK, Run
<1>2. "none" \notin Statuses /\ Null # "ACCEPT"
  BY NullAssumption DEF Statuses, Verdicts
<1> QED BY <1>1, <1>2 DEF Cycle!Active, Cycle!Pending, Active, PendingReview

\* A save that moves the run on, or leaves what the abstract state shows.
LEMMA CycleProgresses ==
  ASSUME LabInv, NEW j \in Slots, NEW old \in Run, old = runs[j], old # Null,
         NEW run \in Run, SaveRun(j, run),
         run.verdict = old.verdict, run.disposition = old.disposition,
         \/ run.status = old.status
         \/ /\ old.status = "preparing" /\ run.status = "prepared"
         \/ /\ old.status = "prepared" /\ run.status \in {"frozen", "evaluated"}
         \/ /\ old.status = "frozen" /\ run.status = "evaluated"
  PROVE  [Cycle!Next]_(Cycle!vars)
<1> DEFINE stage == [s \in Slots |-> StageOf(runs[s])]
           verdict == [s \in Slots |-> VerdictIn(runs[s])]
           reviewed == [s \in Slots |-> ReviewedIn(runs[s])]
<1>1. run # Null
  BY NullAssumption
<1>2. /\ StageOf(run) = run.status /\ VerdictIn(run) = VerdictIn(old)
      /\ ReviewedIn(run) = ReviewedIn(old)
  BY <1>1 DEF StageOf, VerdictIn, ReviewedIn
<1>3. stage' = [stage EXCEPT ![j] = run.status] /\ stage[j] = old.status
  BY <1>2, CycleChanges DEF StageOf
<1>4. verdict' = verdict /\ reviewed' = reviewed
  <2>1. /\ verdict' = [verdict EXCEPT ![j] = verdict[j]]
        /\ reviewed' = [reviewed EXCEPT ![j] = reviewed[j]]
    BY <1>2, CycleChanges
  <2> QED BY <2>1
<1>5. CASE run.status = old.status
  <2>1. stage' = stage
    BY <1>3, <1>5
  <2> QED BY <1>4, <2>1 DEF Cycle!vars, StageOf, VerdictIn, ReviewedIn
<1>6. CASE run.status # old.status
  <2>1. /\ run.status \in Cycle!Stages \ {"complete"}
        /\ Cycle!Rank[run.status] > Cycle!Rank[old.status]
        /\ j \in Active
    BY <1>6 DEF Cycle!Stages, Cycle!Rank, Active
  <2>2. j \in Cycle!Active
    BY <2>1, CycleSets
  <2>3. Cycle!Progress(j)
    BY <1>3, <1>4, <2>1, <2>2 DEF Cycle!Progress, StageOf, VerdictIn, ReviewedIn
  <2> QED BY <2>3 DEF Cycle!Next
<1> QED BY <1>5, <1>6

LEMMA EnterImplements ==
  ASSUME LabInv, NEW s \in Slots, runs[s] # Null, CanReconcile(s), SaveRun(s, Reconciled(s))
  PROVE  [Cycle!Next]_(Cycle!vars)
<1>1. PICK run : run = Reconciled(s)
  OBVIOUS
<1>2. PICK old : old = runs[s]
  OBVIOUS
<1>3. /\ run \in Run /\ old \in Run
      /\ run.verdict = old.verdict /\ run.disposition = old.disposition
      /\ \/ run = old
         \/ old.status = "prepared" /\ run.status = "frozen"
         \/ old.status \in {"prepared", "frozen"} /\ run.status = "evaluated"
  BY <1>1, <1>2, ReconcileSound
<1>4. SaveRun(s, run)
  BY <1>1 DEF SaveRun
<1> QED BY <1>2, <1>3, <1>4, CycleProgresses

LEMMA EnterPrepareImplements ==
  ASSUME LabInv, NEW c \in Callers, EnterPrepare(c)
  PROVE  [Cycle!Next]_(Cycle!vars)
<1>1. \/ \E s \in Active : CanReconcile(s) /\ SaveRun(s, Reconciled(s))
      \/ UNCHANGED runs
  BY DEF EnterPrepare, Resumable, SaveRun
<1>2. \A s \in Active : s \in Slots /\ runs[s] # Null
  BY DEF Active
<1> QED BY <1>1, <1>2, EnterImplements, CycleStutters

LEMMA CreateRunImplements ==
  ASSUME LabInv, NEW c \in Callers, CreateRun(c)
  PROVE  [Cycle!Next]_(Cycle!vars)
<1> DEFINE stage == [s \in Slots |-> StageOf(runs[s])]
           verdict == [s \in Slots |-> VerdictIn(runs[s])]
           reviewed == [s \in Slots |-> ReviewedIn(runs[s])]
<1>1. PICK i \in Slots : i = op[c].id
  BY DEF LabInv, LabTypeOK, Op
<1>2. runs[i] = Null /\ Active = {} /\ Id(c) = i /\ head \in Commits
  BY <1>1 DEF CreateRun, At, LabInv, LabTypeOK, Knows, InStage, Id
<1>3. PICK run : run = [status |-> "preparing", ready |-> FALSE, base |-> head,
                        sources |-> 1, seen |-> {s \in Slots : lessons[s] # Null},
                        experiment |-> Null, evaluation |-> Null, verdict |-> Null,
                        disposition |-> Null, materialized |-> FALSE]
  OBVIOUS
<1>4. run \in Run /\ run # Null /\ SaveRun(i, run)
  <2>1. run \in Run
    BY <1>2, <1>3 DEF Run, Statuses
  <2>2. SaveRun(i, run)
    BY <1>2, <1>3 DEF CreateRun
  <2> QED BY <2>1, <2>2, NullAssumption
<1>5. /\ StageOf(run) = "preparing" /\ VerdictIn(run) = VerdictIn(runs[i])
      /\ ReviewedIn(run) = ReviewedIn(runs[i]) /\ StageOf(runs[i]) = "none"
  BY <1>2, <1>3, <1>4 DEF StageOf, VerdictIn, ReviewedIn
<1>6. stage' = [stage EXCEPT ![i] = "preparing"] /\ stage[i] = "none"
  <2>1. stage' = [stage EXCEPT ![i] = StageOf(run)]
    BY <1>4, CycleChanges
  <2>2. stage[i] = StageOf(runs[i])
    OBVIOUS
  <2> QED BY <1>5, <2>1, <2>2
<1>7. verdict' = verdict /\ reviewed' = reviewed
  <2>1. /\ verdict' = [verdict EXCEPT ![i] = verdict[i]]
        /\ reviewed' = [reviewed EXCEPT ![i] = reviewed[i]]
    BY <1>4, <1>5, CycleChanges
  <2> QED BY <2>1
<1>8. Cycle!Active = {}
  BY <1>2, CycleSets
<1>9. Cycle!Begin(i)
  BY <1>6, <1>7, <1>8 DEF Cycle!Begin, StageOf, VerdictIn, ReviewedIn
<1> QED BY <1>9 DEF Cycle!Next

\* The saves of a command at work on an unfinished run.
LEMMA WorkImplements ==
  ASSUME LabInv, NEW c \in Callers,
         RefineRun(c) \/ PrepareSave(c) \/ SaveFrozen(c) \/ SaveEvaluated(c) \/ SaveMaterialized(c)
  PROVE  [Cycle!Next]_(Cycle!vars)
<1>1. /\ op[c].at \in {"refine", "prepareSave", "saveFrozen", "saveEvaluated", "saveMaterialized"}
      /\ op[c].draft # Null
  BY DEF RefineRun, PrepareSave, SaveFrozen, SaveEvaluated, SaveMaterialized, At, LabInv, Knows,
         Holds, Blank
<1>2. PICK i \in Slots, old \in Run, draft \in Run :
        /\ i = op[c].id /\ old = runs[i] /\ old # Null /\ draft = op[c].draft
        /\ Id(c) = i /\ Draft(c) = draft
  BY <1>1, Holding
<1>3. PICK run :
        run = CASE op[c].at = "refine" ->
                     [draft EXCEPT !.sources = draft.sources + 1, !.ready = FALSE]
                [] op[c].at = "prepareSave" -> [draft EXCEPT !.ready = TRUE]
                [] op[c].at = "saveFrozen" -> [draft EXCEPT !.status = "frozen"]
                [] op[c].at = "saveEvaluated" -> [draft EXCEPT !.status = "evaluated"]
                [] op[c].at = "saveMaterialized" -> [draft EXCEPT !.materialized = TRUE]
  OBVIOUS
<1>4. SaveRun(i, run)
  BY <1>2, <1>3 DEF RefineRun, PrepareSave, SaveFrozen, SaveEvaluated, SaveMaterialized, At, SaveRun
<1>5. /\ op[c].at \in {"refine", "saveMaterialized"} => draft = old
      /\ op[c].at = "prepareSave" => draft = [old EXCEPT !.status = "prepared"]
                                     /\ old.status \in {"preparing", "prepared"}
      /\ op[c].at = "saveFrozen" => draft = [old EXCEPT !.experiment = draft.experiment]
                                    /\ old.status = "prepared"
      /\ op[c].at = "saveEvaluated" => draft = [old EXCEPT !.evaluation = draft.evaluation]
                                       /\ old.status = "frozen"
  <2>1. Holds(op[c]) /\ InStage(op[c])
    BY <1>1, Holding DEF Knows
  <2>2. op[c].at \in {"refine", "saveMaterialized"} => draft = old
    BY <1>2, <2>1 DEF Holds, AsSaved
  <2>3. op[c].at = "prepareSave" => draft = [old EXCEPT !.status = "prepared"]
                                     /\ old.status \in {"preparing", "prepared"}
    BY <1>2, <2>1 DEF Holds, InStage
  <2>4. op[c].at = "saveFrozen" => draft = [old EXCEPT !.experiment = draft.experiment]
                                    /\ old.status = "prepared"
    BY <1>2, <2>1 DEF Holds, InStage
  <2>5. op[c].at = "saveEvaluated" => draft = [old EXCEPT !.evaluation = draft.evaluation]
                                       /\ old.status = "frozen"
    BY <1>2, <2>1 DEF Holds, InStage, Undecided
  <2> QED BY <2>2, <2>3, <2>4, <2>5
<1>6. /\ run \in Run /\ run.verdict = old.verdict /\ run.disposition = old.disposition
      /\ \/ run.status = old.status
         \/ old.status = "preparing" /\ run.status = "prepared"
         \/ old.status = "prepared" /\ run.status \in {"frozen", "evaluated"}
         \/ old.status = "frozen" /\ run.status = "evaluated"
  <2>1. CASE op[c].at = "refine"
    <3>1. run = [draft EXCEPT !.sources = draft.sources + 1, !.ready = FALSE]
      BY <1>3, <2>1
    <3>2. draft.sources + 1 \in Nat
      BY DEF Run
    <3> QED BY <1>5, <2>1, <3>1, <3>2 DEF Run
  <2>2. CASE op[c].at = "prepareSave"
    BY <1>3, <1>5, <2>2 DEF Run
  <2>3. CASE op[c].at = "saveFrozen"
    BY <1>3, <1>5, <2>3 DEF Run, Statuses
  <2>4. CASE op[c].at = "saveEvaluated"
    BY <1>3, <1>5, <2>4 DEF Run, Statuses
  <2>5. CASE op[c].at = "saveMaterialized"
    BY <1>3, <1>5, <2>5 DEF Run
  <2> QED BY <1>1, <2>1, <2>2, <2>3, <2>4, <2>5
<1> QED BY <1>2, <1>4, <1>6, CycleProgresses

LEMMA SaveCompleteImplements ==
  ASSUME LabInv, NEW c \in Callers, SaveComplete(c)
  PROVE  [Cycle!Next]_(Cycle!vars)
<1> DEFINE stage == [s \in Slots |-> StageOf(runs[s])]
           verdict == [s \in Slots |-> VerdictIn(runs[s])]
           reviewed == [s \in Slots |-> ReviewedIn(runs[s])]
<1>1. op[c].at = "saveComplete" /\ op[c].draft # Null
  BY Deciding DEF SaveComplete, At
<1>2. PICK i \in Slots, old \in Run, draft \in Run :
        i = op[c].id /\ old = runs[i] /\ old # Null /\ draft = op[c].draft
  BY <1>1, Holding
<1>3. /\ Id(c) = i /\ Draft(c) = draft /\ i \in Active
      /\ draft = [old EXCEPT !.verdict = draft.verdict]
      /\ draft.verdict \in Verdicts /\ draft.verdict # Null
      /\ draft.verdict # "INCONCLUSIVE" => old.status = "evaluated"
      /\ draft.verdict = "ACCEPT" => Earned(i, old)
  BY <1>1, <1>2, Holding, Deciding, NullAssumption
<1>4. PICK run : run = [draft EXCEPT !.status = "complete"]
  OBVIOUS
<1>5. /\ run \in Run /\ run # Null /\ run.status = "complete" /\ run.verdict = draft.verdict
      /\ run.disposition = old.disposition /\ SaveRun(i, run)
  BY <1>3, <1>4, NullAssumption DEF Run, Statuses, SaveComplete, Completed, SaveRun
<1>6. /\ StageOf(run) = "complete" /\ VerdictIn(run) = draft.verdict
      /\ ReviewedIn(run) = ReviewedIn(old)
      /\ StageOf(old) = old.status
  BY <1>2, <1>3, <1>5 DEF StageOf, VerdictIn, ReviewedIn
<1>7. /\ stage' = [stage EXCEPT ![i] = "complete"] /\ stage[i] = old.status
      /\ verdict' = [verdict EXCEPT ![i] = draft.verdict]
      /\ reviewed' = reviewed
  <2>1. /\ stage' = [stage EXCEPT ![i] = StageOf(run)]
        /\ verdict' = [verdict EXCEPT ![i] = VerdictIn(run)]
        /\ reviewed' = [reviewed EXCEPT ![i] = ReviewedIn(run)]
    BY <1>5, CycleChanges
  <2>2. stage[i] = StageOf(old) /\ reviewed[i] = ReviewedIn(old)
    BY <1>2
  <2>3. reviewed' = reviewed
    BY <1>6, <2>1, <2>2
  <2> QED BY <1>6, <2>1, <2>2, <2>3
<1>8. draft.verdict = "ACCEPT" => Cardinality(Cycle!Pending) < MaxPending
  <2>1. draft.verdict = "ACCEPT" => experimentFile[i] # Null
    BY <1>2, <1>3, NullAssumption DEF Earned, Run
  <2> QED BY <1>3, <2>1, CycleSets DEF LabInv, RoomLeft, Room
<1>9. i \in Cycle!Active /\ draft.verdict \in Cycle!Verdicts /\ draft.verdict # "none"
  BY <1>3, CycleSets DEF Cycle!Verdicts, Verdicts
<1>10. Cycle!Cardinality(Cycle!Pending) = Cardinality(Cycle!Pending)
  BY DEF Cycle!Cardinality, Cardinality
<1>11. Cycle!Finish(i, draft.verdict)
  <2>1. draft.verdict # "INCONCLUSIVE" => stage[i] = "evaluated"
    BY <1>3, <1>7
  <2> QED BY <1>7, <1>8, <1>9, <1>10, <2>1 DEF Cycle!Finish, StageOf, VerdictIn, ReviewedIn
<1> QED BY <1>9, <1>11 DEF Cycle!Next

LEMMA EnterDispositionImplements ==
  ASSUME LabInv, NEW c \in Callers, EnterDisposition(c)
  PROVE  [Cycle!Next]_(Cycle!vars)
<1> DEFINE stage == [s \in Slots |-> StageOf(runs[s])]
           verdict == [s \in Slots |-> VerdictIn(runs[s])]
           reviewed == [s \in Slots |-> ReviewedIn(runs[s])]
<1>1. PICK i \in Slots : i = op[c].id /\ Id(c) = i
  BY DEF LabInv, LabTypeOK, Op, Id
<1>2. CASE i \notin Complete
  BY <1>1, <1>2, CycleStutters DEF EnterDisposition
<1>3. CASE i \in Complete
  <2>1. PICK old \in Run : old = runs[i] /\ old # Null /\ old.status = "complete"
    BY <1>3 DEF Complete, LabInv, LabTypeOK
  <2>2. PICK value \in {"reviewed", "discarded"} :
          SaveRun(i, [old EXCEPT !.disposition = value])
    BY <1>1, <1>3, <2>1 DEF EnterDisposition, SaveRun
  <2>3. PICK run : run = [old EXCEPT !.disposition = value]
    OBVIOUS
  <2>4. /\ run \in Run /\ run # Null /\ run.status = "complete" /\ run.verdict = old.verdict
        /\ run.disposition # Null /\ SaveRun(i, run)
    BY <2>1, <2>2, <2>3, NullAssumption DEF Run, SaveRun
  <2>5. /\ StageOf(run) = StageOf(old) /\ StageOf(old) = "complete"
        /\ VerdictIn(run) = VerdictIn(old) /\ ReviewedIn(run) = TRUE
    BY <2>1, <2>4 DEF StageOf, VerdictIn, ReviewedIn
  <2>6. /\ stage' = [stage EXCEPT ![i] = stage[i]] /\ stage[i] = "complete"
        /\ verdict' = [verdict EXCEPT ![i] = verdict[i]]
        /\ reviewed' = [reviewed EXCEPT ![i] = TRUE]
    BY <2>1, <2>4, <2>5, CycleChanges
  <2>7. stage' = stage /\ verdict' = verdict
    BY <2>6
  <2>8. Cycle!Review(i)
    BY <2>6, <2>7 DEF Cycle!Review, StageOf, VerdictIn, ReviewedIn
  <2> QED BY <2>8 DEF Cycle!Next
<1> QED BY <1>2, <1>3

\* All other steps leave the run records alone.
LEMMA NextImplements == LabInv /\ [Next]_vars => [Cycle!Next]_(Cycle!vars)
<1> SUFFICES ASSUME LabInv, [Next]_vars PROVE [Cycle!Next]_(Cycle!vars)
  OBVIOUS
<1>1. CASE UNCHANGED runs
  BY <1>1, CycleStutters
<1>2. ASSUME NEW c \in Callers, NEW names, Enters(c, names) PROVE [Cycle!Next]_(Cycle!vars)
  <2>1. PICK i \in Slots : i = op[c].id /\ Id(c) = i
    BY DEF LabInv, LabTypeOK, Op, Id
  <2> QED BY <1>2, <2>1, EnterImplements DEF Enters
<1>3. ASSUME NEW c \in Callers, Step(c) PROVE UNCHANGED runs \/ [Cycle!Next]_(Cycle!vars)
  <2>1. CASE EnterSearch(c) \/ EnterFreeze(c) \/ EnterEvaluate(c) \/ EnterFinalize(c)
    BY <1>2, <2>1 DEF EnterSearch, EnterFreeze, EnterEvaluate, EnterFinalize
  <2>2. CASE EnterPrepare(c) \/ CreateRun(c) \/ SaveComplete(c) \/ EnterDisposition(c)
    BY <2>2, EnterPrepareImplements, CreateRunImplements, SaveCompleteImplements,
       EnterDispositionImplements
  <2>3. CASE \/ RefineRun(c) \/ PrepareSave(c) \/ SaveFrozen(c) \/ SaveEvaluated(c)
             \/ SaveMaterialized(c)
    BY <2>3, WorkImplements
  <2>4. CASE \/ CannotEnter(c) \/ PrepareAdr(c) \/ AddWorktrees(c) \/ WriteExperiment(c)
             \/ RunChecks(c) \/ WriteEvaluation(c) \/ EnterRepair(c) \/ WriteReport(c)
             \/ WriteLedger(c) \/ MaterialAdr(c) \/ Remember(c) \/ OpenMemory(c) \/ WriteAdr(c)
             \/ Leave(c)
    BY <2>4 DEF CannotEnter, PrepareAdr, AddWorktrees, WriteExperiment, RunChecks,
       WriteEvaluation, EnterRepair, WriteReport, WriteLedger, MaterialAdr, Remember, OpenMemory,
       WriteAdr, Leave, disk
  <2> QED BY <1>3, <2>1, <2>2, <2>3, <2>4 DEF Step
<1>4. ASSUME NEW c \in Callers, Refuse(c) PROVE [Cycle!Next]_(Cycle!vars)
  BY <1>2, <1>4 DEF Refuse
<1>5. ASSUME NEW c \in Callers,
             \/ \E name \in Commands, id \in Slots : Start(c, name, id)
             \/ Fail(c) \/ Kill(c) \/ RemoveStaleLocks(c)
      PROVE  UNCHANGED runs
  BY <1>5 DEF Start, Fail, Kill, RemoveStaleLocks, disk
<1>6. ReaderOpens \/ ReaderCloses \/ Commit \/ SlotDue \/ UNCHANGED vars => UNCHANGED runs
  BY DEF ReaderOpens, ReaderCloses, Commit, SlotDue, vars, disk
<1> QED BY <1>1, <1>3, <1>4, <1>5, <1>6 DEF Next

\* The laboratory keeps the promise of ResearchCycle, whatever is interrupted:
\* one active cycle, forward only, one verdict, an earned ACCEPT, a bounded
\* number of accepted candidates awaiting review.
THEOREM ImplementsCycle == Spec => CycleSpec
<1>1. Init => Cycle!Init
  BY DEF Init, Cycle!Init
<1>2. LabInv /\ [Next]_vars => [Cycle!Next]_(Cycle!vars)
  BY NextImplements
<1> QED BY <1>1, <1>2, LabInvHolds, PTL DEF Spec, CycleSpec, Cycle!Spec
=============================================================================
