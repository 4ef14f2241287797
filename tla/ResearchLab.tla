------------------------------- MODULE ResearchLab -------------------------------
(***************************************************************************)
(* The controller of the local research loop, scripts/research/core.mjs:   *)
(* run records on disk, one command at a time behind controller.lock, the  *)
(* memory store behind its own lock, and reports, ledger, ADRs and lessons *)
(* derived from the run records.                                           *)
(*                                                                         *)
(* A command is a process that runs to completion in steps, one persistent *)
(* write or one read of shared state each.  A step may fail or the process *)
(* may be killed between any two writes or in the middle of a write that   *)
(* is not atomic.  Readers take only the memory lock, people commit to the *)
(* repository and remove stale locks, and scheduled slots come due.        *)
(*                                                                         *)
(* Checks that depend on data the model leaves out (a malformed proposal   *)
(* or review, an expired deadline, a changed policy, a dirty tree) are one *)
(* alternative, Refuse: they throw after reconcile has saved the run.      *)
(***************************************************************************)
EXTENDS Integers, FiniteSets

CONSTANTS
  Null,
  Torn,                 (* a file written in part                          *)
  Callers,              (* processes that may run a command                *)
  LastSlot,             (* bound: slots 1..LastSlot, in order of time      *)
  LastCommit,           (* bound: the repository moves from 0 to here      *)
  MaxPending,           (* config.maxPendingCandidates                     *)
  MaxSources,           (* four source queries per cycle                   *)
  MaxFaults,            (* bound: failed steps and kills                   *)
  Readers               (* whether status, recall and verify run as well   *)

ASSUME LabAssumption ==
  /\ LastSlot \in Nat \ {0} /\ LastCommit \in Nat
  /\ MaxPending \in Nat \ {0} /\ MaxSources \in Nat \ {0}
  /\ MaxFaults \in Nat /\ Readers \in BOOLEAN
  /\ Null \notin Callers /\ "reader" \notin Callers

Slots    == 1..LastSlot
Commits  == 0..LastCommit
Statuses == {"preparing", "prepared", "frozen", "evaluated", "complete"}
Results  == {"improved", "rejected", "inconclusive"}
Verdicts == {"ACCEPT", "REJECT", "INCONCLUSIVE"}

Run == [status : Statuses,
        ready : BOOLEAN,                  (* preparationComplete           *)
        base : Commits,                   (* baseCommit                    *)
        sources : Nat,                    (* length of sources             *)
        seen : SUBSET Slots,              (* cycles in recentLessons       *)
        experiment : Commits \cup {Null}, (* baseCommit of experiment      *)
        evaluation : Results \cup {Null},
        verdict : Verdicts \cup {Null},
        disposition : {"reviewed", "discarded", Null},
        materialized : BOOLEAN]

\* What an ADR and a ledger row state of a run.
Adrs == [status : Statuses, experiment : Commits \cup {Null}, evaluation : Results \cup {Null},
         verdict : Verdicts \cup {Null}, disposition : {"reviewed", "discarded", Null}]
Rows == [verdict : Verdicts \cup {Null}, disposition : {"reviewed", "discarded", Null}]

ASSUME NullAssumption ==
  /\ Null # Torn /\ Torn \notin Commits /\ Torn \notin Results
  /\ Null \notin Run /\ Null \notin Adrs /\ Null \notin Rows
  /\ Null \notin Commits /\ Null \notin Results /\ Null \notin Verdicts
  /\ Null \notin {"reviewed", "discarded"}

Commands == {"prepare", "search", "freeze", "evaluate", "finish", "abandon",
             "repair", "disposition"}

VARIABLES
  lock,                 (* owner of controller.lock, or Null               *)
  memoryLock,           (* owner of .memory.lock, or Null                  *)
  op,                   (* per caller: command, place, run id and the run  *)
                        (* object it holds in memory                       *)
  runs,                 (* run.json of every slot, or Null                 *)
  experimentFile,       (* experiment.json: Null, torn, or its baseCommit  *)
  evaluationFile,       (* evaluation.json: Null, torn, or its result      *)
  worktrees,            (* whether the frozen worktrees exist              *)
  trials,               (* how often the checks of a cycle were started;   *)
                        (* from the first on, receipts exist               *)
  reports,              (* verdict in the report and its witness           *)
  ledger,               (* rows of LEDGER.md                               *)
  adrs,                 (* what the ADR of a cycle says                    *)
  lessons,              (* verdict in the lesson kept in memory            *)
  head,                 (* HEAD of the repository                          *)
  slot,                 (* the slot that is due                            *)
  faults

control == <<lock, memoryLock, op>>
disk    == <<runs, experimentFile, evaluationFile, worktrees, trials>>
derived == <<reports, ledger, adrs, lessons>>
world   == <<head, slot, faults>>
vars    == <<control, disk, derived, world>>

-----------------------------------------------------------------------------
(* Reading the disk.                                                       *)

Active == {s \in Slots : runs[s] # Null /\ runs[s].status # "complete"}
Complete == {s \in Slots : runs[s] # Null /\ runs[s].status = "complete"}
PendingReview ==
  {s \in Slots : /\ runs[s] # Null
                 /\ runs[s].verdict = "ACCEPT" /\ runs[s].disposition = Null}

\* The fields of a run that its ADR states.
AdrOf(run) == [status |-> run.status, experiment |-> run.experiment,
               evaluation |-> run.evaluation, verdict |-> run.verdict,
               disposition |-> run.disposition]

\* What a ledger row states.
RowOf(run) == [verdict |-> run.verdict, disposition |-> run.disposition]

\* reconcile returns instead of throwing: no torn file, and an experiment
\* not yet in the run record has the run's own baseline.
CanReconcile(s) ==
  \/ runs[s].status = "complete"
  \/ /\ experimentFile[s] # Torn
     /\ experimentFile[s] # Null /\ runs[s].status \in {"prepared", "frozen"}
          => experimentFile[s] = runs[s].base /\ evaluationFile[s] # Torn

\* The record reconcile saves and returns: evidence written to disk before an
\* interruption is taken up.
Reconciled(s) ==
  IF experimentFile[s] # Null /\ runs[s].status \in {"prepared", "frozen"}
    THEN [runs[s] EXCEPT
            !.experiment = experimentFile[s],
            !.evaluation = IF evaluationFile[s] # Null THEN evaluationFile[s] ELSE @,
            !.status = IF evaluationFile[s] # Null THEN "evaluated" ELSE "frozen"]
    ELSE runs[s]

-----------------------------------------------------------------------------
(* Steps of a command.                                                     *)

At(c, label) == op[c].at = label
Command(c) == op[c].name
Id(c) == op[c].id
Draft(c) == op[c].draft

GoTo(c, label) == op' = [op EXCEPT ![c].at = label]
Continue(c, label, draft) == op' = [op EXCEPT ![c].at = label, ![c].draft = draft]

\* What an idle caller's entry looks like.
Idle == [name |-> "prepare", at |-> "idle", id |-> 1, draft |-> Null]

\* The command ends here, well or badly, and what it holds in memory is lost.
Stop(c, label) == op' = [op EXCEPT ![c] = [Idle EXCEPT !.at = label]]
Throw(c) == Stop(c, "leave")

\* Slip: mkdir is recursive and succeeds although the lock exists.
StartShared(c, name, id) ==
  /\ At(c, "idle")
  /\ name = "prepare" => id = 1
  /\ lock' = c
  /\ op' = [op EXCEPT ![c] = [name |-> name, at |-> "enter", id |-> id, draft |-> Null]]
  /\ UNCHANGED <<memoryLock, disk, derived, world>>

\* mkdir of controller.lock succeeded.  A command that finds the lock taken
\* throws without any effect.
Start(c, name, id) ==
  /\ At(c, "idle") /\ lock = Null
  /\ name = "prepare" => id = 1        (* prepare takes no run id          *)
  /\ lock' = c
  /\ op' = [op EXCEPT ![c] = [name |-> name, at |-> "enter", id |-> id, draft |-> Null]]
  /\ UNCHANGED <<memoryLock, disk, derived, world>>

\* The finally blocks: close the store if it is open and remove the lock.
Leave(c) ==
  /\ At(c, "leave")
  /\ memoryLock' = IF memoryLock = c THEN Null ELSE memoryLock
  /\ lock' = Null
  /\ op' = [op EXCEPT ![c] = Idle]
  /\ UNCHANGED <<disk, derived, world>>

SaveRun(s, run) == runs' = [runs EXCEPT ![s] = run]
OnlyRunRecord ==
  UNCHANGED <<lock, memoryLock, experimentFile, evaluationFile, worktrees,
                 trials, derived, world>>

OnRunRecord == {"search", "freeze", "evaluate", "finish", "abandon"}

\* A command on a run record starts: the record is loaded, reconciled, saved.
Enters(c, names) ==
  /\ At(c, "enter") /\ Command(c) \in names
  /\ runs[Id(c)] # Null /\ CanReconcile(Id(c))
  /\ SaveRun(Id(c), Reconciled(Id(c)))
  /\ OnlyRunRecord

\* There is no such record, or reconcile throws.
CannotEnter(c) ==
  /\ At(c, "enter") /\ Command(c) \in OnRunRecord
  /\ runs[Id(c)] # Null => ~CanReconcile(Id(c))
  /\ Throw(c)
  /\ UNCHANGED <<lock, memoryLock, disk, derived, world>>

\* A guard on data that the model leaves out throws, after reconcile.
Refuse(c) ==
  /\ Enters(c, OnRunRecord) /\ Id(c) \in Active
  /\ Command(c) = "evaluate" => Reconciled(Id(c)).status # "evaluated"
  /\ Throw(c)

\* writeAdr by a command that ends with it.
WriteAdr(c) ==
  /\ At(c, "adr")
  /\ adrs' = [adrs EXCEPT ![Id(c)] = AdrOf(Draft(c))]
  /\ Throw(c)
  /\ UNCHANGED <<lock, memoryLock, disk, reports, ledger, lessons, world>>

\* openMemory: an exclusive lock file, refused at once when it exists.
OpenMemory(c) ==
  /\ At(c, "open")
  /\ IF memoryLock # Null
       THEN Throw(c) /\ UNCHANGED memoryLock
       ELSE /\ memoryLock' = c
            /\ GoTo(c, IF Command(c) = "search" THEN "refine"
                       ELSE IF Command(c) # "prepare" THEN "remember"
                       ELSE IF Draft(c) = Null THEN "create"
                       ELSE IF Draft(c).status = "complete" THEN "remember" ELSE "prepareAdr")
  /\ UNCHANGED <<lock, disk, derived, world>>

-----------------------------------------------------------------------------
(* prepare and search.                                                     *)

\* The runs that prepare takes up again: all that are unfinished.
Resumable == Active

\* prepare: resume the first unfinished run; otherwise return the run of the
\* slot that is due, rebuilding what an interruption left out; otherwise
\* begin that run.
EnterPrepare(c) ==
  /\ At(c, "enter") /\ Command(c) = "prepare"
  /\ \/ \E s \in Resumable :
          /\ \A other \in Resumable : s =< other
          /\ IF CanReconcile(s)
               THEN LET run == Reconciled(s)
                        rebuild == ~run.ready /\ run.status \in {"preparing", "prepared"}
                    IN  /\ SaveRun(s, run)
                        /\ op' = [op EXCEPT ![c].id = s, ![c].draft = run,
                                    ![c].at = IF rebuild THEN "open" ELSE "adr"]
               ELSE Throw(c) /\ UNCHANGED runs
     \/ /\ Resumable = {}
        /\ op' = [op EXCEPT ![c].id = slot, ![c].draft = runs[slot],
                    ![c].at = IF runs[slot] = Null THEN "open"
                              ELSE IF runs[slot].materialized THEN "adr"
                                                              ELSE "report"]
        /\ UNCHANGED runs
  /\ OnlyRunRecord

\* After discovery: record the baseline, the lessons in memory and the papers.
CreateRun(c) ==
  /\ At(c, "create")
  /\ LET run == [status |-> "preparing", ready |-> FALSE, base |-> head,
                 sources |-> 1, seen |-> {s \in Slots : lessons[s] # Null},
                 experiment |-> Null, evaluation |-> Null, verdict |-> Null,
                 disposition |-> Null, materialized |-> FALSE]
     IN  SaveRun(Id(c), run) /\ Continue(c, "prepareAdr", run)
  /\ OnlyRunRecord

Searchable(run) == run.status = "prepared" /\ run.sources < MaxSources

\* search, up to opening memory.
EnterSearch(c) ==
  /\ Enters(c, {"search"})
  /\ LET run == Reconciled(Id(c))
     IN  IF Searchable(run) THEN Continue(c, "open", run) ELSE Throw(c)

\* search: add what the query found and withdraw the preparation.
RefineRun(c) ==
  /\ At(c, "refine")
  /\ LET run == [Draft(c) EXCEPT !.sources = @ + 1, !.ready = FALSE]
     IN  SaveRun(Id(c), run) /\ Continue(c, "prepareAdr", run)
  /\ OnlyRunRecord

\* completePreparation, up to its ADR: prompt, papers and memory snapshot.
PrepareAdr(c) ==
  /\ At(c, "prepareAdr")
  /\ LET run == [Draft(c) EXCEPT !.status = "prepared"]
     IN  /\ adrs' = [adrs EXCEPT ![Id(c)] = AdrOf(run)]
         /\ Continue(c, "prepareSave", run)
  /\ UNCHANGED <<lock, memoryLock, disk, reports, ledger, lessons, world>>

\* completePreparation, the save that ends it.
PrepareSave(c) ==
  /\ At(c, "prepareSave")
  /\ SaveRun(Id(c), [Draft(c) EXCEPT !.ready = TRUE])
  /\ Throw(c)
  /\ OnlyRunRecord

-----------------------------------------------------------------------------
(* freeze and evaluate.                                                    *)

\* Another candidate may be accepted for review.
Room == Cardinality(PendingReview) < MaxPending

\* freeze, up to its last guard; the same proposal again only renews the ADR.
EnterFreeze(c) ==
  /\ Enters(c, {"freeze"})
  /\ LET run == Reconciled(Id(c))
     IN  CASE run.status = "frozen" -> Continue(c, "adr", run)
           [] run.status = "prepared" /\ head = run.base /\ Room ->
                Continue(c, "worktrees", run)
           [] OTHER -> Throw(c)

\* freezeExperiment reads HEAD again and adds the two worktrees; paths left by
\* an interrupted attempt make it throw.
AddWorktrees(c) ==
  /\ At(c, "worktrees")
  /\ IF experimentFile[Id(c)] # Null \/ worktrees[Id(c)]
       THEN Throw(c) /\ UNCHANGED worktrees
       ELSE /\ worktrees' = [worktrees EXCEPT ![Id(c)] = TRUE]
            /\ Continue(c, "writeExperiment", [Draft(c) EXCEPT !.experiment = head])
  /\ UNCHANGED <<lock, memoryLock, runs, experimentFile, evaluationFile, trials,
                 derived, world>>

WriteExperiment(c) ==
  /\ At(c, "writeExperiment")
  /\ experimentFile' = [experimentFile EXCEPT ![Id(c)] = Draft(c).experiment]
  /\ GoTo(c, "saveFrozen")
  /\ UNCHANGED <<lock, memoryLock, runs, evaluationFile, worktrees, trials,
                 derived, world>>

\* Slip: the ADR is left for the end of the cycle.
SaveFrozenOnly(c) ==
  /\ At(c, "saveFrozen")
  /\ SaveRun(Id(c), [Draft(c) EXCEPT !.status = "frozen"])
  /\ Throw(c)
  /\ OnlyRunRecord

SaveFrozen(c) ==
  /\ At(c, "saveFrozen")
  /\ LET run == [Draft(c) EXCEPT !.status = "frozen"]
     IN  SaveRun(Id(c), run) /\ Continue(c, "adr", run)
  /\ OnlyRunRecord

EnterEvaluate(c) ==
  /\ Enters(c, {"evaluate"})
  /\ LET run == Reconciled(Id(c))
     IN  CASE run.status = "evaluated" -> Continue(c, "adr", run)
           [] run.status = "frozen" -> Continue(c, "checks", run)
           [] OTHER -> Throw(c)

\* evaluateExperiment: run the checks once, or reject an ineligible candidate
\* without running them; what an earlier attempt left makes it throw.
RunChecks(c) ==
  /\ At(c, "checks")
  /\ \/ /\ trials[Id(c)] = 0 /\ evaluationFile[Id(c)] = Null
        /\ trials' = [trials EXCEPT ![Id(c)] = 1]
        /\ \E result \in Results :
             Continue(c, "writeEvaluation", [Draft(c) EXCEPT !.evaluation = result])
     \/ /\ evaluationFile[Id(c)] = Null
        /\ Continue(c, "writeEvaluation", [Draft(c) EXCEPT !.evaluation = "rejected"])
        /\ UNCHANGED trials
     \/ /\ trials[Id(c)] > 0 \/ evaluationFile[Id(c)] # Null
        /\ Throw(c) /\ UNCHANGED trials
  /\ UNCHANGED <<lock, memoryLock, runs, experimentFile, evaluationFile, worktrees,
                 derived, world>>

WriteEvaluation(c) ==
  /\ At(c, "writeEvaluation")
  /\ evaluationFile' = [evaluationFile EXCEPT ![Id(c)] = Draft(c).evaluation]
  /\ GoTo(c, "saveEvaluated")
  /\ UNCHANGED <<lock, memoryLock, runs, experimentFile, worktrees, trials,
                 derived, world>>

SaveEvaluated(c) ==
  /\ At(c, "saveEvaluated")
  /\ LET run == [Draft(c) EXCEPT !.status = "evaluated"]
     IN  SaveRun(Id(c), run) /\ Continue(c, "adr", run)
  /\ OnlyRunRecord

-----------------------------------------------------------------------------
(* finish, abandon, repair and disposition.                                *)

\* verifyExperiment agrees: the files are those the run record holds.
EvidenceIntact(c, run) ==
  experimentFile[Id(c)] = run.experiment /\ evaluationFile[Id(c)] = run.evaluation

\* Slip: whatever was not rejected may be accepted.
VerdictLenient(run, clear) ==
  IF run.evaluation # "rejected" /\ clear THEN "ACCEPT" ELSE "REJECT"

VerdictOf(run, clear) ==
  IF run.evaluation = "improved" /\ clear THEN "ACCEPT"
  ELSE IF run.evaluation = "inconclusive" THEN "INCONCLUSIVE" ELSE "REJECT"

\* Slip: abandon is decided before a completed run is recognised.
RebuildsFinished(c, run) == run.status = "complete" /\ Command(c) = "finish"

\* finish and abandon only rebuild what is derived from a complete run.
Rebuilds(c, run) == run.status = "complete"

\* Slip: abandon, too, is for evaluated runs only.
AbandonsEvaluated(c, run) == Command(c) = "abandon" /\ run.status = "evaluated"

\* Abandon takes an unfinished run of any stage.
Abandons(c, run) == Command(c) = "abandon"

\* finish takes an evaluated run whose evidence is intact.
Finishes(c, run) ==
  Command(c) = "finish" /\ run.status = "evaluated" /\ EvidenceIntact(c, run)

\* finish and abandon, up to the save.  clear says that the critic raised no
\* concern.
EnterFinalize(c) ==
  /\ Enters(c, {"finish", "abandon"})
  /\ LET run == Reconciled(Id(c))
     IN  IF Rebuilds(c, run) THEN Continue(c, "report", run)
         ELSE IF Abandons(c, run) THEN
           Continue(c, "saveComplete", [run EXCEPT !.verdict = "INCONCLUSIVE"])
         ELSE IF Finishes(c, run) THEN
           \E clear \in BOOLEAN :
             Continue(c, "saveComplete", [run EXCEPT !.verdict = VerdictOf(run, clear)])
         ELSE Throw(c)

\* Slip: the run is marked materialized with the save that completes it.
CompletedOnce(run) == [run EXCEPT !.status = "complete", !.materialized = TRUE]

Completed(run) == [run EXCEPT !.status = "complete"]

\* The authoritative step: the run is complete before anything is derived.
SaveComplete(c) ==
  /\ At(c, "saveComplete")
  /\ SaveRun(Id(c), Completed(Draft(c)))
  /\ Continue(c, "report", Completed(Draft(c)))
  /\ OnlyRunRecord

EnterRepair(c) ==
  /\ At(c, "enter") /\ Command(c) = "repair"
  /\ IF Id(c) \in Complete THEN Continue(c, "report", runs[Id(c)]) ELSE Throw(c)
  /\ UNCHANGED <<lock, memoryLock, disk, derived, world>>

EnterDisposition(c) ==
  /\ At(c, "enter") /\ Command(c) = "disposition"
  /\ IF Id(c) \in Complete
       THEN \E value \in {"reviewed", "discarded"} :
              LET run == [runs[Id(c)] EXCEPT !.disposition = value]
              IN  SaveRun(Id(c), run) /\ Continue(c, "report", run)
       ELSE Throw(c) /\ UNCHANGED runs
  /\ OnlyRunRecord

\* materialize: report and witness, in the run directory and in public.
WriteReport(c) ==
  /\ At(c, "report")
  /\ reports' = [reports EXCEPT ![Id(c)] = Draft(c).verdict]
  /\ GoTo(c, "ledger")
  /\ UNCHANGED <<lock, memoryLock, disk, ledger, adrs, lessons, world>>

\* materialize: LATEST and LEDGER, from every complete run on disk.
WriteLedger(c) ==
  /\ At(c, "ledger")
  /\ ledger' = [s \in Slots |-> IF s \in Complete THEN RowOf(runs[s]) ELSE Null]
  /\ GoTo(c, "materialAdr")
  /\ UNCHANGED <<lock, memoryLock, disk, reports, adrs, lessons, world>>

MaterialAdr(c) ==
  /\ At(c, "materialAdr")
  /\ adrs' = [adrs EXCEPT ![Id(c)] = AdrOf(Draft(c))]
  /\ GoTo(c, "open")
  /\ UNCHANGED <<lock, memoryLock, disk, reports, ledger, lessons, world>>

\* materialize: store the lesson and close the memory; only disposition does
\* not record that everything is materialized.
Remember(c) ==
  /\ At(c, "remember")
  /\ lessons' = [lessons EXCEPT ![Id(c)] = Draft(c).verdict]
  /\ memoryLock' = Null
  /\ IF Command(c) = "disposition" THEN Throw(c) ELSE GoTo(c, "saveMaterialized")
  /\ UNCHANGED <<lock, disk, reports, ledger, adrs, world>>

SaveMaterialized(c) ==
  /\ At(c, "saveMaterialized")
  /\ SaveRun(Id(c), [Draft(c) EXCEPT !.materialized = TRUE])
  /\ Throw(c)
  /\ OnlyRunRecord

-----------------------------------------------------------------------------
(* Faults, readers, people and time.                                       *)

Running(c) == op[c].at \notin {"idle", "killed", "leave"}

\* What an interruption leaves of the file being written at this step: nothing
\* yet, or a part.  Only these two are written in place, without a rename.
MaybeTorn(c) ==
  /\ experimentFile' = experimentFile \/
       (At(c, "writeExperiment") /\
        experimentFile' = [experimentFile EXCEPT ![Id(c)] = Torn])
  /\ evaluationFile' = evaluationFile \/
       (At(c, "writeEvaluation") /\
        evaluationFile' = [evaluationFile EXCEPT ![Id(c)] = Torn])

\* A write or read throws: the finally blocks still run.
Fail(c) ==
  /\ Running(c) /\ faults < MaxFaults
  /\ faults' = faults + 1
  /\ MaybeTorn(c)
  /\ Throw(c)
  /\ UNCHANGED <<lock, memoryLock, runs, worktrees, trials, derived, head, slot>>

\* The process is killed: its locks stay.
Kill(c) ==
  /\ Running(c) /\ faults < MaxFaults
  /\ faults' = faults + 1
  /\ MaybeTorn(c)
  /\ Stop(c, "killed")
  /\ UNCHANGED <<lock, memoryLock, runs, worktrees, trials, derived, head, slot>>

\* A person confirms that the owner is gone and removes the stale locks.
RemoveStaleLocks(c) ==
  /\ At(c, "killed")
  /\ memoryLock' = IF memoryLock = c THEN Null ELSE memoryLock
  /\ lock' = IF lock = c THEN Null ELSE lock
  /\ op' = [op EXCEPT ![c] = Idle]
  /\ UNCHANGED <<disk, derived, world>>

\* status, recall or verify opens the memory and closes it again.
ReaderOpens ==
  /\ Readers /\ memoryLock = Null
  /\ memoryLock' = "reader"
  /\ UNCHANGED <<lock, op, disk, derived, world>>

ReaderCloses ==
  /\ memoryLock = "reader"
  /\ memoryLock' = Null
  /\ UNCHANGED <<lock, op, disk, derived, world>>

Commit ==
  /\ head < LastCommit
  /\ head' = head + 1
  /\ UNCHANGED <<control, disk, derived, slot, faults>>

SlotDue ==
  /\ slot < LastSlot
  /\ slot' = slot + 1
  /\ UNCHANGED <<control, disk, derived, head, faults>>

-----------------------------------------------------------------------------
Init ==
  /\ lock = Null /\ memoryLock = Null /\ op = [c \in Callers |-> Idle]
  /\ runs = [s \in Slots |-> Null]
  /\ experimentFile = [s \in Slots |-> Null]
  /\ evaluationFile = [s \in Slots |-> Null]
  /\ worktrees = [s \in Slots |-> FALSE] /\ trials = [s \in Slots |-> 0]
  /\ reports = [s \in Slots |-> Null] /\ ledger = [s \in Slots |-> Null]
  /\ adrs = [s \in Slots |-> Null] /\ lessons = [s \in Slots |-> Null]
  /\ head = 0 /\ slot = 1 /\ faults = 0

\* The next step of the command c is running.
Step(c) ==
  \/ CannotEnter(c) \/ EnterPrepare(c) \/ CreateRun(c) \/ EnterSearch(c) \/ RefineRun(c)
  \/ PrepareAdr(c) \/ PrepareSave(c)
  \/ EnterFreeze(c) \/ AddWorktrees(c) \/ WriteExperiment(c) \/ SaveFrozen(c)
  \/ EnterEvaluate(c) \/ RunChecks(c) \/ WriteEvaluation(c) \/ SaveEvaluated(c)
  \/ EnterFinalize(c) \/ SaveComplete(c) \/ EnterRepair(c) \/ EnterDisposition(c)
  \/ WriteReport(c) \/ WriteLedger(c) \/ MaterialAdr(c) \/ Remember(c)
  \/ SaveMaterialized(c) \/ OpenMemory(c) \/ WriteAdr(c) \/ Leave(c)

Next ==
  \/ \E c \in Callers :
       \/ \E name \in Commands, id \in Slots : Start(c, name, id)
       \/ Step(c) \/ Refuse(c) \/ Fail(c) \/ Kill(c) \/ RemoveStaleLocks(c)
  \/ ReaderOpens \/ ReaderCloses \/ Commit \/ SlotDue

Spec == Init /\ [][Next]_vars

\* A command once started takes its next step, stale locks are removed, a
\* reader closes the memory, and the agent abandons a cycle it cannot finish
\* with a lesson that is accepted.
Abandon(s) == \E c \in Callers : s \in Active /\ Start(c, "abandon", s)
FairSpec ==
  /\ Spec
  /\ \A c \in Callers :
       /\ WF_vars(Step(c)) /\ WF_vars(RemoveStaleLocks(c))
       /\ \A s \in Slots :
            SF_vars(Command(c) = "abandon" /\ Id(c) = s /\ EnterFinalize(c))
  /\ WF_vars(ReaderCloses)
  /\ \A s \in Slots : SF_vars(Abandon(s))

-----------------------------------------------------------------------------
(* Properties.                                                             *)

\* At most one process is inside the controller, killed ones included until
\* their lock is removed, and nobody else's lock is ever taken away.
OneCommand ==
  \A c, d \in Callers : ~At(c, "idle") /\ ~At(d, "idle") => c = d /\ lock = c

\* ACCEPT rests on checks that were run once, on the cycle's own baseline, and
\* on files on disk that say the same.
AcceptEarned ==
  \A s \in Slots :
    runs[s] # Null /\ runs[s].verdict = "ACCEPT" =>
      /\ runs[s].evaluation = "improved" /\ evaluationFile[s] = "improved"
      /\ runs[s].experiment = runs[s].base /\ experimentFile[s] = runs[s].base
      /\ trials[s] = 1

\* A run marked materialized has its verdict in the report, the ledger, the
\* ADR and the memory, whatever was interrupted since.
MaterializedIsDerived ==
  \A s \in Slots :
    runs[s] # Null /\ runs[s].materialized =>
      /\ runs[s].status = "complete" /\ reports[s] = runs[s].verdict
      /\ ledger[s] # Null /\ ledger[s].verdict = runs[s].verdict
      /\ adrs[s] # Null /\ adrs[s].status = "complete"
      /\ adrs[s].verdict = runs[s].verdict
      /\ lessons[s] = runs[s].verdict

\* Without faults, whenever no command is running every cycle's ADR states its
\* run record, also when a reader made a command stop half way.
AdrsFresh ==
  lock = Null /\ faults = 0 =>
    \A s \in Slots : runs[s] # Null => adrs[s] = AdrOf(runs[s])

\* Stated by the instructions of every cycle: finish, or abandon on any
\* blocker.  Abandon gets past reconcile for every unfinished cycle.
AbandonPossible == lock = Null => \A s \in Active : CanReconcile(s)

\* Stated by the documentation: research memory advances after every cycle.
\* Every cycle is prepared with the lessons of all cycles completed before it.
LessonsReachNextCycle ==
  \A s, t \in Slots :
    t < s /\ runs[s] # Null /\ runs[t] # Null => t \in runs[s].seen

\* Every cycle that was begun completes, whatever fails or is killed on the way
\* and whoever else runs commands, unless reconcile throws for it.
CycleCompletes ==
  \A s \in Slots : s \in Active ~> s \in Complete \/ (s \in Active /\ ~CanReconcile(s))

\* The laboratory implements the promise of ResearchCycle.
Cycle == INSTANCE ResearchCycle
           WITH stage <- [s \in Slots |-> IF runs[s] = Null THEN "none"
                                                            ELSE runs[s].status],
                verdict <- [s \in Slots |->
                              IF runs[s] = Null \/ runs[s].verdict = Null
                                THEN "none" ELSE runs[s].verdict],
                reviewed <- [s \in Slots |->
                               runs[s] # Null /\ runs[s].disposition # Null]
CycleSpec == Cycle!Spec
=============================================================================
