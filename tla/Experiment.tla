------------------------------- MODULE Experiment -------------------------------
(***************************************************************************)
(* One experiment of the research loop, scripts/research/experiment.mjs:   *)
(* it is frozen once (oracle, baseline and candidate worktrees, metadata), *)
(* evaluated by four checks that run one after the other, and verified     *)
(* before its improvement is accepted.                                     *)
(*                                                                         *)
(* The evaluator is one process (core.mjs holds controller.lock around     *)
(* each call) that reads files and worktrees in separate steps, may be     *)
(* killed between any two of them and is started again later.  An agent    *)
(* and the programs it runs edit the oracle, both worktrees and the saved  *)
(* evidence at any moment.  What the evaluator works with is in run.json,  *)
(* which only the controller writes: every command takes up experiment.json *)
(* and evaluation.json from disk until run.json holds an evaluation.       *)
(*                                                                         *)
(* A worktree is its source, which Git sees, and its outputs, the files    *)
(* Git ignores: a build makes them from the source, unless they are Stray, *)
(* changed where no build puts them right.  What the regression command    *)
(* and an oracle say of a tree is given by Green and Meets.                *)
(***************************************************************************)
EXTENDS Integers, FiniteSets

CONSTANTS
  Null, Torn, Stray,
  Contents, Base,       (* sources; that of the base commit                *)
  Eligible,             (* changes that the frozen policy allows           *)
  Green,                (* trees on which the regression command passes    *)
  Oracles, Meets,       (* versions of the oracle; the trees each passes   *)
  Forged,               (* evaluations an edit may put on disk             *)
  MaxEdits, Editable,   (* bounds: edits, and what the first, the second   *)
                        (* and so on may change                            *)
  MaxFaults             (* bound: failed reads and kills                   *)

Trees == [source : Contents, outputs : Contents \cup {Null, Stray}]

\* In the order in which they run.
Checks == 1..4
OnBaseline == {1, 2}
WithOracle == {2, 4}

Outcomes == {"pass", "fail", "broken"}
Statuses == {"improved", "rejected", "inconclusive"}
Errors == {"frozen", "candidate", "deadline", "baseline", "red", "regression",
           "green", "moved", "evidence"}
Evaluation == [status : Statuses, patch : Contents, oracle : Oracles,
               checks : [Checks -> Outcomes \cup {Null}]]

ASSUME ExperimentAssumption ==
  /\ Base \in Contents /\ Eligible \subseteq Contents \ {Base}
  /\ Green \subseteq Trees /\ Meets \in [Oracles -> SUBSET Trees]
  /\ Forged \subseteq Evaluation
  /\ MaxEdits \in Nat /\ MaxFaults \in Nat
  /\ Null # Torn /\ {Null, Torn, Stray} \cap (Contents \cup Oracles) = {}

ASSUME NullAssumption ==
  /\ {Null, Torn} \cap (Evaluation \cup Trees) = {}
  /\ Null \notin Outcomes \cup Statuses \cup {"begun", Stray}

\* What a verification looks at.
Artefacts == {"metadata", "oracle", "baseline", "evaluation", "candidate", "patch",
              "receipts"}

Freezing == {"source", "copy", "baselineTree", "candidateTree", "link", "freeze"}
Evaluating == {"inputs", "paths", "diff", "patch", "deadline", "launch", "building",
               "running", "inputsAgain", "pathsAgain", "diffAgain", "save"}
Verifying == {"verifyInputs", "verifyEvaluation", "verifyPaths", "verifyDiff",
              "verifyPatch", "verifyReceipts", "answer"}
Process == [at : {"idle", "record"} \cup Freezing \cup Evaluating \cup Verifying,
            check : Checks, errors : SUBSET Errors, blocked : BOOLEAN,
            source : Oracles \cup {Null}, before : Contents \cup {Null},
            checks : [Checks -> Outcomes \cup {Null}]]

VARIABLES
  proc,                 (* where the process is and what it holds in memory *)
  draft,                (* the proposed oracle, before it is frozen        *)
  oracle,               (* the frozen copy of the oracle, or Null          *)
  baseline, candidate,  (* the worktrees, or Null                          *)
  experiment,           (* the oracle version experiment.json names        *)
  evaluation,           (* evaluation.json: Null, Torn or an evaluation    *)
  patch, receipts,      (* candidate.patch; of each check Null, "begun"    *)
                        (* (logs without a receipt) or its result          *)
  record,               (* what run.json took up of both JSON files        *)
  accepted,             (* a verification found the improvement valid      *)
  late,                 (* the deadline has passed                         *)
  possible,             (* results the running check may give: history of  *)
                        (* what it can have read since it was launched     *)
  launches,             (* history: how often each check was launched      *)
  written,              (* history: what the evaluator concluded           *)
  past,                 (* history: what sources and oracle were since     *)
                        (* this evaluation began                           *)
  escaped,              (* history: the evaluation's two readings cannot   *)
                        (* tell what its checks ran on                     *)
  doubt,                (* history: what stood altered ever since this     *)
                        (* verification began                              *)
  edits, faults

inputs  == <<draft, oracle, baseline, candidate>>
files   == <<experiment, evaluation, patch, receipts>>
history == <<possible, launches, written, past, escaped, doubt>>
vars    == <<proc, inputs, files, record, accepted, late, history, edits, faults>>

Idle == [at |-> "idle", check |-> 1, errors |-> {}, blocked |-> FALSE,
         source |-> Null, before |-> Null, checks |-> [c \in Checks |-> Null]]

At(label) == proc.at = label
Goto(label) == proc' = [proc EXCEPT !.at = label]
Raise(label, errors) ==
  proc' = [proc EXCEPT !.at = label, !.errors = @ \cup errors]

Fresh == [source |-> Base, outputs |-> Null]
Made(content) == [source |-> content, outputs |-> content]
Built(tree) == IF tree.outputs = Stray THEN tree ELSE Made(tree.source)

Judged == record.evaluation # Null

\* Results that differ from those of the recorded evaluation.
ReceiptsDiffer ==
  \E c \in Checks : record.evaluation.checks[c] \notin {Null, receipts[c]}

\* What differs, as far as Git and the digests can tell, from what the
\* recorded evaluation says.
Altered ==
  IF ~Judged THEN {}
  ELSE {a \in {"metadata"} : experiment # record.experiment} \cup
       {a \in {"oracle"} : oracle # record.experiment} \cup
       {a \in {"baseline"} : baseline.source # Base} \cup
       {a \in {"evaluation"} : evaluation # record.evaluation} \cup
       {a \in {"candidate"} : candidate.source # record.evaluation.patch} \cup
       {a \in {"patch"} : patch # record.evaluation.patch} \cup
       {a \in {"receipts"} : ReceiptsDiffer}

NoPast == [candidate |-> {}, baseline |-> {}, oracle |-> {}]

Init ==
  /\ proc = Idle
  /\ draft \in Oracles /\ oracle = Null /\ baseline = Null /\ candidate = Null
  /\ experiment = Null /\ evaluation = Null
  /\ patch = Null /\ receipts = [c \in Checks |-> Null]
  /\ record = [experiment |-> Null, evaluation |-> Null]
  /\ accepted = FALSE /\ late = FALSE
  /\ possible = {} /\ launches = [c \in Checks |-> 0]
  /\ written = Null
  /\ past = NoPast /\ escaped = FALSE /\ doubt = {}
  /\ edits = 0 /\ faults = 0

-----------------------------------------------------------------------------
(* freezeExperiment.                                                       *)

Freeze ==
  /\ At("idle") /\ ~late /\ experiment = Null
  /\ Goto("source")
  /\ UNCHANGED <<inputs, files, record, accepted, late, history, edits, faults>>

\* The oracle is read, and its digest taken, before it is copied.
ReadSource ==
  /\ At("source")
  /\ proc' = [proc EXCEPT !.at = "copy", !.source = draft]
  /\ UNCHANGED <<inputs, files, record, accepted, late, history, edits, faults>>

\* A copy that an interrupted freeze left behind is read-only: copying over it
\* fails for everybody but the superuser.
CopyOracle ==
  /\ At("copy")
  /\ \/ /\ oracle' = draft /\ Goto("baselineTree")
     \/ /\ oracle # Null /\ proc' = Idle /\ UNCHANGED oracle
  /\ UNCHANGED <<draft, baseline, candidate, files, record, accepted, late,
                 history, edits, faults>>

\* git worktree add, which refuses a directory that exists.
AddBaseline ==
  /\ At("baselineTree")
  /\ IF baseline = Null
       THEN baseline' = Fresh /\ Goto("candidateTree")
       ELSE proc' = Idle /\ UNCHANGED baseline
  /\ UNCHANGED <<draft, oracle, candidate, files, record, accepted, late,
                 history, edits, faults>>

\* When this worktree cannot be added the first one is removed again.
AddCandidate ==
  /\ At("candidateTree")
  /\ IF candidate = Null
       THEN candidate' = Fresh /\ Goto("link") /\ UNCHANGED baseline
       ELSE baseline' = Null /\ proc' = Idle /\ UNCHANGED candidate
  /\ UNCHANGED <<draft, oracle, files, record, accepted, late, history, edits,
                 faults>>

\* Linking the trusted dependencies throws where one has no frozen path.
LinkDependencies ==
  /\ At("link")
  /\ Goto("freeze") \/ proc' = Idle
  /\ UNCHANGED <<inputs, files, record, accepted, late, history, edits, faults>>

SaveExperiment ==
  /\ At("freeze")
  /\ experiment' = proc.source /\ proc' = Idle
  /\ UNCHANGED <<inputs, evaluation, patch, receipts, record, accepted, late,
                 possible, launches, written, past, escaped, doubt, edits, faults>>

-----------------------------------------------------------------------------
(* Reading the frozen inputs and the candidate.                            *)

\* reconcile: until run.json holds an evaluation every command takes up what
\* is on disk, whatever it took up before; it throws at a file it cannot read.
Readable == ~Judged /\ experiment \in Oracles /\ evaluation # Torn
Reconciled == [experiment |-> experiment, evaluation |-> evaluation]

TakeUp ==
  /\ At("idle") /\ Readable /\ record' = Reconciled
  /\ UNCHANGED <<proc, inputs, files, accepted, late, history, edits, faults>>

\* frozenErrors: metadata, oracle and baseline as run.json has them.  A read
\* that fails is caught and becomes an error too.
ReadInputs(from, to) ==
  /\ At(from)
  /\ \/ /\ Raise(to, {e \in {"frozen"} : \/ experiment # record.experiment
                                         \/ oracle # record.experiment
                                         \/ baseline.source # Base})
        /\ UNCHANGED faults
     \/ /\ faults < MaxFaults /\ faults' = faults + 1
        /\ Raise(to, {"frozen"})
  /\ UNCHANGED <<inputs, files, record, accepted, late, history, edits>>

\* snapshot, first part: HEAD, the changed paths and the policy on them.
PathErrors == {e \in {"candidate"} : candidate.source \notin Eligible}

\* snapshot, second part: the patch, read after the paths.
Before ==
  /\ At("diff")
  /\ proc' = [proc EXCEPT !.at = "patch", !.before = candidate.source]
  /\ UNCHANGED <<inputs, files, record, accepted, late, history, edits, faults>>

\* Slip: the two snapshots are not compared.
DriftErrorsNone == {}

DriftErrors == {e \in {"moved"} : candidate.source # proc.before}

-----------------------------------------------------------------------------
(* evaluateExperiment.                                                     *)

\* An evaluation that exists, also one that cannot be read, is never replaced.
Evaluate ==
  /\ At("idle") /\ ~late /\ Readable /\ evaluation = Null
  /\ record' = Reconciled
  /\ proc' = [Idle EXCEPT !.at = "inputs"]
  /\ past' = [candidate |-> {candidate.source}, baseline |-> {baseline.source},
              oracle |-> {oracle}]
  /\ escaped' = (Stray \in {candidate.outputs, baseline.outputs})
  /\ UNCHANGED <<inputs, files, accepted, late, possible, launches, written, doubt, edits, faults>>

Paths(from, to) ==
  /\ At(from) /\ Raise(to, PathErrors)
  /\ UNCHANGED <<inputs, files, record, accepted, late, history, edits, faults>>

\* No check runs unless inputs and candidate are in order.
WritePatch ==
  /\ At("patch")
  /\ Goto(IF proc.errors = {} THEN "deadline" ELSE "inputsAgain")
  /\ patch' = proc.before
  /\ UNCHANGED <<inputs, experiment, evaluation, receipts, record, accepted,
                 late, history, edits, faults>>

CheckErrors(checks) ==
  {e \in {"baseline"} : checks[1] # "pass"} \cup
  {e \in {"red"} : checks[2] # "fail"} \cup
  {e \in {"regression"} : checks[3] # "pass"} \cup
  {e \in {"green"} : checks[4] # "pass"}

\* Slip: a check the deadline prevented does not count.
BlockedIfBroken(checks) ==
  checks[1] # "pass" \/ \E c \in Checks : checks[c] = "broken"

\* The checks tell nothing: one did not end by itself, was not run, or the
\* baseline fails its own regressions.
Blocked(checks) ==
  checks[1] # "pass" \/ \E c \in Checks : checks[c] \in {Null, "broken"}

\* The result of a check; after the last one they are judged together.
Conclude(result, errors) ==
  LET checks == [proc.checks EXCEPT ![proc.check] = result] IN
  proc' = IF proc.check < 4
            THEN [proc EXCEPT !.at = "deadline", !.check = @ + 1,
                              !.checks = checks, !.errors = @ \cup errors]
            ELSE [proc EXCEPT !.at = "inputsAgain", !.checks = checks,
                              !.errors = @ \cup errors \cup CheckErrors(checks),
                              !.blocked = Blocked(checks)]

TestDeadline ==
  /\ At("deadline")
  /\ IF late THEN Conclude(Null, {"deadline"}) ELSE Goto("launch")
  /\ UNCHANGED <<inputs, files, record, accepted, late, history, edits, faults>>

\* What a check says when it reads these trees.
Result(c, base, change, version) ==
  LET tree == IF c \in OnBaseline THEN base ELSE change
      passing == IF c \in WithOracle THEN Meets[version] ELSE Green
  IN  IF tree \in passing THEN "pass" ELSE "fail"

\* While the regression command builds, what it is about to read is the tree
\* that the build makes.
Reading(building, base, change, version) ==
  IF building THEN Result(proc.check, Built(base), Built(change), version)
              ELSE Result(proc.check, base, change, version)

\* Logs are opened and the command is spawned.
Run ==
  LET building == proc.check \notin WithOracle IN
  /\ Goto(IF building THEN "building" ELSE "running")
  /\ receipts' = [receipts EXCEPT ![proc.check] = "begun"]
  /\ launches' = [launches EXCEPT ![proc.check] = @ + 1]
  /\ possible' = {Reading(building, baseline, candidate, oracle)}
  /\ UNCHANGED past

\* Slip: the evidence an earlier attempt left in part is overwritten.
LaunchOver ==
  /\ At("launch") /\ Run
  /\ UNCHANGED <<inputs, experiment, evaluation, patch, record, accepted, late,
                 written, escaped, doubt, edits, faults>>

\* runCheck refuses a check whose logs exist: evaluateExperiment throws.
Launch ==
  /\ At("launch")
  /\ IF receipts[proc.check] = Null THEN Run
     ELSE proc' = Idle /\ past' = NoPast /\ UNCHANGED <<receipts, launches, possible>>
  /\ UNCHANGED <<inputs, experiment, evaluation, patch, record, accepted, late,
                 written, escaped, doubt, edits, faults>>

\* The regression command has built the tree and goes on with its tests.
Build ==
  /\ At("building") /\ Goto("running")
  /\ IF proc.check \in OnBaseline
       THEN baseline' = Built(baseline) /\ UNCHANGED candidate
       ELSE candidate' = Built(candidate) /\ UNCHANGED baseline
  /\ UNCHANGED <<draft, oracle, files, record, accepted, late, history, edits,
                 faults>>

\* The check ends by itself, a failing one also before it has built anything,
\* and its receipt is saved.
Exit ==
  /\ \E result \in possible :
       /\ At("running") \/ (At("building") /\ result = "fail")
       /\ Conclude(result, {})
       /\ receipts' = [receipts EXCEPT ![proc.check] = result]
  /\ possible' = {}
  /\ UNCHANGED <<inputs, experiment, evaluation, patch, record, accepted, late,
                 launches, written, past, escaped, doubt, edits, faults>>

\* Its time is up and its process group is killed, another signal ends it, or
\* it could not be spawned.
Break ==
  /\ At("building") \/ At("running")
  /\ Conclude("broken", {}) /\ possible' = {}
  /\ receipts' = [receipts EXCEPT ![proc.check] = "broken"]
  /\ UNCHANGED <<inputs, experiment, evaluation, patch, record, accepted, late,
                 launches, written, past, escaped, doubt, edits, faults>>

DiffAgain ==
  /\ At("diffAgain") /\ Raise("save", DriftErrors)
  /\ UNCHANGED <<inputs, files, record, accepted, late, history, edits, faults>>

StatusOf(errors, blocked) ==
  IF errors = {} THEN "improved" ELSE IF blocked THEN "inconclusive" ELSE "rejected"

Concluded ==
  [status |-> StatusOf(proc.errors, proc.blocked), patch |-> proc.before,
   oracle |-> record.experiment, checks |-> proc.checks]

SaveEvaluation ==
  /\ At("save") /\ Goto("record")
  /\ evaluation' = Concluded /\ written' = Concluded /\ past' = NoPast
  /\ UNCHANGED <<inputs, experiment, patch, receipts, record, accepted, late,
                 possible, launches, escaped, doubt, edits, faults>>

\* The controller saves the evaluation it was given in run.json.
SaveRecord ==
  /\ At("record") /\ proc' = Idle
  /\ record' = [record EXCEPT !.evaluation = Concluded]
  /\ UNCHANGED <<inputs, files, accepted, late, history, edits, faults>>

-----------------------------------------------------------------------------
(* verifyExperiment, called before a verdict is drawn from the evaluation. *)

Verify ==
  /\ At("idle") /\ Judged /\ ~accepted
  /\ Goto("verifyInputs") /\ doubt' = Altered
  /\ UNCHANGED <<inputs, files, record, accepted, late, possible, launches,
                 written, past, escaped, edits, faults>>

\* One comparison of saved evidence.
Compare(from, to, wrong) ==
  /\ At(from) /\ Raise(to, {e \in {"evidence"} : wrong})
  /\ UNCHANGED <<inputs, files, record, accepted, late, history, edits, faults>>

Improved == record.evaluation.status = "improved"

\* Only a claimed improvement must still be allowed by the policy.
VerifyPaths ==
  /\ At("verifyPaths") /\ Raise("verifyDiff", IF Improved THEN PathErrors ELSE {})
  /\ UNCHANGED <<inputs, files, record, accepted, late, history, edits, faults>>

CompareEvidence ==
  \/ Compare("verifyEvaluation", "verifyPaths",
             \/ evaluation # record.evaluation
             \/ record.evaluation.oracle # record.experiment)
  \/ Compare("verifyDiff", "verifyPatch", candidate.source # record.evaluation.patch)
  \/ Compare("verifyPatch", "verifyReceipts", patch # record.evaluation.patch)
  \/ Compare("verifyReceipts", "answer",
             \/ ReceiptsDiffer
             \/ Improved /\ CheckErrors(record.evaluation.checks) # {})

Answer ==
  /\ At("answer") /\ proc' = Idle
  /\ accepted' = (proc.errors = {} /\ Improved)
  /\ doubt' = {}
  /\ UNCHANGED <<inputs, files, record, late, possible, launches, written,
                 past, escaped, edits, faults>>

-----------------------------------------------------------------------------
(* Kills, time and edits.                                                  *)

\* The process is killed, or git fails in a snapshot and the call throws.  A
\* file that was being written is left in part; a check that was running goes
\* on without anybody to record it.
Stop ==
  /\ ~At("idle") /\ faults < MaxFaults /\ faults' = faults + 1
  /\ proc' = Idle /\ past' = NoPast /\ possible' = {} /\ doubt' = {}
  /\ \/ UNCHANGED <<experiment, evaluation>>
     \/ At("freeze") /\ experiment' = Torn /\ UNCHANGED evaluation
     \/ At("save") /\ evaluation' = Torn /\ UNCHANGED experiment
  /\ UNCHANGED <<inputs, patch, receipts, record, accepted, late, launches,
                 written, escaped, edits>>

DeadlinePasses ==
  /\ ~late /\ late' = TRUE
  /\ UNCHANGED <<proc, inputs, files, record, accepted, history, edits, faults>>

Evaluates == proc.at \in Evaluating

\* What every edit does to the history.
Observe(what) ==
  /\ edits < MaxEdits /\ what \in Editable[edits + 1] /\ edits' = edits + 1
  /\ possible' = IF At("building") \/ At("running")
                 THEN possible \cup
                        {Reading(At("building"), baseline', candidate', oracle')}
                 ELSE possible
  /\ past' = IF Evaluates
               THEN [candidate |-> past.candidate \cup {candidate'.source},
                     baseline |-> past.baseline \cup {baseline'.source},
                     oracle |-> past.oracle \cup {oracle'}]
               ELSE past
  /\ UNCHANGED <<proc, record, accepted, late, launches, written, faults>>
  /\ doubt' = doubt \cap Altered'

\* A source or the oracle is changed back to what it was in this evaluation.
Restores(old, new, seen) == Evaluates /\ new # old /\ new \in seen

EditDraft ==
  /\ experiment = Null /\ draft' \in Oracles \ {draft}
  /\ UNCHANGED <<oracle, baseline, candidate, files, escaped>> /\ Observe("draft")

EditOracle ==
  /\ oracle # Null /\ oracle' \in Oracles \ {oracle}
  /\ escaped' = (escaped \/ Restores(oracle, oracle', past.oracle))
  /\ UNCHANGED <<draft, baseline, candidate, files>> /\ Observe("oracle")

EditBaseline ==
  /\ baseline # Null
  /\ \E content \in Contents \ {baseline.source} :
       /\ baseline' = [baseline EXCEPT !.source = content]
       /\ escaped' = (escaped \/ Restores(baseline.source, content, past.baseline))
  /\ UNCHANGED <<draft, oracle, candidate, files>> /\ Observe("baseline")

EditCandidate ==
  /\ candidate # Null
  /\ \E content \in Contents \ {candidate.source} :
       /\ candidate' = [candidate EXCEPT !.source = content]
       /\ escaped' = (escaped \/ Restores(candidate.source, content, past.candidate))
  /\ UNCHANGED <<draft, oracle, baseline, files>> /\ Observe("candidate")

\* Ignored files are changed: an old build, one of another source, or worse.
EditOutputs ==
  /\ \E outputs \in Contents \cup {Null, Stray} :
       \/ /\ baseline # Null /\ outputs # baseline.outputs /\ UNCHANGED candidate
          /\ baseline' = [baseline EXCEPT !.outputs = outputs]
       \/ /\ candidate # Null /\ outputs # candidate.outputs /\ UNCHANGED baseline
          /\ candidate' = [candidate EXCEPT !.outputs = outputs]
  /\ escaped' = (escaped \/ Evaluates)
  /\ UNCHANGED <<draft, oracle, files>> /\ Observe("outputs")

\* A saved file is changed, or changed back.
EditMetadata ==
  /\ experiment # Null /\ experiment' \in Oracles \ {experiment}
  /\ UNCHANGED <<inputs, evaluation, patch, receipts, escaped>> /\ Observe("metadata")

EditEvaluation ==
  /\ experiment # Null /\ evaluation' \in Forged \ {evaluation}
  /\ UNCHANGED <<inputs, experiment, patch, receipts, escaped>> /\ Observe("evaluation")

EditPatch ==
  /\ patch # Null /\ patch' \in Contents \ {patch}
  /\ UNCHANGED <<inputs, experiment, evaluation, receipts, escaped>> /\ Observe("patch")

EditReceipts ==
  /\ \E c \in Checks, result \in Outcomes :
       /\ receipts[c] \notin {Null, result}
       /\ receipts' = [receipts EXCEPT ![c] = result]
  /\ UNCHANGED <<inputs, experiment, evaluation, patch, escaped>> /\ Observe("receipts")

-----------------------------------------------------------------------------
FreezeStep ==
  \/ Freeze \/ ReadSource \/ CopyOracle \/ AddBaseline \/ AddCandidate
  \/ LinkDependencies \/ SaveExperiment

EvaluateStep ==
  \/ Evaluate \/ ReadInputs("inputs", "paths") \/ Paths("paths", "diff") \/ Before
  \/ WritePatch \/ TestDeadline \/ Launch \/ Build \/ Exit \/ Break
  \/ ReadInputs("inputsAgain", "pathsAgain") \/ Paths("pathsAgain", "diffAgain")
  \/ DiffAgain \/ SaveEvaluation

VerifyStep ==
  \/ Verify \/ ReadInputs("verifyInputs", "verifyEvaluation") \/ VerifyPaths
  \/ CompareEvidence \/ Answer

Edit ==
  \/ EditDraft \/ EditOracle \/ EditBaseline \/ EditCandidate \/ EditOutputs
  \/ EditMetadata \/ EditEvaluation \/ EditPatch \/ EditReceipts

World == Stop \/ DeadlinePasses \/ Edit

Next == FreezeStep \/ TakeUp \/ EvaluateStep \/ SaveRecord \/ VerifyStep \/ World

Spec == Init /\ [][Next]_vars

-----------------------------------------------------------------------------
(* What must hold.                                                         *)

TypeOK ==
  /\ proc \in Process
  /\ draft \in Oracles /\ oracle \in Oracles \cup {Null}
  /\ baseline \in Trees \cup {Null} /\ candidate \in Trees \cup {Null}
  /\ experiment \in Oracles \cup {Null, Torn}
  /\ evaluation \in Evaluation \cup {Null, Torn}
  /\ patch \in Contents \cup {Null}
  /\ receipts \in [Checks -> Outcomes \cup {Null, "begun"}]
  /\ record \in [experiment : Oracles \cup {Null}, evaluation : Evaluation \cup {Null}]
  /\ accepted \in BOOLEAN /\ late \in BOOLEAN
  /\ possible \subseteq {"pass", "fail"} /\ launches \in [Checks -> Nat]
  /\ written \in Evaluation \cup {Null}
  /\ past \in [candidate : SUBSET Contents, baseline : SUBSET Contents,
               oracle : SUBSET Oracles]
  /\ escaped \in BOOLEAN /\ doubt \subseteq Artefacts
  /\ edits \in 0..MaxEdits /\ faults \in 0..MaxFaults

\* A claimed improvement is one: the saved patch is allowed, fails nothing that
\* passed, and meets the oracle the evaluation names, which the base commit
\* does not.  What escapes the two readings of an evaluation is a source or
\* oracle changed and changed back while it ran, and what Git ignores: Stray
\* before it began, or changed at all while it ran.  The oracle it names is the
\* one experiment.json named when the evaluation began.
ImprovedIsReal ==
  written # Null /\ ~escaped /\ written.status = "improved" =>
    /\ written.patch \in Eligible
    /\ Made(written.patch) \in Green \cap Meets[written.oracle]
    /\ Made(Base) \in Green \ Meets[written.oracle]

\* Blocked evidence is never held against the candidate: a rejection comes
\* without checks, or with four that ended by themselves on a baseline that
\* passes its regressions; and an improvement rests on all four.
BlockedNeverJudged ==
  written # Null =>
    /\ written.status = "rejected" =>
         \/ \A c \in Checks : written.checks[c] = Null
         \/ /\ \A c \in Checks : written.checks[c] \in {"pass", "fail"}
            /\ written.checks[1] = "pass"
    /\ written.status = "improved" =>
         written.checks = <<"pass", "fail", "pass", "pass">>

\* The experiment implements the promise of Trial.
Abstract == INSTANCE Trial
              WITH verdict <- IF Judged THEN record.evaluation.status ELSE "none",
                   genuine <- Judged /\ record.evaluation = written,
                   altered <- Altered,
                   verifying <- proc.at \in Verifying
TrialSpec == Abstract!Spec
=============================================================================
