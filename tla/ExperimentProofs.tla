---------------------------- MODULE ExperimentProofs ----------------------------
(***************************************************************************)
(* Proofs about Experiment, for every set of sources and oracles, whatever *)
(* the checks say of a tree and any number of edits and faults: types,     *)
(* that blocked evidence is never judged, that an improvement is real, and *)
(* that an experiment implements Trial.                                    *)
(*                                                                         *)
(* The strengthening says what the process knows at each place: which      *)
(* checks its results stand for (Progress, Conclusions), of which trees    *)
(* they speak while nothing escaped the readings (Seen, Faithful), and     *)
(* what cannot have stood altered throughout a verification that has found *)
(* no error so far (Trust).                                                *)
(***************************************************************************)
EXTENDS Experiment, TLAPS

\* A process that freezes, evaluates or verifies has something to work on, and
\* what the evaluator concluded is on disk.
Order ==
  /\ proc.at \in Freezing => experiment = Null
  /\ proc.at \in Evaluating \cup {"record"} => record.experiment \in Oracles /\ ~Judged
  /\ proc.at \in Evaluating => experiment # Null /\ written = Null
  /\ proc.at \in Verifying => Judged
  /\ written # Null => evaluation # Null
  /\ At("baselineTree") => oracle # Null
  /\ At("candidateTree") => oracle # Null /\ baseline # Null
  /\ experiment # Null \/ proc.at \in {"link", "freeze"} =>
       oracle # Null /\ baseline # Null /\ candidate # Null
  /\ proc.at \in (Evaluating \cup {"record"}) \ {"inputs", "paths", "diff"} =>
       proc.before # Null

\* Receipts count launches, and a result in memory or concluded has its receipt.
Progress ==
  /\ \A c \in Checks : launches[c] = IF receipts[c] = Null THEN 0 ELSE 1
  /\ proc.at \in {"building", "running"} => receipts[proc.check] # Null
  /\ \A c \in Checks : proc.checks[c] # Null => receipts[c] # Null
  /\ written # Null =>
       \A c \in Checks : written.checks[c] # Null => receipts[c] # Null

\* Before the checks there is no result; after them either none ran because of
\* an earlier error, or what is wrong with the results is among the errors.
Conclusions ==
  /\ proc.at \in {"inputs", "paths", "diff", "patch"} =>
       ~proc.blocked /\ \A c \in Checks : proc.checks[c] = Null
  /\ proc.at \in {"inputsAgain", "pathsAgain", "diffAgain", "save"} =>
       \/ /\ \A c \in Checks : proc.checks[c] = Null
          /\ ~proc.blocked /\ proc.errors # {}
       \/ /\ CheckErrors(proc.checks) \subseteq proc.errors
          /\ proc.blocked = Blocked(proc.checks)

\* What a verification has compared when it stands at a label.
Compared(label) ==
  CASE label = "verifyInputs" -> {}
    [] label = "verifyEvaluation" -> {"metadata", "oracle", "baseline"}
    [] label \in {"verifyPaths", "verifyDiff"} ->
         {"metadata", "oracle", "baseline", "evaluation"}
    [] label = "verifyPatch" ->
         {"metadata", "oracle", "baseline", "evaluation", "candidate"}
    [] label = "verifyReceipts" ->
         {"metadata", "oracle", "baseline", "evaluation", "candidate", "patch"}
    [] OTHER -> Artefacts

\* Nothing that was compared and found in order has stood altered throughout.
Trust ==
  /\ doubt \subseteq Altered
  /\ proc.at \notin Verifying => doubt = {}
  /\ proc.at \in Verifying => ~accepted
  /\ proc.at \in Verifying /\ proc.errors = {} => doubt \cap Compared(proc.at) = {}

Checking == {"deadline", "launch", "building", "running"}
Judging == Checking \cup {"inputsAgain"}
Rereading == {"pathsAgain", "diffAgain"}

\* The history holds what the inputs are and what the readings have seen of
\* them, so that an edit back to it is one that restores; and no tree is stray.
Seen ==
  /\ proc.at \in Evaluating =>
       /\ candidate.source \in past.candidate /\ baseline.source \in past.baseline
       /\ oracle \in past.oracle
       /\ ~escaped => Stray \notin {candidate.outputs, baseline.outputs}
  /\ proc.at \in Evaluating \ {"inputs"} /\ proc.errors = {} =>
       Base \in past.baseline /\ record.experiment \in past.oracle
  /\ proc.at \in Evaluating \ {"inputs", "paths", "diff"} => proc.before \in past.candidate

\* The inputs that later readings still compare are as they were first read.
Steady ==
  /\ proc.at \in Judging => baseline.source = Base /\ oracle = record.experiment
  /\ proc.at \in Judging \cup Rereading => candidate.source = proc.before

\* What the checks say of the base and of the saved patch, once built.
Told(c) == Result(c, Made(Base), Made(proc.before), record.experiment)

Passed(c) == proc.checks[c] = "pass"

\* The regression command has built the tree.
BuiltBy(c) == Passed(c) \/ (At("running") /\ proc.check = c)

\* As long as they are and no error is known, a tree that passed its regressions
\* is a built one, and every result on it is that of the frozen inputs and the
\* saved patch; checks that are still to come have none.
Results ==
  /\ \A c \in {1, 3} : Passed(c) => Told(c) = "pass"
  /\ Passed(1) /\ proc.checks[2] = "fail" => Told(2) = "fail"
  /\ Passed(3) /\ Passed(4) => Told(4) = "pass"

Faithful ==
  proc.errors = {} /\ ~escaped /\ Steady =>
    /\ proc.at \in Judging \cup Rereading \cup {"save"} => Results
    /\ proc.at \in Checking =>
         /\ BuiltBy(1) => baseline = Made(Base)
         /\ BuiltBy(3) => candidate = Made(proc.before)
         /\ \A c \in Checks : c >= proc.check => proc.checks[c] = Null
    /\ At("building") => proc.check \in {1, 3} /\ possible = {Told(proc.check)}
    /\ At("running") /\ (proc.check \in WithOracle => Passed(proc.check - 1)) =>
         possible = {Told(proc.check)}
    /\ proc.at \in {"diffAgain", "save"} => proc.before \in Eligible

Past == [candidate : SUBSET Contents, baseline : SUBSET Contents, oracle : SUBSET Oracles]

LEMMA ConcludeType ==
  ASSUME proc \in Process, NEW result \in Outcomes \cup {Null},
         NEW errors \in SUBSET Errors, Conclude(result, errors)
  PROVE  proc' \in Process
<1>1. [proc.checks EXCEPT ![proc.check] = result] \in [Checks -> Outcomes \cup {Null}]
  BY DEF Process
<1>2. CASE proc.check < 4
  <2>1. proc.check + 1 \in Checks
    BY <1>2 DEF Process, Checks
  <2>2. proc.errors \cup errors \in SUBSET Errors
    BY DEF Process
  <2> QED BY <1>1, <1>2, <2>1, <2>2 DEF Process, Conclude, Evaluating
<1>3. CASE ~(proc.check < 4)
  <2>1. CheckErrors([proc.checks EXCEPT ![proc.check] = result]) \in SUBSET Errors
    BY DEF CheckErrors, Errors
  <2>2. Blocked([proc.checks EXCEPT ![proc.check] = result]) \in BOOLEAN
    BY DEF Blocked
  <2> QED BY <1>1, <1>3, <2>1, <2>2 DEF Process, Conclude, Evaluating
<1> QED BY <1>2, <1>3

LEMMA AlteredType == Altered \in SUBSET Artefacts
BY DEF Altered, Artefacts

LEMMA IdleType == Idle \in Process
BY DEF Idle, Checks, Process

\* What the two ways to move on leave alone.
LEMMA GotoFields ==
  ASSUME proc \in Process, NEW to, Goto(to)
  PROVE  /\ proc'.at = to /\ proc'.check = proc.check /\ proc'.checks = proc.checks
         /\ proc'.errors = proc.errors /\ proc'.blocked = proc.blocked
         /\ proc'.before = proc.before /\ proc'.source = proc.source
BY DEF Process, Goto

LEMMA GotoType ==
  ASSUME proc \in Process, NEW to \in {"record"} \cup Freezing \cup Evaluating \cup Verifying,
         Goto(to)
  PROVE  proc' \in Process
BY DEF Process, Goto

LEMMA RaiseFields ==
  ASSUME proc \in Process, NEW to, NEW errors, Raise(to, errors)
  PROVE  /\ proc'.at = to /\ proc'.checks = proc.checks
         /\ proc'.errors = proc.errors \cup errors /\ proc'.blocked = proc.blocked
         /\ proc'.before = proc.before
BY DEF Process, Raise

LEMMA RaiseType ==
  ASSUME proc \in Process, NEW to \in Evaluating \cup Verifying,
         NEW errors \in SUBSET Errors, Raise(to, errors)
  PROVE  proc' \in Process
BY DEF Process, Raise

LEMMA ConcludeFields ==
  ASSUME proc \in Process, NEW result \in Outcomes \cup {Null},
         NEW errors \in SUBSET Errors, Conclude(result, errors)
  PROVE  LET checks == [proc.checks EXCEPT ![proc.check] = result] IN
         /\ proc'.before = proc.before /\ proc'.checks = checks
         /\ proc.errors \cup errors \subseteq proc'.errors
         /\ \/ proc'.at = "deadline"
            \/ /\ proc'.at = "inputsAgain"
               /\ CheckErrors(checks) \subseteq proc'.errors
               /\ proc'.blocked = Blocked(checks)
BY DEF Conclude, Process

LEMMA TreeTypes ==
  /\ Fresh \in Trees
  /\ \A content \in Contents : Made(content) \in Trees
  /\ \A tree \in Trees : Built(tree) \in Trees
BY ExperimentAssumption DEF Fresh, Made, Built, Trees

LEMMA ReadingType ==
  ASSUME NEW building, NEW base, NEW change, NEW version
  PROVE  Reading(building, base, change, version) \in {"pass", "fail"}
BY DEF Reading, Result

-----------------------------------------------------------------------------
(* Types, and what a process has to work on.                               *)

LEMMA FreezeType == ASSUME TypeOK, FreezeStep PROVE TypeOK'
<1>0. proc \in Process
  BY DEF TypeOK
<1>1. CASE Freeze
  BY <1>0, <1>1, GotoType DEF Freeze, Freezing, TypeOK, inputs, files, history
<1>2. CASE ReadSource
  <2>1. proc' \in Process
    BY <1>0, <1>2 DEF ReadSource, Freezing, TypeOK, Process
  <2> QED BY <1>2, <2>1 DEF ReadSource, TypeOK, inputs, files, history
<1>3. CASE CopyOracle
  BY <1>0, <1>3, IdleType, GotoType DEF CopyOracle, Freezing, TypeOK, files, history
<1>4. CASE AddBaseline
  BY <1>0, <1>4, IdleType, GotoType, TreeTypes
     DEF AddBaseline, Freezing, TypeOK, files, history
<1>5. CASE AddCandidate
  BY <1>0, <1>5, IdleType, GotoType, TreeTypes
     DEF AddCandidate, Freezing, TypeOK, files, history
<1>6. CASE LinkDependencies
  BY <1>0, <1>6, IdleType, GotoType
     DEF LinkDependencies, Freezing, TypeOK, inputs, files, history
<1>7. CASE SaveExperiment
  <2>1. proc.source \in Oracles \cup {Null}
    BY <1>0 DEF Process
  <2> QED BY <1>7, <2>1, IdleType DEF SaveExperiment, TypeOK, inputs
<1> QED
  BY <1>1, <1>2, <1>3, <1>4, <1>5, <1>6, <1>7 DEF FreezeStep

LEMMA ReadInputsType ==
  ASSUME TypeOK, NEW from, NEW to \in Evaluating \cup Verifying, ReadInputs(from, to)
  PROVE  TypeOK'
<1>1. faults' \in 0..MaxFaults
  BY ExperimentAssumption DEF TypeOK, ReadInputs
<1>2. PICK errors \in SUBSET {"frozen"} : Raise(to, errors)
  BY Zenon DEF ReadInputs
<1>3. proc' \in Process
  BY <1>2, RaiseType DEF TypeOK, Errors
<1> QED
  BY <1>1, <1>3 DEF TypeOK, ReadInputs, inputs, files, history

LEMMA ReconciledType ==
  ASSUME TypeOK, Readable
  PROVE  Reconciled \in [experiment : Oracles \cup {Null}, evaluation : Evaluation \cup {Null}]
BY DEF TypeOK, Readable, Reconciled

LEMMA ConcludedType ==
  ASSUME TypeOK, proc.before # Null, record.experiment \in Oracles
  PROVE  Concluded \in Evaluation
<1>1. proc.before \in Contents /\ proc.checks \in [Checks -> Outcomes \cup {Null}]
  BY DEF TypeOK, Process
<1> QED BY <1>1 DEF Concluded, Evaluation, StatusOf, Statuses

LEMMA EvaluateType ==
  ASSUME TypeOK, Order, EvaluateStep PROVE TypeOK'
<1>0. proc \in Process /\ proc.check \in Checks
  BY DEF TypeOK, Process
<1>1. CASE Evaluate
  <2>1. proc' \in Process
    BY <1>1, IdleType DEF Evaluate, Process, Evaluating
  <2>2. candidate \in Trees /\ baseline \in Trees /\ oracle \in Oracles
    BY <1>1, ExperimentAssumption DEF Evaluate, Readable, Order, TypeOK
  <2>3. past' \in Past
    BY <1>1, <2>2 DEF Evaluate, Past, Trees
  <2>4. escaped' \in BOOLEAN
    BY <1>1 DEF Evaluate
  <2> QED BY <1>1, <2>1, <2>3, <2>4, ReconciledType DEF Evaluate, TypeOK, Past, inputs, files
<1>2. CASE ReadInputs("inputs", "paths")
  BY <1>2, ReadInputsType DEF Evaluating
<1>3. CASE Paths("paths", "diff") \/ Paths("pathsAgain", "diffAgain") \/ DiffAgain
  <2>1. PathErrors \in SUBSET Errors /\ DriftErrors \in SUBSET Errors
    BY DEF PathErrors, DriftErrors, Errors
  <2>2. proc' \in Process
    BY <1>0, <1>3, <2>1, RaiseType DEF Paths, DiffAgain, Evaluating
  <2> QED BY <1>3, <2>2 DEF Paths, DiffAgain, TypeOK, inputs, files, history
<1>4. CASE Before
  <2>1. candidate.source \in Contents
    <3>1. candidate \in Trees
      BY <1>4 DEF Before, At, Evaluating, Order, TypeOK
    <3> QED BY <3>1 DEF Trees
  <2>2. proc' \in Process
    BY <1>0, <1>4, <2>1 DEF Before, Process, Evaluating
  <2> QED BY <1>4, <2>2 DEF Before, TypeOK, inputs, files, history
<1>5. CASE WritePatch
  <2>1. proc.before \in Contents \cup {Null}
    BY <1>0 DEF Process
  <2> QED BY <1>0, <1>5, <2>1, GotoType DEF WritePatch, TypeOK, Evaluating, inputs, history
<1>6. CASE TestDeadline
  <2>1. proc' \in Process
    <3>1. CASE late
      BY <1>0, <1>6, <3>1, ConcludeType DEF TestDeadline, Errors
    <3>2. CASE ~late
      BY <1>0, <1>6, <3>2, GotoType DEF TestDeadline, Evaluating
    <3> QED BY <3>1, <3>2
  <2> QED BY <1>6, <2>1 DEF TestDeadline, TypeOK, inputs, files, history
<1>7. CASE Launch
  <2>1. CASE Run
    <3>1. proc' \in Process
      BY <1>0, <2>1, GotoType DEF Run, Evaluating
    <3>2. /\ launches' \in [Checks -> Nat]
          /\ receipts' \in [Checks -> Outcomes \cup {Null, "begun"}]
      BY <1>0, <2>1 DEF Run, TypeOK
    <3>3. possible' \subseteq {"pass", "fail"}
      BY <2>1, ReadingType DEF Run
    <3> QED BY <1>7, <2>1, <3>1, <3>2, <3>3 DEF Launch, Run, TypeOK, inputs
  <2>2. CASE proc' = Idle /\ past' = NoPast /\ UNCHANGED <<receipts, launches, possible>>
    BY <1>7, <2>2, IdleType DEF Launch, NoPast, TypeOK, inputs
  <2> QED BY <1>7, <2>1, <2>2 DEF Launch
<1>8. CASE Build
  <2>1. candidate \in Trees /\ baseline \in Trees
    BY <1>8 DEF Build, At, Order, Evaluating, TypeOK
  <2>2. candidate' \in Trees /\ baseline' \in Trees
    BY <1>8, <2>1, TreeTypes DEF Build
  <2> QED BY <1>0, <1>8, <2>2, GotoType DEF Build, TypeOK, Evaluating, files, history
<1>9. CASE Exit \/ Break
  <2>1. PICK result \in Outcomes : /\ Conclude(result, {})
                                   /\ receipts' = [receipts EXCEPT ![proc.check] = result]
    BY <1>9 DEF Exit, Break, TypeOK, Outcomes
  <2>2. proc' \in Process
    BY <1>0, <2>1, ConcludeType
  <2>3. receipts' \in [Checks -> Outcomes \cup {Null, "begun"}]
    BY <1>0, <2>1 DEF TypeOK
  <2> QED BY <1>9, <2>2, <2>3 DEF Exit, Break, TypeOK, inputs
<1>10. CASE ReadInputs("inputsAgain", "pathsAgain")
  BY <1>10, ReadInputsType DEF Evaluating
<1>11. CASE SaveEvaluation
  <2>1. Concluded \in Evaluation
    BY <1>11, ConcludedType DEF SaveEvaluation, Order, At, Evaluating
  <2> QED BY <1>0, <1>11, <2>1, GotoType DEF SaveEvaluation, TypeOK, NoPast, inputs
<1> QED
  BY <1>1, <1>2, <1>3, <1>4, <1>5, <1>6, <1>7, <1>8, <1>9, <1>10, <1>11
     DEF EvaluateStep

\* What run.json takes up, and what it is given.
LEMMA RecordType ==
  ASSUME TypeOK, Order, TakeUp \/ SaveRecord PROVE TypeOK'
<1>1. CASE TakeUp
  BY <1>1, ReconciledType DEF TakeUp, TypeOK, inputs, files, history
<1>2. CASE SaveRecord
  <2>1. Concluded \in Evaluation
    BY <1>2, ConcludedType DEF SaveRecord, Order, At
  <2> QED BY <1>2, <2>1, IdleType DEF SaveRecord, TypeOK, inputs, files, history
<1> QED BY <1>1, <1>2

LEMMA VerifyType == ASSUME TypeOK, VerifyStep PROVE TypeOK'
<1>0. proc \in Process
  BY DEF TypeOK
<1>1. CASE Verify
  BY <1>0, <1>1, AlteredType, GotoType DEF Verify, TypeOK, Verifying, inputs, files
<1>2. CASE ReadInputs("verifyInputs", "verifyEvaluation")
  BY <1>2, ReadInputsType DEF Verifying
<1>3. CASE VerifyPaths
  <2>1. PathErrors \in SUBSET Errors
    BY DEF PathErrors, Errors
  <2>2. proc' \in Process
    BY <1>0, <1>3, <2>1, RaiseType DEF VerifyPaths, Verifying
  <2> QED BY <1>3, <2>2 DEF VerifyPaths, TypeOK, inputs, files, history
<1>4. CASE CompareEvidence
  <2>1. PICK to \in Verifying, errors \in SUBSET {"evidence"} : Raise(to, errors)
    <3> DEFINE Wrong(wrong) == {e \in {"evidence"} : wrong}
    <3>1. \A wrong : Wrong(wrong) \in SUBSET {"evidence"}
      OBVIOUS
    <3> QED BY <1>4, <3>1, Zenon DEF CompareEvidence, Compare, Verifying
  <2>2. proc' \in Process
    BY <1>0, <2>1, RaiseType DEF Errors
  <2> QED
    BY <1>4, <2>2 DEF CompareEvidence, Compare, TypeOK, inputs, files, history
<1>5. CASE Answer
  <2>1. accepted' \in BOOLEAN
    BY <1>5, Zenon DEF Answer
  <2> QED BY <1>5, <2>1, IdleType DEF Answer, TypeOK, inputs, files
<1> QED
  BY <1>1, <1>2, <1>3, <1>4, <1>5 DEF VerifyStep

\* An edit removes nothing and keeps the process and the run record.
LEMMA EditFields ==
  ASSUME TypeOK, Edit
  PROVE  /\ UNCHANGED <<proc, record, accepted, late, launches, written, faults>>
         /\ doubt' = doubt \cap Altered' /\ edits' \in 0..MaxEdits
         /\ escaped' \in BOOLEAN /\ (escaped => escaped')
         /\ possible' \subseteq {"pass", "fail"}
<1>1. PICK what : Observe(what)
  BY DEF Edit, EditDraft, EditOracle, EditBaseline, EditCandidate, EditOutputs,
         EditMetadata, EditEvaluation, EditPatch, EditReceipts
<1>2. edits' \in 0..MaxEdits
  BY <1>1, ExperimentAssumption DEF Observe, TypeOK
<1>3. possible' \subseteq {"pass", "fail"}
  BY <1>1, ReadingType DEF Observe, TypeOK
<1>4. escaped' \in BOOLEAN /\ (escaped => escaped')
  <2>1. escaped' = escaped \/ \E more : escaped' = (escaped \/ more)
    BY DEF Edit, EditDraft, EditOracle, EditBaseline, EditCandidate, EditOutputs,
           EditMetadata, EditEvaluation, EditPatch, EditReceipts
  <2> QED BY <2>1, Zenon DEF TypeOK
<1> QED BY <1>1, <1>2, <1>3, <1>4 DEF Observe

LEMMA EditTypes ==
  ASSUME TypeOK, Edit
  PROVE  /\ draft' \in Oracles /\ oracle' \in Oracles \cup {Null}
         /\ baseline' \in Trees \cup {Null} /\ candidate' \in Trees \cup {Null}
         /\ experiment' \in Oracles \cup {Null, Torn}
         /\ evaluation' \in Evaluation \cup {Null, Torn}
         /\ patch' \in Contents \cup {Null}
         /\ receipts' \in [Checks -> Outcomes \cup {Null, "begun"}]
         /\ oracle = Null <=> oracle' = Null
         /\ baseline = Null <=> baseline' = Null
         /\ candidate = Null <=> candidate' = Null
         /\ experiment = Null <=> experiment' = Null
         /\ evaluation # Null => evaluation' # Null
         /\ \A c \in Checks : receipts[c] = Null <=> receipts'[c] = Null
<1> USE ExperimentAssumption, NullAssumption DEF TypeOK, inputs, files
<1>1. CASE EditDraft
  BY <1>1 DEF EditDraft
<1>2. CASE EditOracle
  BY <1>2 DEF EditOracle
<1>3. CASE EditBaseline
  <2>1. baseline' \in Trees /\ baseline # Null
    BY <1>3 DEF EditBaseline, Trees
  <2> QED BY <1>3, <2>1 DEF EditBaseline
<1>4. CASE EditCandidate
  <2>1. candidate' \in Trees /\ candidate # Null
    BY <1>4 DEF EditCandidate, Trees
  <2> QED BY <1>4, <2>1 DEF EditCandidate
<1>5. CASE EditOutputs
  <2>1. \/ baseline' \in Trees /\ baseline # Null /\ UNCHANGED candidate
        \/ candidate' \in Trees /\ candidate # Null /\ UNCHANGED baseline
    BY <1>5 DEF EditOutputs, Trees
  <2> QED BY <1>5, <2>1 DEF EditOutputs
<1>6. CASE EditMetadata
  BY <1>6 DEF EditMetadata
<1>7. CASE EditEvaluation
  BY <1>7 DEF EditEvaluation
<1>8. CASE EditPatch
  BY <1>8 DEF EditPatch
<1>9. CASE EditReceipts
  BY <1>9 DEF EditReceipts, Outcomes
<1> QED BY <1>1, <1>2, <1>3, <1>4, <1>5, <1>6, <1>7, <1>8, <1>9 DEF Edit

LEMMA WorldType == ASSUME TypeOK, Order, World PROVE TypeOK'
<1>1. CASE Stop
  <2>1. faults' \in 0..MaxFaults
    BY <1>1, ExperimentAssumption DEF Stop, TypeOK
  <2> QED BY <1>1, <2>1, IdleType DEF Stop, TypeOK, NoPast, inputs
<1>2. CASE DeadlinePasses
  BY <1>2 DEF DeadlinePasses, TypeOK, inputs, files, history
<1>3. CASE Edit
  <2>1. past' \in Past
    <3>1. CASE Evaluates
      <4>1. oracle # Null /\ baseline # Null /\ candidate # Null
        BY <3>1 DEF Evaluates, Order
      <4>2. oracle' \in Oracles /\ baseline' \in Trees /\ candidate' \in Trees
        BY <1>3, <4>1, EditTypes
      <4>3. past' = [candidate |-> past.candidate \cup {candidate'.source},
                     baseline |-> past.baseline \cup {baseline'.source},
                     oracle |-> past.oracle \cup {oracle'}]
        BY <1>3, <3>1
           DEF Edit, EditDraft, EditOracle, EditBaseline, EditCandidate, EditOutputs,
               EditMetadata, EditEvaluation, EditPatch, EditReceipts, Observe
      <4> QED BY <4>2, <4>3 DEF TypeOK, Past, Trees
    <3>2. CASE ~Evaluates
      BY <1>3, <3>2
         DEF Edit, EditDraft, EditOracle, EditBaseline, EditCandidate, EditOutputs,
             EditMetadata, EditEvaluation, EditPatch, EditReceipts, Observe, TypeOK, Past
    <3> QED BY <3>1, <3>2
  <2>2. doubt' \in SUBSET Artefacts
    BY <1>3, EditFields DEF TypeOK
  <2> QED BY <1>3, <2>1, <2>2, EditFields, EditTypes DEF TypeOK, Past
<1> QED BY <1>1, <1>2, <1>3 DEF World

\* Steps that only move the process on.
LEMMA OrderMoves ==
  ASSUME Order, UNCHANGED <<oracle, baseline, candidate, experiment, evaluation,
                           record, written>>,
         \/ proc'.at = "idle"
         \/ /\ proc.at \in Verifying \/ Judged
            /\ proc'.at \in Verifying
         \/ /\ proc.at \in Evaluating /\ proc'.at \in Evaluating
            /\ proc'.at \in {"inputs", "paths", "diff"} \/ proc'.before # Null
  PROVE  Order'
BY DEF Order, At, Judged, Freezing, Evaluating, Verifying

LEMMA OrderFreeze == ASSUME TypeOK, Order, FreezeStep PROVE Order'
<1> USE ExperimentAssumption, NullAssumption
    DEF Order, TypeOK, Process, At, Goto, Judged, Idle, Freezing, Evaluating,
        Verifying, inputs, files, history
<1>1. CASE Freeze
  BY <1>1 DEF Freeze
<1>2. CASE ReadSource
  BY <1>2 DEF ReadSource
<1>3. CASE CopyOracle
  BY <1>3 DEF CopyOracle
<1>4. CASE AddBaseline
  BY <1>4, TreeTypes DEF AddBaseline
<1>5. CASE AddCandidate
  BY <1>5, TreeTypes DEF AddCandidate
<1>6. CASE LinkDependencies
  BY <1>6 DEF LinkDependencies
<1>7. CASE SaveExperiment
  BY <1>7 DEF SaveExperiment
<1> QED
  BY <1>1, <1>2, <1>3, <1>4, <1>5, <1>6, <1>7 DEF FreezeStep

LEMMA OrderEvaluate == ASSUME TypeOK, Order, EvaluateStep PROVE Order'
<1> USE DEF At
<1>0. proc \in Process
  BY DEF TypeOK
<1>1. CASE Evaluate
  <2>1. /\ record'.experiment \in Oracles /\ record'.evaluation = Null
        /\ experiment # Null /\ written = Null /\ proc'.at = "inputs"
    BY <1>1, ExperimentAssumption
       DEF Evaluate, Readable, Reconciled, Order, Idle
  <2> QED BY <1>1, <2>1
     DEF Evaluate, Order, Judged, Freezing, Evaluating, Verifying, inputs, files
<1>2. CASE ReadInputs("inputs", "paths") \/ Paths("paths", "diff")
  <2>1. proc.at \in Evaluating /\ proc'.at \in {"paths", "diff"}
    BY <1>0, <1>2, RaiseFields DEF ReadInputs, Paths, Evaluating
  <2> QED BY <1>2, <2>1, OrderMoves DEF ReadInputs, Paths, Evaluating, inputs, files, history
<1>3. CASE Before
  <2>1. candidate \in Trees
    BY <1>3 DEF Before, Order, Evaluating, TypeOK
  <2>2. candidate.source # Null
    BY <2>1, ExperimentAssumption DEF Trees
  <2>3. proc.at \in Evaluating /\ proc'.at = "patch" /\ proc'.before # Null
    BY <1>0, <1>3, <2>2 DEF Before, Process, Evaluating
  <2> QED BY <1>3, <2>3, OrderMoves DEF Before, Evaluating, inputs, files, history
<1>4. CASE \/ WritePatch \/ ReadInputs("inputsAgain", "pathsAgain")
           \/ Paths("pathsAgain", "diffAgain") \/ DiffAgain
  <2>1. proc.at \in Evaluating /\ proc.before # Null
    BY <1>4 DEF WritePatch, ReadInputs, Paths, DiffAgain, Order, Evaluating
  <2>2. proc'.at \in Evaluating /\ proc'.before = proc.before
    BY <1>0, <1>4, GotoFields, RaiseFields
       DEF WritePatch, ReadInputs, Paths, DiffAgain, Evaluating
  <2> QED BY <1>4, <2>1, <2>2, OrderMoves
          DEF WritePatch, ReadInputs, Paths, DiffAgain, inputs, files, history
<1>5. CASE TestDeadline
  <2>1. proc.at \in Evaluating /\ proc.before # Null
    BY <1>5 DEF TestDeadline, Order, Evaluating
  <2>2. proc'.at \in Evaluating /\ proc'.before = proc.before
    <3>1. CASE late
      BY <1>0, <1>5, <3>1, ConcludeFields DEF TestDeadline, Evaluating, Errors
    <3>2. CASE ~late
      BY <1>0, <1>5, <3>2, GotoFields DEF TestDeadline, Evaluating
    <3> QED BY <3>1, <3>2
  <2> QED BY <1>5, <2>1, <2>2, OrderMoves DEF TestDeadline, inputs, files, history
<1>6. CASE Launch
  <2>1. proc.at \in Evaluating /\ proc.before # Null
    BY <1>6 DEF Launch, Order, Evaluating
  <2>2. \/ proc'.at = "idle"
        \/ proc'.at \in Evaluating /\ proc'.before = proc.before
    BY <1>0, <1>6, GotoFields DEF Launch, Run, Idle, Evaluating
  <2> QED BY <1>6, <2>1, <2>2, OrderMoves DEF Launch, inputs
<1>7. CASE Build
  <2>1. /\ proc.at \in Evaluating /\ proc'.at \in Evaluating
        /\ proc'.before = proc.before /\ proc.before # Null
    BY <1>0, <1>7, GotoFields DEF Build, Order, Evaluating
  <2>2. baseline \in Trees /\ candidate \in Trees
    BY <2>1 DEF Order, TypeOK
  <2>3. baseline' # Null /\ candidate' # Null
    BY <1>7, <2>2, TreeTypes, NullAssumption DEF Build
  <2> QED BY <1>7, <2>1, <2>3 DEF Build, Order, Judged, Freezing, Evaluating, Verifying,
                                  files, history
<1>8. CASE Exit \/ Break
  <2>1. PICK result \in Outcomes : Conclude(result, {})
    BY <1>8 DEF Exit, Break, TypeOK, Outcomes
  <2>2. proc'.at \in Evaluating /\ proc'.before = proc.before
    BY <1>0, <2>1, ConcludeFields DEF Evaluating
  <2>3. proc.at \in Evaluating /\ proc.before # Null
    BY <1>8 DEF Exit, Break, Order, Evaluating
  <2> QED BY <1>8, <2>2, <2>3, OrderMoves DEF Exit, Break, inputs
<1>9. CASE SaveEvaluation
  <2>1. /\ record.experiment \in Oracles /\ ~Judged /\ proc.before # Null /\ experiment # Null
        /\ proc'.at = "record" /\ proc'.before = proc.before
    BY <1>0, <1>9, GotoFields DEF SaveEvaluation, Order, Evaluating
  <2>2. evaluation' # Null
    BY <1>9, <2>1, ConcludedType, NullAssumption DEF SaveEvaluation
  <2> QED BY <1>9, <2>1, <2>2 DEF SaveEvaluation, Order, Judged, Freezing, Evaluating,
                                  Verifying, inputs
<1> QED
  BY <1>1, <1>2, <1>3, <1>4, <1>5, <1>6, <1>7, <1>8, <1>9 DEF EvaluateStep

LEMMA OrderRecord == ASSUME TypeOK, Order, TakeUp \/ SaveRecord PROVE Order'
BY DEF TakeUp, SaveRecord, Order, At, Judged, Idle, Freezing, Evaluating, Verifying,
       inputs, files, history

LEMMA OrderVerify == ASSUME TypeOK, Order, VerifyStep PROVE Order'
<1> USE DEF At
<1>0. proc \in Process
  BY DEF TypeOK
<1>1. CASE Verify
  BY <1>0, <1>1, GotoFields, OrderMoves DEF Verify, Judged, Verifying, inputs, files
<1>2. CASE ReadInputs("verifyInputs", "verifyEvaluation") \/ VerifyPaths \/ CompareEvidence
  <2>1. proc.at \in Verifying
    BY <1>2 DEF ReadInputs, VerifyPaths, CompareEvidence, Compare, Verifying
  <2>2. proc'.at \in Verifying
    BY <1>0, <1>2, RaiseFields DEF ReadInputs, VerifyPaths, CompareEvidence, Compare, Verifying
  <2> QED BY <1>2, <2>1, <2>2, OrderMoves
          DEF ReadInputs, VerifyPaths, CompareEvidence, Compare, inputs, files, history
<1>3. CASE Answer
  BY <1>3, OrderMoves DEF Answer, Idle, inputs, files
<1> QED
  BY <1>1, <1>2, <1>3 DEF VerifyStep

LEMMA OrderWorld == ASSUME TypeOK, Order, World PROVE Order'
<1>1. CASE Stop
  <2>1. proc'.at = "idle"
    BY <1>1 DEF Stop, Idle
  <2>2. CASE UNCHANGED <<experiment, evaluation>>
    BY <1>1, <2>1, <2>2, OrderMoves DEF Stop, inputs
  <2>3. CASE At("freeze") /\ experiment' = Torn /\ UNCHANGED evaluation
    BY <1>1, <2>1, <2>3, ExperimentAssumption
       DEF Stop, Order, At, Freezing, Evaluating, Verifying, inputs
  <2>4. CASE At("save") /\ evaluation' = Torn /\ UNCHANGED experiment
    BY <1>1, <2>1, <2>4, ExperimentAssumption
       DEF Stop, Order, At, Freezing, Evaluating, Verifying, inputs
  <2> QED BY <1>1, <2>2, <2>3, <2>4 DEF Stop
<1>2. CASE DeadlinePasses
  BY <1>2 DEF DeadlinePasses, Order, At, Judged, inputs, files, history
<1>3. CASE Edit
  BY <1>3, EditFields, EditTypes DEF Order, At, Judged
<1> QED
  BY <1>1, <1>2, <1>3 DEF World

LEMMA Typing == ASSUME TypeOK, Order, [Next]_vars PROVE TypeOK' /\ Order'
<1>1. CASE Next
  BY <1>1, FreezeType, EvaluateType, RecordType, VerifyType, WorldType, OrderFreeze,
     OrderEvaluate, OrderRecord, OrderVerify, OrderWorld DEF Next
<1>2. CASE UNCHANGED vars
  BY <1>2 DEF vars, TypeOK, Order, At, Judged, inputs, files, history
<1> QED BY <1>1, <1>2

LEMMA InitTyping == Init => TypeOK /\ Order
<1> SUFFICES ASSUME Init PROVE TypeOK /\ Order
  OBVIOUS
<1>1. proc \in Process /\ proc.at = "idle"
  BY DEF Init, Process, Idle, Checks
<1>2. launches \in [Checks -> Nat] /\ receipts \in [Checks -> Outcomes \cup {Null, "begun"}]
  BY DEF Init
<1>3. TypeOK
  <2>1. past \in Past
    BY DEF Init, NoPast, Past
  <2>2. edits \in 0..MaxEdits /\ faults \in 0..MaxFaults
    BY ExperimentAssumption DEF Init
  <2>3. accepted \in BOOLEAN /\ late \in BOOLEAN /\ escaped \in BOOLEAN
    BY DEF Init
  <2> QED BY <1>1, <1>2, <2>1, <2>2, <2>3 DEF Init, TypeOK, Past
<1>4. Order
  BY <1>1 DEF Init, Order, At, Freezing, Evaluating, Verifying
<1> QED BY <1>3, <1>4

\* Every variable keeps its type in every behaviour.
THEOREM TypeCorrect == Spec => []TypeOK
<1>1. TypeOK /\ Order /\ [Next]_vars => (TypeOK /\ Order)'
  BY Typing
<1> QED BY <1>1, InitTyping, PTL DEF Spec


-----------------------------------------------------------------------------
(* Launches, results and the verdict.                                      *)

LEMMA ProgressMoves ==
  ASSUME Progress, UNCHANGED <<receipts, launches, written>>,
         \/ UNCHANGED proc
         \/ /\ proc'.at \notin {"building", "running"}
            /\ \A c \in Checks : proc'.checks[c] # Null => proc.checks[c] # Null
  PROVE  Progress'
BY DEF Progress

\* Freezing and verifying leave the results alone.
LEMMA FreezeFields ==
  ASSUME TypeOK, FreezeStep
  PROVE  /\ proc' = Idle \/ (proc'.at \in Freezing /\ proc'.checks = proc.checks)
         /\ UNCHANGED <<evaluation, patch, receipts, record, launches, written, escaped,
                        doubt, accepted>>
<1> USE DEF FreezeStep, Freeze, ReadSource, CopyOracle, AddBaseline, AddCandidate,
            LinkDependencies, SaveExperiment
<1>1. UNCHANGED <<evaluation, patch, receipts, record, launches, written, escaped, doubt,
                  accepted>>
  BY DEF files, history
<1>2. CASE ReadSource
  BY <1>1, <1>2 DEF TypeOK, Process, Freezing
<1>3. CASE ~ReadSource
  <2>1. proc' = Idle \/ \E to \in Freezing : Goto(to)
    BY <1>3 DEF Freezing
  <2> QED BY <1>1, <2>1, GotoFields DEF TypeOK
<1> QED BY <1>2, <1>3

LEMMA VerifyFields ==
  ASSUME TypeOK, VerifyStep
  PROVE  /\ proc' = Idle \/ (proc'.at \in Verifying /\ proc'.checks = proc.checks)
         /\ UNCHANGED <<inputs, files, record, launches, written, escaped>>
<1>1. UNCHANGED <<inputs, files, record, launches, written, escaped>>
  BY DEF VerifyStep, Verify, ReadInputs, VerifyPaths, CompareEvidence, Compare,
         Answer, history
<1>2. CASE Verify
  BY <1>1, <1>2, GotoFields DEF Verify, Verifying, TypeOK
<1>3. CASE ReadInputs("verifyInputs", "verifyEvaluation")
  BY <1>1, <1>3, RaiseFields DEF ReadInputs, Verifying, TypeOK
<1>4. CASE VerifyPaths
  BY <1>1, <1>4, RaiseFields DEF VerifyPaths, Verifying, TypeOK
<1>5. CASE CompareEvidence
  BY <1>1, <1>5, RaiseFields DEF CompareEvidence, Compare, Verifying, TypeOK
<1>6. CASE Answer
  BY <1>1, <1>6 DEF Answer
<1> QED BY <1>2, <1>3, <1>4, <1>5, <1>6 DEF VerifyStep

LEMMA ProgressWorld == ASSUME TypeOK, Progress, World PROVE Progress'
<1>1. CASE Stop
  BY <1>1 DEF Stop, Progress, Idle
<1>2. CASE DeadlinePasses
  BY <1>2, ProgressMoves DEF DeadlinePasses, files, history
<1>3. CASE Edit
  <2>1. UNCHANGED <<proc, launches, written>>
    BY <1>3, EditFields
  <2>2. \A c \in Checks : receipts[c] = Null <=> receipts'[c] = Null
    BY <1>3, EditTypes
  <2>3. proc.check \in Checks
    BY DEF TypeOK, Process
  <2> QED BY <2>1, <2>2, <2>3 DEF Progress
<1> QED
  BY <1>1, <1>2, <1>3 DEF World

LEMMA ProgressEvaluate == ASSUME TypeOK, Progress, EvaluateStep PROVE Progress'
<1>0. proc \in Process /\ proc.check \in Checks
  BY DEF TypeOK, Process
<1> USE DEF At
<1>1. CASE TestDeadline
  <2>1. UNCHANGED <<receipts, launches, written>>
    BY <1>1 DEF TestDeadline, files, history
  <2>2. CASE late
    <3>1. /\ proc'.at \notin {"building", "running"}
          /\ proc'.checks = [proc.checks EXCEPT ![proc.check] = Null]
      BY <1>0, <1>1, <2>2, ConcludeFields DEF TestDeadline, Errors
    <3>2. \A c \in Checks : proc'.checks[c] # Null => proc.checks[c] # Null
      BY <3>1 DEF TypeOK, Process
    <3> QED BY <2>1, <3>1, <3>2, ProgressMoves
  <2>3. CASE ~late
    BY <1>0, <1>1, <2>1, <2>3, GotoFields, ProgressMoves DEF TestDeadline
  <2> QED BY <2>2, <2>3
<1>2. CASE Launch
  <2>1. CASE Run /\ receipts[proc.check] = Null
    <3>1. /\ proc'.check = proc.check /\ proc'.checks = proc.checks
          /\ written' = written /\ receipts' = [receipts EXCEPT ![proc.check] = "begun"]
          /\ launches' = [launches EXCEPT ![proc.check] = @ + 1]
      BY <1>0, <1>2, <2>1, GotoFields DEF Launch, Run
    <3>2. \A c \in Checks : receipts'[c] = IF c = proc.check THEN "begun" ELSE receipts[c]
      BY <3>1 DEF TypeOK
    <3>3. \A c \in Checks : launches'[c] = IF receipts'[c] = Null THEN 0 ELSE 1
      BY <2>1, <3>1, <3>2, NullAssumption DEF Progress, TypeOK
    <3> QED BY <1>0, <3>1, <3>2, <3>3, NullAssumption DEF Progress
  <2>2. CASE proc' = Idle /\ UNCHANGED <<receipts, launches>>
    BY <1>2, <2>2, ProgressMoves DEF Launch, Idle
  <2> QED BY <1>2, <2>1, <2>2 DEF Launch
<1>3. CASE Exit \/ Break
  <2>1. PICK result \in Outcomes :
          Conclude(result, {}) /\ receipts' = [receipts EXCEPT ![proc.check] = result]
    BY <1>3 DEF Exit, Break, TypeOK, Outcomes
  <2>2. /\ proc'.at \notin {"building", "running"}
        /\ proc'.checks = [proc.checks EXCEPT ![proc.check] = result]
    BY <1>0, <2>1, ConcludeFields
  <2>3. UNCHANGED <<launches, written>> /\ receipts[proc.check] # Null
    BY <1>3 DEF Exit, Break, Progress
  <2>4. \A c \in Checks : receipts'[c] = IF c = proc.check THEN result ELSE receipts[c]
    BY <2>1 DEF TypeOK
  <2>5. \A c \in Checks : receipts'[c] = Null <=> receipts[c] = Null
    BY <2>3, <2>4, NullAssumption
  <2>6. \A c \in Checks : proc'.checks[c] # Null => receipts'[c] # Null
    BY <2>2, <2>4, NullAssumption DEF Progress, TypeOK, Process
  <2> QED BY <2>2, <2>3, <2>5, <2>6 DEF Progress
<1>4. CASE SaveEvaluation
  <2>1. /\ proc'.at = "record" /\ proc'.checks = proc.checks /\ written'.checks = proc.checks
        /\ UNCHANGED <<receipts, launches>>
    BY <1>0, <1>4, GotoFields DEF SaveEvaluation, Concluded
  <2> QED BY <2>1 DEF Progress
<1>5. CASE Build
  BY <1>0, <1>5, GotoFields DEF Build, Progress, files, history
<1>6. CASE Evaluate \/ ReadInputs("inputs", "paths") \/ Paths("paths", "diff")
           \/ Before \/ WritePatch \/ ReadInputs("inputsAgain", "pathsAgain")
           \/ Paths("pathsAgain", "diffAgain") \/ DiffAgain
  <2>1. UNCHANGED <<receipts, launches, written>>
    BY <1>6 DEF Evaluate, ReadInputs, Paths, Before, WritePatch, DiffAgain, files,
                history
  <2>2. /\ proc'.at \notin {"building", "running"}
        /\ \A c \in Checks : proc'.checks[c] # Null => proc.checks[c] # Null
    <3>1. CASE Evaluate
      BY <3>1 DEF Evaluate, Idle
    <3>2. CASE Before
      BY <3>2 DEF Before, TypeOK, Process
    <3>3. CASE ReadInputs("inputs", "paths") \/ ReadInputs("inputsAgain", "pathsAgain")
      BY <3>3, RaiseFields DEF ReadInputs, TypeOK
    <3>4. CASE \/ Paths("paths", "diff") \/ Paths("pathsAgain", "diffAgain")
               \/ DiffAgain \/ WritePatch
      BY <3>4, RaiseFields, GotoFields DEF Paths, DiffAgain, WritePatch, TypeOK
    <3> QED BY <1>6, <3>1, <3>2, <3>3, <3>4
  <2> QED BY <2>1, <2>2, ProgressMoves
<1> QED
  BY <1>1, <1>2, <1>3, <1>4, <1>5, <1>6 DEF EvaluateStep

LEMMA ProgressStep ==
  ASSUME TypeOK, Progress, [Next]_vars PROVE Progress'
<1>1. CASE FreezeStep
  BY <1>1, FreezeFields, ProgressMoves DEF Idle, Freezing
<1>2. CASE EvaluateStep
  BY <1>2, ProgressEvaluate
<1>3. CASE VerifyStep
  BY <1>3, VerifyFields, ProgressMoves DEF Idle, Verifying, files
<1>4. CASE TakeUp \/ SaveRecord
  BY <1>4, ProgressMoves DEF TakeUp, SaveRecord, Idle, files, history
<1>5. CASE World
  BY <1>5, ProgressWorld
<1>6. CASE UNCHANGED vars
  BY <1>6, ProgressMoves DEF vars, files, history
<1> QED BY <1>1, <1>2, <1>3, <1>4, <1>5, <1>6 DEF Next

\* What is known after the checks stays known while errors are added.
LEMMA ConclusionsMoves ==
  ASSUME Conclusions, UNCHANGED written, BlockedNeverJudged,
         \/ UNCHANGED proc
         \/ proc'.at \notin {"inputs", "paths", "diff", "patch", "inputsAgain",
                            "pathsAgain", "diffAgain", "save"}
         \/ /\ proc'.checks = proc.checks /\ proc'.blocked = proc.blocked
            /\ proc.errors \subseteq proc'.errors
            /\ \/ /\ proc.at \in {"inputs", "paths", "diff", "patch"}
                  /\ \/ proc'.at \in {"paths", "diff", "patch"}
                     \/ proc'.at = "inputsAgain" /\ proc'.errors # {}
               \/ /\ proc.at \in {"inputsAgain", "pathsAgain", "diffAgain"}
                  /\ proc'.at \in {"pathsAgain", "diffAgain", "save"}
  PROVE  Conclusions' /\ BlockedNeverJudged'
<1>1. BlockedNeverJudged'
  BY DEF BlockedNeverJudged
<1>2. Conclusions'
  BY DEF Conclusions
<1> QED BY <1>1, <1>2

LEMMA ConclusionsEvaluate ==
  ASSUME TypeOK, Order, Conclusions, BlockedNeverJudged, EvaluateStep
  PROVE  Conclusions' /\ BlockedNeverJudged'
<1>0. proc \in Process
  BY DEF TypeOK
<1> USE DEF At
<1>1. CASE Evaluate
  BY <1>1 DEF Evaluate, Idle, Conclusions, BlockedNeverJudged
<1>2. CASE ReadInputs("inputs", "paths")
  BY <1>0, <1>2, RaiseFields, ConclusionsMoves DEF ReadInputs, history
<1>3. CASE Paths("paths", "diff")
  BY <1>0, <1>3, RaiseFields, ConclusionsMoves DEF Paths, history
<1>4. CASE Before
  BY <1>0, <1>4, ConclusionsMoves DEF Before, Process, history
<1>5. CASE WritePatch
  BY <1>0, <1>5, GotoFields, ConclusionsMoves DEF WritePatch, history
<1>6. CASE TestDeadline
  <2>1. UNCHANGED written
    BY <1>6 DEF TestDeadline, history
  <2>2. CASE late
    BY <1>0, <1>6, <2>1, <2>2, ConcludeFields
       DEF TestDeadline, Errors, Conclusions, BlockedNeverJudged
  <2>3. CASE ~late
    BY <1>0, <1>6, <2>1, <2>3, GotoFields, ConclusionsMoves DEF TestDeadline
  <2> QED BY <2>2, <2>3
<1>7. CASE Launch \/ Build
  <2>1. proc'.at \in {"idle", "building", "running"} /\ UNCHANGED written
    BY <1>0, <1>7, GotoFields DEF Launch, Run, Build, Idle, history
  <2> QED BY <2>1, ConclusionsMoves
<1>8. CASE Exit \/ Break
  <2>1. PICK result \in Outcomes : Conclude(result, {})
    BY <1>8 DEF Exit, Break, TypeOK, Outcomes
  <2>2. UNCHANGED written
    BY <1>8 DEF Exit, Break
  <2> QED BY <1>0, <2>1, <2>2, ConcludeFields DEF Conclusions, BlockedNeverJudged
<1>9. CASE ReadInputs("inputsAgain", "pathsAgain")
  BY <1>0, <1>9, RaiseFields, ConclusionsMoves DEF ReadInputs, history
<1>10. CASE Paths("pathsAgain", "diffAgain")
  BY <1>0, <1>10, RaiseFields, ConclusionsMoves DEF Paths, history
<1>11. CASE DiffAgain
  BY <1>0, <1>11, RaiseFields, ConclusionsMoves DEF DiffAgain, history
<1>12. CASE SaveEvaluation
  <2>1. /\ written'.status = StatusOf(proc.errors, proc.blocked)
        /\ written'.checks = proc.checks
    BY <1>12 DEF SaveEvaluation, Concluded
  <2>2. /\ proc.errors = {} => CheckErrors(proc.checks) = {}
        /\ proc.errors # {} /\ ~proc.blocked =>
             \/ \A c \in Checks : proc.checks[c] = Null
             \/ ~Blocked(proc.checks)
    BY <1>12 DEF SaveEvaluation, Conclusions
  <2>3. CheckErrors(proc.checks) = {} => proc.checks = <<"pass", "fail", "pass", "pass">>
    <3>1. ASSUME CheckErrors(proc.checks) = {}
          PROVE  /\ proc.checks[1] = "pass" /\ proc.checks[2] = "fail"
                 /\ proc.checks[3] = "pass" /\ proc.checks[4] = "pass"
      BY <3>1 DEF CheckErrors
    <3>2. proc.checks \in [1..4 -> Outcomes \cup {Null}]
      BY <1>0 DEF Process, Checks
    <3> QED BY <3>1, <3>2
  <2>4. ~Blocked(proc.checks) =>
          /\ \A c \in Checks : proc.checks[c] \in {"pass", "fail"}
          /\ proc.checks[1] = "pass"
    BY <1>0 DEF Blocked, Process, Outcomes
  <2>5. BlockedNeverJudged'
    BY <2>1, <2>2, <2>3, <2>4 DEF BlockedNeverJudged, StatusOf
  <2>6. Conclusions'
    BY <1>0, <1>12, GotoFields DEF SaveEvaluation, Conclusions
  <2> QED BY <2>5, <2>6
<1> QED
  BY <1>1, <1>2, <1>3, <1>4, <1>5, <1>6, <1>7, <1>8, <1>9, <1>10, <1>11, <1>12
     DEF EvaluateStep

LEMMA ConclusionsStep ==
  ASSUME TypeOK, Order, Conclusions, BlockedNeverJudged, [Next]_vars
  PROVE  Conclusions' /\ BlockedNeverJudged'
<1>1. CASE FreezeStep
  BY <1>1, FreezeFields, ConclusionsMoves DEF Freezing, Idle
<1>2. CASE EvaluateStep
  BY <1>2, ConclusionsEvaluate
<1>3. CASE VerifyStep
  BY <1>3, VerifyFields, ConclusionsMoves DEF Verifying, Idle
<1>4. CASE TakeUp \/ SaveRecord
  BY <1>4, ConclusionsMoves DEF TakeUp, SaveRecord, Idle, history
<1>5. CASE World
  <2>1. (proc' = Idle \/ UNCHANGED proc) /\ UNCHANGED written
    BY <1>5, EditFields DEF World, Stop, DeadlinePasses, history
  <2> QED BY <2>1, ConclusionsMoves DEF Idle
<1>6. CASE UNCHANGED vars
  BY <1>6, ConclusionsMoves DEF vars, history
<1> QED BY <1>1, <1>2, <1>3, <1>4, <1>5, <1>6 DEF Next

\* A rejection never rests on blocked evidence, and an improvement rests on all
\* four checks.
THEOREM BlockedNeverJudgedCorrect == Spec => []BlockedNeverJudged
<1> DEFINE I == TypeOK /\ Order /\ Conclusions /\ BlockedNeverJudged
<1>1. Init => I
  BY InitTyping DEF Init, Idle, Conclusions, BlockedNeverJudged
<1>2. I /\ [Next]_vars => I'
  BY Typing, ConclusionsStep
<1> QED BY <1>1, <1>2, PTL DEF Spec

-----------------------------------------------------------------------------
(* An improvement is real.                                                 *)

LEMMA BuiltTree ==
  ASSUME NEW tree \in Trees
  PROVE  /\ Built(tree).source = tree.source
         /\ Built(tree).outputs = Stray => tree.outputs = Stray
         /\ tree.outputs # Stray => Built(tree) = Made(tree.source)
<1>1. tree.source # Stray
  BY ExperimentAssumption DEF Trees
<1> QED BY <1>1 DEF Built, Made

LEMMA SeenMoves ==
  ASSUME Seen, UNCHANGED <<oracle, baseline, candidate, past, record, escaped>>,
         proc.at \in Evaluating \ {"inputs"}, proc'.at \in Evaluating,
         proc.at \in {"paths", "diff"} => proc'.at \in {"paths", "diff"},
         proc'.before = proc.before, proc.errors \subseteq proc'.errors
  PROVE  Seen'
<1>1. proc'.errors = {} => proc.errors = {}
  OBVIOUS
<1> QED BY <1>1 DEF Seen

LEMMA SeenIdle == ASSUME proc'.at \notin Evaluating PROVE Seen'
BY DEF Seen

\* Where no check has run there is nothing to be faithful to.
LEMMA FaithfulEarly ==
  ASSUME proc'.errors # {} \/ proc'.at \notin Judging \cup Rereading \cup {"save"}
  PROVE  Faithful'
BY DEF Faithful, Judging, Rereading, Checking, At

\* What the checks say depends on what the second reading compares alone.
LEMMA ToldKept ==
  ASSUME proc'.before = proc.before, UNCHANGED record
  PROVE  \A c : Told(c)' = Told(c)
BY DEF Told, Result

LEMMA ResultsKept ==
  ASSUME proc'.before = proc.before, proc'.checks = proc.checks, UNCHANGED record, Results
  PROVE  Results'
<1>1. \A c : Told(c)' = Told(c)
  BY ToldKept
<1> QED BY <1>1 DEF Results, Passed

LEMMA SeenEvaluate ==
  ASSUME TypeOK, Order, Seen, EvaluateStep PROVE Seen'
<1>0. proc \in Process
  BY DEF TypeOK
<1> USE DEF At
<1>1. CASE Evaluate
  BY <1>1 DEF Evaluate, Seen, Idle, inputs
<1>2. CASE ReadInputs("inputs", "paths")
  <2>1. PICK errors :
          /\ Raise("paths", errors)
          /\ errors = {} => oracle = record.experiment /\ baseline.source = Base
    BY <1>2 DEF ReadInputs
  <2>2. UNCHANGED <<oracle, baseline, candidate, past, record, escaped>> /\ proc.at = "inputs"
    BY <1>2 DEF ReadInputs, inputs, history
  <2>3. proc'.at = "paths" /\ (proc'.errors = {} => errors = {})
    BY <1>0, <2>1, RaiseFields
  <2> QED BY <2>1, <2>2, <2>3 DEF Seen, Evaluating
<1>3. CASE Before
  <2>1. /\ proc'.at = "patch" /\ proc'.before = candidate.source
        /\ proc'.errors = proc.errors /\ proc.at = "diff"
        /\ UNCHANGED <<oracle, baseline, candidate, past, record, escaped>>
    BY <1>0, <1>3 DEF Before, Process, inputs, history
  <2> QED BY <2>1 DEF Seen, Evaluating
<1>4. CASE \/ Paths("paths", "diff") \/ Paths("pathsAgain", "diffAgain") \/ DiffAgain
           \/ ReadInputs("inputsAgain", "pathsAgain") \/ WritePatch
  <2>1. /\ proc'.before = proc.before /\ proc.errors \subseteq proc'.errors
        /\ \/ proc.at = "paths" /\ proc'.at = "diff"
           \/ /\ proc.at \in {"patch", "inputsAgain", "pathsAgain", "diffAgain"}
              /\ proc'.at \in {"deadline", "inputsAgain", "pathsAgain", "diffAgain", "save"}
    BY <1>0, <1>4, RaiseFields, GotoFields DEF Paths, DiffAgain, ReadInputs, WritePatch
  <2>2. UNCHANGED <<oracle, baseline, candidate, past, record, escaped>>
    BY <1>4 DEF Paths, DiffAgain, ReadInputs, WritePatch, inputs, history
  <2> QED BY <2>1, <2>2, SeenMoves DEF Evaluating
<1>5. CASE TestDeadline \/ Exit \/ Break
  <2>1. /\ UNCHANGED <<oracle, baseline, candidate, past, record, escaped>>
        /\ proc.at \in {"deadline", "building", "running"}
    BY <1>5 DEF TestDeadline, Exit, Break, inputs, history
  <2>2. CASE \E result \in Outcomes \cup {Null}, errors \in SUBSET Errors :
               Conclude(result, errors)
    BY <1>0, <2>1, <2>2, ConcludeFields, SeenMoves DEF Evaluating
  <2>3. CASE Goto("launch")
    BY <1>0, <2>1, <2>3, GotoFields, SeenMoves DEF Evaluating
  <2>4. CASE TestDeadline
    BY <2>2, <2>3, <2>4 DEF TestDeadline, Errors
  <2>5. CASE Exit \/ Break
    BY <2>2, <2>5 DEF Exit, Break, TypeOK, Outcomes
  <2> QED BY <1>5, <2>4, <2>5
<1>6. CASE Launch
  <2>1. UNCHANGED <<oracle, baseline, candidate, record, escaped>> /\ proc.at = "launch"
    BY <1>6 DEF Launch, inputs
  <2>2. CASE proc' = Idle
    BY <2>2, SeenIdle DEF Idle, Evaluating
  <2>3. CASE Run
    BY <1>0, <2>1, <2>3, GotoFields, SeenMoves DEF Run, Evaluating
  <2> QED BY <1>6, <2>2, <2>3 DEF Launch
<1>7. CASE Build
  <2>1. /\ proc.at = "building" /\ proc'.at = "running" /\ proc'.before = proc.before
        /\ proc'.errors = proc.errors /\ UNCHANGED <<oracle, past, record, escaped>>
    BY <1>0, <1>7, GotoFields DEF Build, history
  <2>2. baseline \in Trees /\ candidate \in Trees
    BY <2>1 DEF Order, Evaluating, TypeOK
  <2>3. /\ baseline'.source = baseline.source /\ candidate'.source = candidate.source
        /\ baseline'.outputs = Stray => baseline.outputs = Stray
        /\ candidate'.outputs = Stray => candidate.outputs = Stray
    BY <1>7, <2>2, BuiltTree DEF Build
  <2> QED BY <2>1, <2>3 DEF Seen, Evaluating
<1>8. CASE SaveEvaluation
  BY <1>0, <1>8, GotoFields, SeenIdle DEF SaveEvaluation, Evaluating
<1> QED
  BY <1>1, <1>2, <1>3, <1>4, <1>5, <1>6, <1>7, <1>8 DEF EvaluateStep

\* The check that is launched reads built trees.
LEMMA FaithfulLaunch ==
  ASSUME TypeOK, Order, Seen, Faithful, Launch, Run PROVE Faithful'
<1>0. proc \in Process /\ proc.check \in Checks
  BY DEF TypeOK, Process
<1>1. /\ proc.at = "launch" /\ proc'.check = proc.check
      /\ proc'.at = IF proc.check \in {1, 3} THEN "building" ELSE "running"
      /\ proc'.checks = proc.checks /\ proc'.errors = proc.errors
      /\ proc'.before = proc.before
      /\ UNCHANGED <<oracle, baseline, candidate, record, escaped>>
  BY <1>0, GotoFields DEF Launch, Run, At, inputs, Checks, WithOracle
<1>2. possible' = {Reading(proc.check \in {1, 3}, baseline, candidate, oracle)}
  BY <1>0 DEF Run, Checks, WithOracle
<1> SUFFICES ASSUME proc.errors = {}, ~escaped, Steady'
             PROVE  Faithful'
  BY <1>1 DEF Faithful
<1>3. /\ baseline.source = Base /\ oracle = record.experiment
      /\ candidate.source = proc.before /\ Steady
  BY <1>1 DEF Steady, Judging, Checking
<1>4. /\ Results
      /\ Passed(1) => baseline = Made(Base)
      /\ Passed(3) => candidate = Made(proc.before)
      /\ \A c \in Checks : c >= proc.check => proc.checks[c] = Null
  BY <1>1, <1>3 DEF Faithful, Judging, Checking, BuiltBy, At
<1>5. /\ proc.check \in {1, 3} => possible' = {Told(proc.check)}
      /\ proc.check = 2 /\ Passed(1) => possible' = {Told(proc.check)}
      /\ proc.check = 4 /\ Passed(3) => possible' = {Told(proc.check)}
  <2>1. baseline \in Trees /\ candidate \in Trees
    BY <1>1 DEF Order, Evaluating, TypeOK
  <2>2. baseline.outputs # Stray /\ candidate.outputs # Stray
    BY <1>1 DEF Seen, Evaluating
  <2>3. Built(baseline) = Made(Base) /\ Built(candidate) = Made(proc.before)
    BY <1>3, <2>1, <2>2, BuiltTree
  <2> QED BY <1>2, <1>3, <1>4, <2>3 DEF Reading, Told, Result, OnBaseline, WithOracle
<1>6. Results' /\ \A c : Told(c)' = Told(c)
  BY <1>1, <1>4, ResultsKept, ToldKept
<1>7. BuiltBy(1)' = Passed(1) /\ BuiltBy(3)' = Passed(3)
  BY <1>1 DEF BuiltBy, Passed, At
<1>8. (proc.check \in WithOracle => Passed(proc.check - 1)') /\ At("running")' =>
        possible' = {Told(proc.check)}
  BY <1>0, <1>1, <1>5 DEF Checks, WithOracle, Passed, At
<1> QED
  BY <1>1, <1>4, <1>5, <1>6, <1>7, <1>8 DEF Faithful, Judging, Checking, Rereading, At

LEMMA FaithfulBuild ==
  ASSUME TypeOK, Order, Seen, Faithful, Build PROVE Faithful'
<1>0. proc \in Process /\ proc.check \in Checks
  BY DEF TypeOK, Process
<1>1. /\ proc.at = "building" /\ proc'.at = "running" /\ proc'.check = proc.check
      /\ proc'.checks = proc.checks /\ proc'.errors = proc.errors
      /\ proc'.before = proc.before /\ UNCHANGED <<oracle, record, escaped, possible>>
  BY <1>0, GotoFields DEF Build, At, history
<1>2. baseline \in Trees /\ candidate \in Trees
  BY <1>1 DEF Order, Evaluating, TypeOK
<1>3. baseline'.source = baseline.source /\ candidate'.source = candidate.source
  BY <1>2, BuiltTree DEF Build
<1> SUFFICES ASSUME proc.errors = {}, ~escaped, Steady'
             PROVE  Faithful'
  BY <1>1 DEF Faithful
<1>4. baseline.source = Base /\ candidate.source = proc.before /\ Steady
  BY <1>1, <1>3 DEF Steady, Judging, Checking
<1>5. /\ Results /\ proc.check \in {1, 3} /\ possible = {Told(proc.check)}
      /\ Passed(1) => baseline = Made(Base)
      /\ Passed(3) => candidate = Made(proc.before)
      /\ \A c \in Checks : c >= proc.check => proc.checks[c] = Null
  BY <1>1, <1>4 DEF Faithful, Judging, Checking, BuiltBy, At
<1>6. baseline.outputs # Stray /\ candidate.outputs # Stray
  BY <1>1 DEF Seen, Evaluating
<1>7. /\ baseline' = IF proc.check = 1 THEN Made(Base) ELSE baseline
      /\ candidate' = IF proc.check = 3 THEN Made(proc.before) ELSE candidate
  BY <1>2, <1>4, <1>5, <1>6, BuiltTree DEF Build, OnBaseline
<1>8. /\ BuiltBy(1)' => baseline' = Made(Base)
      /\ BuiltBy(3)' => candidate' = Made(proc.before)
  BY <1>1, <1>5, <1>7 DEF BuiltBy, Passed, At
<1>9. Results' /\ \A c : Told(c)' = Told(c)
  BY <1>1, <1>5, ResultsKept, ToldKept
<1> QED
  BY <1>1, <1>5, <1>8, <1>9 DEF Faithful, Judging, Checking, Rereading, At

\* What a check says joins what the earlier ones said.
LEMMA FaithfulExit ==
  ASSUME TypeOK, Order, Faithful, Exit \/ Break PROVE Faithful'
<1>0. proc \in Process /\ proc.check \in Checks
  BY DEF TypeOK, Process
<1>1. PICK result \in Outcomes :
        /\ Conclude(result, {})
        /\ result # "broken" =>
             result \in possible /\ (At("running") \/ result = "fail")
  BY DEF Exit, Break, TypeOK, Outcomes
<1>2. /\ proc.at \in {"building", "running"} /\ proc'.before = proc.before
      /\ proc'.at \in {"deadline", "inputsAgain"}
      /\ proc'.at = "deadline" => proc'.check = proc.check + 1
      /\ proc'.checks = [proc.checks EXCEPT ![proc.check] = result]
      /\ proc.errors \subseteq proc'.errors
  BY <1>0, <1>1, ConcludeFields DEF Exit, Break, At, Conclude, Process
<1>3. UNCHANGED <<oracle, baseline, candidate, record, escaped>>
  BY DEF Exit, Break, inputs
<1> SUFFICES ASSUME proc'.errors = {}, ~escaped, Steady'
             PROVE  Faithful'
  BY <1>3 DEF Faithful
<1>4. proc.errors = {} /\ Steady
  BY <1>2, <1>3 DEF Steady, Judging, Checking, Rereading
<1>5. /\ Results
      /\ BuiltBy(1) => baseline = Made(Base)
      /\ BuiltBy(3) => candidate = Made(proc.before)
      /\ \A c \in Checks : c >= proc.check => proc.checks[c] = Null
  BY <1>2, <1>4 DEF Faithful, Judging, Checking
<1>6. /\ proc.check \in {1, 3} /\ result = "pass" => At("running") /\ Told(proc.check) = "pass"
      /\ proc.check = 2 /\ Passed(1) /\ result = "fail" => Told(2) = "fail"
      /\ proc.check = 4 /\ Passed(3) /\ result = "pass" => Told(4) = "pass"
  <2>1. At("building") => proc.check \in {1, 3}
    BY <1>4 DEF Faithful
  <2>2. At("running") /\ (proc.check \in WithOracle => Passed(proc.check - 1)) =>
          possible = {Told(proc.check)}
    BY <1>4 DEF Faithful
  <2> QED BY <1>1, <1>2, <2>1, <2>2 DEF WithOracle, At
<1>7. \A c \in Checks : proc'.checks[c] = IF c = proc.check THEN result ELSE proc.checks[c]
  BY <1>0, <1>2 DEF Process
<1>8. \A c : Told(c)' = Told(c)
  BY <1>2, <1>3, ToldKept
<1>9. /\ Passed(1)' => Passed(1) \/ (proc.check = 1 /\ result = "pass")
      /\ Passed(3)' => Passed(3) \/ (proc.check = 3 /\ result = "pass")
      /\ Passed(4)' => Passed(4) \/ (proc.check = 4 /\ result = "pass")
      /\ proc'.checks[2] = "fail" =>
           proc.checks[2] = "fail" \/ (proc.check = 2 /\ result = "fail")
      /\ \A c \in Checks : c >= proc.check => proc.checks[c] \notin {"pass", "fail"}
  BY <1>5, <1>7, NullAssumption DEF Passed, Checks, Outcomes
<1>10. Results'
  <2>1. \A c \in {1, 3} : Passed(c)' => Told(c) = "pass"
    BY <1>5, <1>6, <1>9 DEF Results
  <2>2. Passed(1)' /\ proc'.checks[2] = "fail" => Told(2) = "fail"
    BY <1>5, <1>6, <1>9 DEF Results, Checks
  <2>3. Passed(3)' /\ Passed(4)' => Told(4) = "pass"
    BY <1>5, <1>6, <1>9 DEF Results, Checks, Passed
  <2> QED BY <1>8, <2>1, <2>2, <2>3 DEF Results, Passed
<1>11. /\ BuiltBy(1)' => baseline = Made(Base)
       /\ BuiltBy(3)' => candidate = Made(proc.before)
  BY <1>2, <1>5, <1>6, <1>9 DEF BuiltBy, At
<1>12. proc'.at = "deadline" => \A c \in Checks : c >= proc'.check => proc'.checks[c] = Null
  BY <1>0, <1>2, <1>5, <1>7 DEF Checks
<1> QED
  BY <1>2, <1>3, <1>10, <1>11, <1>12 DEF Faithful, Judging, Checking, Rereading, At

\* While a later reading compares them, the inputs stay as they were read or the
\* error is known.
LEMMA FaithfulEvaluate ==
  ASSUME TypeOK, Order, Conclusions, Seen, Faithful, EvaluateStep PROVE Faithful'
<1>0. proc \in Process
  BY DEF TypeOK
<1> USE DEF At
<1>1. CASE Evaluate
  BY <1>1, FaithfulEarly DEF Evaluate, Idle, Judging, Checking, Rereading
<1>2. CASE ReadInputs("inputs", "paths") \/ Paths("paths", "diff")
  BY <1>0, <1>2, RaiseFields, FaithfulEarly DEF ReadInputs, Paths, Judging, Checking, Rereading
<1>3. CASE Before
  BY <1>0, <1>3, FaithfulEarly DEF Before, Process, Judging, Checking, Rereading
<1>4. CASE WritePatch
  <2>1. CASE proc.errors = {}
    <3>1. \A c \in Checks : proc'.checks[c] = Null
      BY <1>0, <1>4, <2>1, GotoFields DEF WritePatch, Conclusions
    <3>2. proc'.at = "deadline"
      BY <1>0, <1>4, <2>1, GotoFields DEF WritePatch
    <3>3. Results' /\ ~BuiltBy(1)' /\ ~BuiltBy(3)'
      BY <3>1, <3>2, NullAssumption DEF Results, Passed, BuiltBy, Checks, Outcomes
    <3> QED BY <3>1, <3>2, <3>3 DEF Faithful
  <2>2. CASE proc.errors # {}
    BY <1>0, <1>4, <2>2, GotoFields, FaithfulEarly DEF WritePatch
  <2> QED BY <2>1, <2>2
<1>5. CASE TestDeadline
  <2>1. CASE late
    <3>1. "deadline" \in proc'.errors
      BY <1>0, <1>5, <2>1, ConcludeFields DEF TestDeadline, Errors
    <3> QED BY <3>1, FaithfulEarly
  <2>2. CASE ~late
    <3>1. /\ proc.at = "deadline" /\ proc'.at = "launch" /\ proc'.check = proc.check
          /\ proc'.checks = proc.checks /\ proc'.errors = proc.errors
          /\ proc'.before = proc.before
          /\ UNCHANGED <<oracle, baseline, candidate, record, escaped>>
      BY <1>0, <1>5, <2>2, GotoFields DEF TestDeadline, inputs, history
    <3>2. Steady' => Steady
      BY <3>1 DEF Steady, Judging, Checking, Rereading
    <3>3. Results => Results'
      BY <3>1, ResultsKept
    <3>4. (BuiltBy(1)' => BuiltBy(1)) /\ (BuiltBy(3)' => BuiltBy(3))
      BY <3>1 DEF BuiltBy, Passed
    <3>5. \A c : Told(c)' = Told(c)
      BY <3>1, ToldKept
    <3> QED BY <3>1, <3>2, <3>3, <3>4 DEF Faithful, Judging, Checking, Rereading
  <2> QED BY <2>1, <2>2
<1>6. CASE Launch
  <2>1. CASE proc' = Idle
    BY <2>1, FaithfulEarly DEF Idle, Judging, Checking, Rereading
  <2>2. CASE Run
    BY <1>6, <2>2, FaithfulLaunch
  <2> QED BY <1>6, <2>1, <2>2 DEF Launch
<1>7. CASE Build
  BY <1>7, FaithfulBuild
<1>8. CASE Exit \/ Break
  BY <1>8, FaithfulExit
<1>9. CASE ReadInputs("inputsAgain", "pathsAgain")
  <2>1. PICK errors :
          /\ Raise("pathsAgain", errors)
          /\ errors = {} => oracle = record.experiment /\ baseline.source = Base
    BY <1>9 DEF ReadInputs
  <2>2. /\ UNCHANGED <<oracle, baseline, candidate, record, escaped>>
        /\ proc.at = "inputsAgain"
    BY <1>9 DEF ReadInputs, inputs, history
  <2>3. /\ proc'.at = "pathsAgain" /\ proc'.checks = proc.checks
        /\ proc'.before = proc.before /\ proc'.errors = proc.errors \cup errors
    BY <1>0, <2>1, RaiseFields
  <2>4. Steady' /\ proc'.errors = {} => Steady /\ proc.errors = {}
    BY <2>1, <2>2, <2>3 DEF Steady, Judging, Checking, Rereading
  <2>5. Results => Results'
    BY <2>2, <2>3, ResultsKept
  <2> QED BY <2>2, <2>3, <2>4, <2>5 DEF Faithful, Judging, Checking, Rereading
<1>10. CASE Paths("pathsAgain", "diffAgain") \/ DiffAgain
  <2>1. /\ UNCHANGED <<oracle, baseline, candidate, record, escaped>>
        /\ proc'.checks = proc.checks /\ proc'.before = proc.before
        /\ proc.errors \subseteq proc'.errors
        /\ \/ /\ proc.at = "pathsAgain" /\ proc'.at = "diffAgain"
              /\ proc'.errors = {} => candidate.source \in Eligible
           \/ /\ proc.at = "diffAgain" /\ proc'.at = "save"
              /\ proc'.errors = {} => candidate.source = proc.before
    BY <1>0, <1>10, RaiseFields
       DEF Paths, DiffAgain, PathErrors, DriftErrors, inputs, history
  <2>2. proc'.errors = {} /\ Steady' =>
          Steady /\ proc.errors = {} /\ candidate.source = proc.before
    BY <2>1 DEF Steady, Judging, Checking, Rereading
  <2>3. proc'.errors = {} /\ Steady' /\ ~escaped' => proc'.before \in Eligible
    BY <2>1, <2>2 DEF Faithful
  <2>4. Results => Results'
    BY <2>1, ResultsKept
  <2> QED BY <2>1, <2>2, <2>3, <2>4 DEF Faithful, Judging, Checking, Rereading
<1>11. CASE SaveEvaluation
  BY <1>0, <1>11, GotoFields, FaithfulEarly DEF SaveEvaluation, Judging, Checking, Rereading
<1> QED
  BY <1>1, <1>2, <1>3, <1>4, <1>5, <1>6, <1>7, <1>8, <1>9, <1>10, <1>11 DEF EvaluateStep

\* An edit during an evaluation either escapes, or leaves the ignored files alone
\* and gives no source and no oracle back what it had been.
LEMMA EditEscapes ==
  ASSUME TypeOK, Order, Edit, Evaluates, ~escaped'
  PROVE  /\ baseline'.outputs = baseline.outputs /\ candidate'.outputs = candidate.outputs
         /\ baseline'.source \in past.baseline => baseline' = baseline
         /\ candidate'.source \in past.candidate => candidate' = candidate
         /\ oracle' \in past.oracle => oracle' = oracle
<1>1. baseline \in Trees /\ candidate \in Trees
  BY DEF Evaluates, Order, TypeOK
<1>2. CASE EditOracle
  BY <1>2 DEF EditOracle, Restores
<1>3. CASE EditBaseline
  BY <1>1, <1>3 DEF EditBaseline, Restores, Trees
<1>4. CASE EditCandidate
  BY <1>1, <1>4 DEF EditCandidate, Restores, Trees
<1>5. CASE EditOutputs
  BY <1>5, Zenon DEF EditOutputs
<1>6. CASE EditDraft \/ EditMetadata \/ EditEvaluation \/ EditPatch \/ EditReceipts
  BY <1>6 DEF EditDraft, EditMetadata, EditEvaluation, EditPatch, EditReceipts, inputs
<1> QED BY <1>2, <1>3, <1>4, <1>5, <1>6 DEF Edit

LEMMA EditHistory ==
  ASSUME Edit
  PROVE  /\ Evaluates => past' = [candidate |-> past.candidate \cup {candidate'.source},
                                  baseline |-> past.baseline \cup {baseline'.source},
                                  oracle |-> past.oracle \cup {oracle'}]
         /\ At("building") \/ At("running") =>
              possible' = possible \cup
                            {Reading(At("building"), baseline', candidate', oracle')}
BY DEF Edit, EditDraft, EditOracle, EditBaseline, EditCandidate, EditOutputs,
       EditMetadata, EditEvaluation, EditPatch, EditReceipts, Observe

\* What the running check reads is what it was launched for.
LEMMA ReadingTold ==
  ASSUME TypeOK, Order, Seen, Faithful, Steady, proc.errors = {}, ~escaped,
         \/ At("building")
         \/ At("running") /\ (proc.check \in WithOracle => Passed(proc.check - 1))
  PROVE  Reading(At("building"), baseline, candidate, oracle) = Told(proc.check)
<1>1. proc.check \in Checks /\ proc.at \in Evaluating /\ proc.at \in Checking
  BY DEF TypeOK, Process, At, Evaluating, Checking
<1>2. baseline \in Trees /\ candidate \in Trees
  BY <1>1 DEF Order, TypeOK
<1>3. /\ baseline.source = Base /\ oracle = record.experiment
      /\ candidate.source = proc.before
  BY <1>1 DEF Steady, Judging
<1>4. CASE At("building")
  <2>1. baseline.outputs # Stray /\ candidate.outputs # Stray
    BY <1>1 DEF Seen
  <2>2. Built(baseline) = Made(Base) /\ Built(candidate) = Made(proc.before)
    BY <1>2, <1>3, <2>1, BuiltTree
  <2> QED BY <1>3, <1>4, <2>2 DEF Reading, Told
<1>5. CASE At("running") /\ (proc.check \in WithOracle => Passed(proc.check - 1))
  <2>1. /\ BuiltBy(1) => baseline = Made(Base)
        /\ BuiltBy(3) => candidate = Made(proc.before)
    BY <1>1 DEF Faithful
  <2>2. /\ proc.check \in OnBaseline => baseline = Made(Base)
        /\ proc.check \notin OnBaseline => candidate = Made(proc.before)
    BY <1>1, <1>5, <2>1 DEF BuiltBy, Checks, OnBaseline, WithOracle
  <2>3. ~At("building")
    BY <1>5 DEF At
  <2> QED BY <1>3, <2>2, <2>3 DEF Reading, Told, Result
<1> QED BY <1>4, <1>5

\* An edit that makes the inputs as they were read leaves them alone or escapes.
LEMMA EditsFaithful ==
  ASSUME TypeOK, Order, Seen, Faithful, Edit
  PROVE  Seen' /\ Faithful'
<1>1. UNCHANGED <<proc, record>> /\ escaped' \in BOOLEAN /\ (escaped => escaped')
  BY EditFields
<1>2. CASE proc.at \notin Evaluating
  BY <1>1, <1>2, SeenIdle, FaithfulEarly DEF Evaluating, Judging, Checking, Rereading
<1>3. CASE proc.at \in Evaluating
  <2>1. /\ past'.candidate = past.candidate \cup {candidate'.source}
        /\ past'.baseline = past.baseline \cup {baseline'.source}
        /\ past'.oracle = past.oracle \cup {oracle'}
    BY <1>3, EditHistory DEF Evaluates
  <2>2. ~escaped' =>
          /\ baseline'.outputs = baseline.outputs /\ candidate'.outputs = candidate.outputs
          /\ baseline'.source \in past.baseline => baseline' = baseline
          /\ candidate'.source \in past.candidate => candidate' = candidate
          /\ oracle' \in past.oracle => oracle' = oracle
    BY <1>3, EditEscapes DEF Evaluates
  <2>3. Seen'
    BY <1>1, <2>1, <2>2 DEF Seen
  <2>4. ASSUME proc.errors = {}, ~escaped', Steady'
        PROVE  /\ Steady
               /\ proc.at \in Judging =>
                    /\ baseline' = baseline /\ oracle' = oracle /\ candidate' = candidate
                    /\ baseline.source = Base /\ oracle = record.experiment
                    /\ candidate.source = proc.before
    <3>1. CASE proc.at \in Judging
      <4>1. /\ Base \in past.baseline /\ record.experiment \in past.oracle
            /\ proc.before \in past.candidate
        BY <1>3, <2>4, <3>1 DEF Seen, Judging, Checking
      <4>2. /\ baseline'.source = Base /\ oracle' = record.experiment
            /\ candidate'.source = proc.before
        BY <1>1, <2>4, <3>1 DEF Steady
      <4> QED BY <2>2, <2>4, <3>1, <4>1, <4>2 DEF Steady
    <3>2. CASE proc.at \in Rereading
      <4>1. proc.before \in past.candidate /\ candidate'.source = proc.before
        BY <1>1, <1>3, <2>4, <3>2 DEF Seen, Steady, Rereading
      <4> QED BY <2>2, <2>4, <3>2, <4>1 DEF Steady, Rereading, Judging, Checking
    <3>3. CASE proc.at \notin Judging \cup Rereading
      BY <3>3 DEF Steady
    <3> QED BY <3>1, <3>2, <3>3
  <2> SUFFICES ASSUME proc.errors = {}, ~escaped', Steady' PROVE Faithful'
    BY <1>1, <2>3 DEF Faithful
  <2>5. \A c : Told(c)' = Told(c)
    BY <1>1, ToldKept
  <2>6. Results => Results'
    BY <1>1, ResultsKept
  <2>7. ASSUME \/ At("building")
               \/ At("running") /\ (proc.check \in WithOracle => Passed(proc.check - 1))
        PROVE  possible' = possible \cup {Told(proc.check)}
    <3>1. UNCHANGED <<baseline, candidate, oracle>>
      BY <2>4, <2>7 DEF At, Judging, Checking
    <3>2. Reading(At("building"), baseline, candidate, oracle) = Told(proc.check)
      BY <1>1, <2>4, <2>7, ReadingTold
    <3> QED BY <2>7, <3>1, <3>2, EditHistory
  <2>8. /\ At("building") => proc.check \in {1, 3} /\ possible' = {Told(proc.check)}
        /\ At("running") /\ (proc.check \in WithOracle => Passed(proc.check - 1)) =>
             possible' = {Told(proc.check)}
    BY <1>1, <2>4, <2>7 DEF Faithful
  <2>9. proc.at \in Checking =>
          /\ BuiltBy(1) => baseline' = Made(Base)
          /\ BuiltBy(3) => candidate' = Made(proc.before)
          /\ \A c \in Checks : c >= proc.check => proc.checks[c] = Null
    BY <1>1, <2>4 DEF Faithful, Judging
  <2>10. proc.at \in Judging \cup Rereading \cup {"save"} => Results'
    BY <1>1, <2>4, <2>6 DEF Faithful
  <2>11. proc.at \in {"diffAgain", "save"} => proc.before \in Eligible
    BY <1>1, <2>4 DEF Faithful
  <2> QED BY <1>1, <2>5, <2>8, <2>9, <2>10, <2>11 DEF Faithful, BuiltBy, Passed, At
<1> QED BY <1>2, <1>3

\* The verdict: what the checks said of the saved patch and the base commit.
LEMMA RealSaved ==
  ASSUME TypeOK, Faithful, BlockedNeverJudged', SaveEvaluation
  PROVE  ImprovedIsReal'
<1>0. written' = Concluded /\ written'.checks = proc.checks /\ written'.patch = proc.before
      /\ written'.oracle = record.experiment
      /\ written'.status = StatusOf(proc.errors, proc.blocked)
  BY DEF SaveEvaluation, Concluded
<1> SUFFICES ASSUME written' # Null, written'.status = "improved", ~escaped'
             PROVE  /\ proc.before \in Eligible
                    /\ Made(proc.before) \in Green \cap Meets[record.experiment]
                    /\ Made(Base) \in Green \ Meets[record.experiment]
  BY <1>0 DEF ImprovedIsReal
<1>1. proc.at = "save" /\ ~escaped
  BY DEF SaveEvaluation, At
<1>2. proc.errors = {}
  BY <1>0 DEF StatusOf
<1>3. Steady
  BY <1>1 DEF Steady, Judging, Checking, Rereading
<1>4. /\ proc.checks[1] = "pass" /\ proc.checks[2] = "fail"
      /\ proc.checks[3] = "pass" /\ proc.checks[4] = "pass"
  BY <1>0 DEF BlockedNeverJudged
<1>5. proc.before \in Eligible /\ Results
  BY <1>1, <1>2, <1>3 DEF Faithful
<1>6. Told(1) = "pass" /\ Told(2) = "fail" /\ Told(3) = "pass" /\ Told(4) = "pass"
  BY <1>4, <1>5 DEF Results, Passed
<1> QED BY <1>5, <1>6 DEF Told, Result, OnBaseline, WithOracle

LEMMA RealKept ==
  ASSUME ImprovedIsReal, UNCHANGED written, escaped => escaped'
  PROVE  ImprovedIsReal'
BY DEF ImprovedIsReal

LEMMA RealStep ==
  ASSUME TypeOK, Order, Conclusions, BlockedNeverJudged', Seen, Faithful, ImprovedIsReal,
         [Next]_vars
  PROVE  Seen' /\ Faithful' /\ ImprovedIsReal'
<1>1. CASE FreezeStep
  <2>1. proc'.at \in Freezing \cup {"idle"} /\ UNCHANGED <<written, escaped>>
    BY <1>1, FreezeFields DEF Idle
  <2>2. Seen' /\ Faithful'
    BY <2>1, SeenIdle, FaithfulEarly DEF Freezing, Evaluating, Judging, Checking, Rereading
  <2> QED BY <2>1, <2>2, RealKept
<1>2. CASE EvaluateStep
  <2>1. Seen' /\ Faithful'
    BY <1>2, SeenEvaluate, FaithfulEvaluate
  <2>2. CASE SaveEvaluation
    BY <2>1, <2>2, RealSaved
  <2>3. CASE Evaluate
    <3>1. written = Null /\ UNCHANGED written
      BY <2>3 DEF Evaluate, Order
    <3> QED BY <2>1, <3>1 DEF ImprovedIsReal
  <2>4. CASE ~SaveEvaluation /\ ~Evaluate
    <3>1. UNCHANGED <<written, escaped>>
      BY <1>2, <2>4
         DEF EvaluateStep, ReadInputs, Paths, Before, WritePatch, TestDeadline,
             Launch, Build, Exit, Break, DiffAgain, history
    <3> QED BY <2>1, <3>1, RealKept
  <2> QED BY <2>2, <2>3, <2>4
<1>3. CASE VerifyStep
  <2>1. UNCHANGED <<written, escaped>> /\ proc'.at \in Verifying \cup {"idle"}
    BY <1>3, VerifyFields DEF Idle
  <2>2. Seen' /\ Faithful'
    BY <2>1, SeenIdle, FaithfulEarly DEF Verifying, Evaluating, Judging, Checking, Rereading
  <2> QED BY <2>1, <2>2, RealKept
<1>4. CASE Stop \/ TakeUp \/ SaveRecord
  <2>1. proc'.at = "idle" /\ UNCHANGED <<written, escaped>>
    BY <1>4 DEF Stop, TakeUp, SaveRecord, Idle, At, history
  <2>2. Seen' /\ Faithful'
    BY <2>1, SeenIdle, FaithfulEarly DEF Evaluating, Judging, Checking, Rereading
  <2> QED BY <2>1, <2>2, RealKept
<1>5. CASE DeadlinePasses \/ UNCHANGED vars
  <2>1. /\ UNCHANGED <<proc, oracle, baseline, candidate, record, written, possible, past>>
        /\ UNCHANGED escaped
    BY <1>5 DEF DeadlinePasses, vars, inputs, history
  <2>2. Seen'
    BY <2>1 DEF Seen
  <2>3. Faithful'
    <3>1. (\A c : Told(c)' = Told(c)) /\ (Results => Results')
      BY <2>1, ToldKept, ResultsKept
    <3> QED BY <2>1, <3>1 DEF Faithful, Steady, BuiltBy, Passed, At
  <2> QED BY <2>1, <2>2, <2>3, RealKept
<1>6. CASE Edit
  BY <1>6, EditFields, EditsFaithful, RealKept
<1> QED BY <1>1, <1>2, <1>3, <1>4, <1>5, <1>6 DEF Next, World

\* Whatever is edited, killed or late, an evaluation that says improved is right
\* about the patch it saved and the oracle it names, unless a source or the oracle
\* was changed and changed back meanwhile, or ignored files of a worktree were
\* changed meanwhile or stray before.
THEOREM ImprovedIsRealCorrect == Spec => []ImprovedIsReal
<1> DEFINE I == /\ TypeOK /\ Order /\ Conclusions /\ BlockedNeverJudged
                /\ Seen /\ Faithful /\ ImprovedIsReal
<1>1. Init => I
  <2> SUFFICES ASSUME Init PROVE I
    OBVIOUS
  <2>1. proc = Idle /\ written = Null
    BY DEF Init
  <2>2. Conclusions /\ BlockedNeverJudged /\ ImprovedIsReal
    BY <2>1 DEF Idle, Conclusions, BlockedNeverJudged, ImprovedIsReal
  <2>3. Seen /\ Faithful
    BY <2>1 DEF Idle, Seen, Faithful, Evaluating, Judging, Checking, Rereading, At
  <2> QED BY <2>2, <2>3, InitTyping
<1>2. I /\ [Next]_vars => I'
  BY Typing, ConclusionsStep, RealStep
<1> QED BY <1>1, <1>2, PTL DEF Spec

-----------------------------------------------------------------------------
(* Verification, and the refinement of Trial.                              *)

LEMMA AlteredMembers ==
  ASSUME Judged
  PROVE  /\ "metadata" \in Altered <=> experiment # record.experiment
         /\ "oracle" \in Altered <=> oracle # record.experiment
         /\ "baseline" \in Altered <=> baseline.source # Base
         /\ "evaluation" \in Altered <=> evaluation # record.evaluation
         /\ "candidate" \in Altered <=> candidate.source # record.evaluation.patch
         /\ "patch" \in Altered <=> patch # record.evaluation.patch
         /\ "receipts" \in Altered <=> ReceiptsDiffer
BY DEF Altered

\* One comparison: what it covers is left out of doubt unless an error is found.
LEMMA TrustCompared ==
  ASSUME TypeOK, Trust, NEW to \in Verifying, NEW errors,
         proc.at \in Verifying, Raise(to, errors),
         UNCHANGED <<doubt, Altered, accepted>>,
         errors = {} => Compared(to) \cap Altered \subseteq Compared(proc.at)
  PROVE  Trust'
<1>1. proc'.at = to /\ proc'.errors = proc.errors \cup errors
  BY RaiseFields DEF TypeOK
<1>2. ASSUME proc'.errors = {} PROVE doubt \cap Compared(to) = {}
  BY <1>1, <1>2 DEF Trust
<1> QED BY <1>1, <1>2 DEF Trust

LEMMA CompareKeeps ==
  ASSUME UNCHANGED <<inputs, files, record>> PROVE UNCHANGED Altered
BY DEF Altered, Judged, ReceiptsDiffer, inputs, files

LEMMA TrustVerify == ASSUME TypeOK, Order, Trust, VerifyStep PROVE Trust'
<1>0. UNCHANGED Altered
  BY VerifyFields, CompareKeeps
<1>1. CASE Verify
  <2>1. proc'.at = "verifyInputs" /\ doubt' = Altered /\ ~accepted'
    BY <1>1, GotoFields DEF Verify, TypeOK
  <2> QED BY <1>0, <2>1 DEF Trust, Compared, Verifying
<1>2. CASE ReadInputs("verifyInputs", "verifyEvaluation")
  <2>1. proc.at = "verifyInputs" /\ Judged /\ UNCHANGED <<doubt, accepted>>
    BY <1>2 DEF ReadInputs, At, Order, Verifying, history
  <2>2. PICK errors :
          /\ Raise("verifyEvaluation", errors)
          /\ errors = {} => /\ experiment = record.experiment /\ oracle = record.experiment
                            /\ baseline.source = Base
    BY <1>2 DEF ReadInputs
  <2>3. errors = {} => Compared("verifyEvaluation") \cap Altered = {}
    BY <2>1, <2>2, AlteredMembers DEF Compared
  <2> QED BY <1>0, <2>1, <2>2, <2>3, TrustCompared DEF Verifying
<1>3. CASE VerifyPaths
  <2>1. proc.at = "verifyPaths" /\ UNCHANGED <<doubt, accepted>>
    BY <1>3 DEF VerifyPaths, At, history
  <2>2. PICK errors : Raise("verifyDiff", errors)
    BY <1>3 DEF VerifyPaths
  <2>3. Compared("verifyDiff") = Compared("verifyPaths")
    BY DEF Compared
  <2> QED BY <1>0, <2>1, <2>2, <2>3, TrustCompared DEF Verifying
<1>4. CASE CompareEvidence
  <2>1. UNCHANGED <<doubt, accepted>>
    BY <1>4 DEF CompareEvidence, Compare, history
  <2>2. ASSUME NEW from \in Verifying, NEW to \in Verifying, NEW wrong, Compare(from, to, wrong),
               ~wrong => Compared(to) \cap Altered \subseteq Compared(from)
        PROVE  Trust'
    <3>1. proc.at = from /\ proc.at \in Verifying
      BY <2>2 DEF Compare, At
    <3>2. PICK errors : Raise(to, errors) /\ (errors = {} => ~wrong)
      BY <2>2 DEF Compare
    <3> QED BY <1>0, <2>1, <2>2, <3>1, <3>2, TrustCompared
  <2>3. proc.at \in Verifying => Judged
    BY DEF Order
  <2>4. CASE Compare("verifyEvaluation", "verifyPaths",
                     \/ evaluation # record.evaluation
                     \/ record.evaluation.oracle # record.experiment)
    <3>1. Judged
      BY <2>3, <2>4 DEF Compare, At, Verifying
    <3>2. Compared("verifyPaths") = Compared("verifyEvaluation") \cup {"evaluation"}
      BY DEF Compared
    <3>3. evaluation = record.evaluation =>
            Compared("verifyPaths") \cap Altered \subseteq Compared("verifyEvaluation")
      BY <3>1, <3>2, AlteredMembers
    <3> QED BY <2>2, <2>4, <3>3 DEF Verifying
  <2>5. CASE Compare("verifyDiff", "verifyPatch", candidate.source # record.evaluation.patch)
    <3>1. Judged
      BY <2>3, <2>5 DEF Compare, At, Verifying
    <3>2. Compared("verifyPatch") = Compared("verifyDiff") \cup {"candidate"}
      BY DEF Compared
    <3>3. candidate.source = record.evaluation.patch =>
            Compared("verifyPatch") \cap Altered \subseteq Compared("verifyDiff")
      BY <3>1, <3>2, AlteredMembers
    <3> QED BY <2>2, <2>5, <3>3 DEF Verifying
  <2>6. CASE Compare("verifyPatch", "verifyReceipts", patch # record.evaluation.patch)
    <3>1. Judged
      BY <2>3, <2>6 DEF Compare, At, Verifying
    <3>2. Compared("verifyReceipts") = Compared("verifyPatch") \cup {"patch"}
      BY DEF Compared
    <3>3. patch = record.evaluation.patch =>
            Compared("verifyReceipts") \cap Altered \subseteq Compared("verifyPatch")
      BY <3>1, <3>2, AlteredMembers
    <3> QED BY <2>2, <2>6, <3>3 DEF Verifying
  <2>7. CASE Compare("verifyReceipts", "answer",
                     \/ ReceiptsDiffer
                     \/ Improved /\ CheckErrors(record.evaluation.checks) # {})
    <3>1. Judged
      BY <2>3, <2>7 DEF Compare, At, Verifying
    <3>2. Compared("answer") = Compared("verifyReceipts") \cup {"receipts"}
      BY DEF Compared, Artefacts
    <3>3. ~ReceiptsDiffer =>
            Compared("answer") \cap Altered \subseteq Compared("verifyReceipts")
      BY <3>1, <3>2, AlteredMembers
    <3> QED BY <2>2, <2>7, <3>3 DEF Verifying
  <2> QED BY <1>4, <2>4, <2>5, <2>6, <2>7 DEF CompareEvidence
<1>5. CASE Answer
  BY <1>5 DEF Answer, Idle, Trust, Verifying
<1> QED
  BY <1>1, <1>2, <1>3, <1>4, <1>5 DEF VerifyStep

LEMMA NotVerifying ==
  ASSUME TypeOK, FreezeStep \/ EvaluateStep \/ TakeUp \/ SaveRecord
  PROVE  /\ proc.at \notin Verifying /\ proc'.at \notin Verifying
         /\ UNCHANGED <<doubt, accepted>>
<1>1. CASE FreezeStep
  <2>1. proc.at \notin Verifying
    BY <1>1 DEF FreezeStep, Freeze, ReadSource, CopyOracle, AddBaseline,
                AddCandidate, LinkDependencies, SaveExperiment, At, Verifying
  <2> QED BY <1>1, <2>1, FreezeFields DEF Idle, Freezing, Verifying
<1>2. CASE EvaluateStep
  <2>1. proc.at \notin Verifying /\ UNCHANGED <<doubt, accepted>>
    BY <1>2 DEF EvaluateStep, Evaluate, ReadInputs, Paths, Before, WritePatch,
                TestDeadline, Launch, Build, Exit, Break, DiffAgain, SaveEvaluation, At,
                Verifying, history
  <2>2. CASE Evaluate \/ Launch \/ Build \/ SaveEvaluation
    BY <2>1, <2>2, GotoFields DEF Evaluate, Launch, Run, Build, SaveEvaluation, Idle,
                                  Verifying, TypeOK
  <2>3. CASE Before
    BY <2>1, <2>3 DEF Before, Verifying, TypeOK, Process
  <2>4. CASE ReadInputs("inputs", "paths") \/ ReadInputs("inputsAgain", "pathsAgain")
    BY <2>1, <2>4, RaiseFields DEF ReadInputs, Verifying, TypeOK
  <2>5. CASE \/ Paths("paths", "diff") \/ Paths("pathsAgain", "diffAgain")
             \/ DiffAgain \/ WritePatch
    BY <2>1, <2>5, RaiseFields, GotoFields
       DEF Paths, DiffAgain, WritePatch, Verifying, TypeOK
  <2>6. CASE TestDeadline \/ Exit \/ Break
    <3>1. CASE \E result \in Outcomes \cup {Null}, errors \in SUBSET Errors :
                 Conclude(result, errors)
      BY <2>1, <3>1, ConcludeFields DEF Verifying, TypeOK
    <3>2. CASE Goto("launch")
      BY <2>1, <3>2, GotoFields DEF Verifying, TypeOK
    <3>3. CASE TestDeadline
      BY <3>1, <3>2, <3>3 DEF TestDeadline, Errors
    <3>4. CASE Exit \/ Break
      BY <3>1, <3>4 DEF Exit, Break, TypeOK, Outcomes
    <3> QED BY <2>6, <3>3, <3>4
  <2> QED BY <1>2, <2>2, <2>3, <2>4, <2>5, <2>6 DEF EvaluateStep
<1>3. CASE TakeUp \/ SaveRecord
  BY <1>3 DEF TakeUp, SaveRecord, At, Idle, Verifying, history
<1> QED BY <1>1, <1>2, <1>3

LEMMA TrustStep ==
  ASSUME TypeOK, Order, Trust, [Next]_vars PROVE Trust'
<1>1. CASE FreezeStep \/ EvaluateStep \/ TakeUp \/ SaveRecord
  BY <1>1, NotVerifying DEF Trust
<1>2. CASE VerifyStep
  BY <1>2, TrustVerify
<1>3. CASE Stop
  BY <1>3 DEF Stop, Trust, Idle, Verifying
<1>4. CASE DeadlinePasses \/ UNCHANGED vars
  <2>1. UNCHANGED <<proc, doubt, accepted, inputs, files, record>>
    BY <1>4 DEF DeadlinePasses, vars, history
  <2> QED BY <2>1, CompareKeeps DEF Trust
<1>5. CASE Edit
  BY <1>5, EditFields DEF Trust
<1> QED BY <1>1, <1>2, <1>3, <1>4, <1>5 DEF Next, World

Genuine == Judged /\ record.evaluation = written

\* A step that keeps launches and record is one in which things may be altered.
LEMMA AlterRefines ==
  ASSUME UNCHANGED <<launches, accepted>>,
         UNCHANGED record \/ (~Judged /\ ~Judged'), UNCHANGED written \/ ~Judged,
         proc.at \in Verifying <=> proc'.at \in Verifying,
         doubt' = doubt \cap Altered'
  PROVE  Abstract!Alter
<1>1. (proc.at \in Verifying)' = (proc.at \in Verifying)
  OBVIOUS
<1>2. Genuine' = Genuine
  <2>1. CASE UNCHANGED record
    BY <2>1 DEF Genuine, Judged
  <2>2. CASE ~Judged /\ ~Judged'
    <3>1. Genuine' = FALSE /\ Genuine = FALSE
      BY <2>2 DEF Genuine
    <3> QED BY <3>1
  <2> QED BY <2>1, <2>2
<1>3. (IF Judged THEN record.evaluation.status ELSE "none")' =
        (IF Judged THEN record.evaluation.status ELSE "none")
  BY DEF Judged
<1>4. Altered' \in SUBSET Artefacts
  BY DEF Altered, Artefacts
<1> QED BY <1>1, <1>2, <1>3, <1>4 DEF Abstract!Alter, Genuine

LEMMA LaunchRefines ==
  ASSUME TypeOK, Order, Progress, Trust, Launch
  PROVE  (\E c \in Checks : Abstract!Launch(c)) \/ Abstract!Alter
<1>1. /\ ~Judged /\ ~Judged' /\ UNCHANGED <<record, written, doubt, accepted>>
      /\ proc.at \notin Verifying /\ proc'.at \notin Verifying
  BY NotVerifying DEF Launch, Order, At, Evaluating, EvaluateStep, Judged
<1>2. CASE UNCHANGED launches
  BY <1>1, <1>2, AlterRefines DEF Trust
<1>3. CASE Run /\ receipts[proc.check] = Null
  <2>1. proc.check \in Checks /\ launches[proc.check] = 0
    BY <1>3 DEF TypeOK, Process, Progress
  <2>2. launches' = [launches EXCEPT ![proc.check] = 1]
    BY <1>3, <2>1 DEF Run, TypeOK
  <2>3. Altered = {} /\ Altered' = {}
    BY <1>1 DEF Altered
  <2>4. (proc.at \in Verifying)' = (proc.at \in Verifying)
    BY <1>1
  <2>5. Genuine' = Genuine
    <3>1. Genuine' = FALSE /\ Genuine = FALSE
      BY <1>1 DEF Genuine
    <3> QED BY <3>1
  <2>6. Abstract!Launch(proc.check)
    BY <1>1, <2>1, <2>2, <2>3, <2>4, <2>5 DEF Abstract!Launch, Genuine
  <2> QED BY <2>1, <2>6
<1> QED BY <1>2, <1>3 DEF Launch

\* What run.json takes up, from the evaluator or from disk, is the verdict.
LEMMA JudgeRefines ==
  ASSUME TypeOK', ~Judged, Judged', BlockedNeverJudged, Progress,
         UNCHANGED <<launches, written, doubt, accepted>>,
         proc.at \notin Verifying, proc'.at \notin Verifying
  PROVE  Abstract!Judge
<1>1. record'.evaluation \in Evaluation /\ record'.evaluation.status \in Statuses
  BY DEF TypeOK, Judged, Evaluation
<1>2. Genuine' \in BOOLEAN
  BY DEF Genuine
<1>3. ASSUME Genuine', record'.evaluation.status = "improved"
      PROVE  \A c \in Checks : launches[c] = 1
  <2>1. written # Null /\ written.status = "improved"
    BY <1>3 DEF Genuine, Judged
  <2>2. written.checks = <<"pass", "fail", "pass", "pass">>
    BY <2>1 DEF BlockedNeverJudged
  <2>3. \A c \in Checks : written.checks[c] \in Outcomes
    BY <2>2 DEF Checks, Outcomes
  <2>4. \A c \in Checks : receipts[c] # Null
    BY <2>1, <2>3, NullAssumption DEF Progress
  <2> QED BY <2>4 DEF Progress
<1>4. Altered' \in SUBSET Artefacts
  BY DEF Altered, Artefacts
<1>5. (proc.at \in Verifying)' = (proc.at \in Verifying)
  OBVIOUS
<1> QED
  BY <1>1, <1>2, <1>3, <1>4, <1>5 DEF Abstract!Judge, Abstract!Verdicts, Statuses, Genuine

LEMMA RecordRefines ==
  ASSUME TypeOK, TypeOK', Order, Progress, Trust, BlockedNeverJudged, TakeUp \/ SaveRecord
  PROVE  [Abstract!Next]_Abstract!vars
<1>1. /\ ~Judged /\ UNCHANGED <<launches, written, doubt, accepted>>
      /\ proc.at \notin Verifying /\ proc'.at \notin Verifying
  BY NotVerifying DEF TakeUp, SaveRecord, Readable, Order, At, history
<1>2. CASE Judged'
  BY <1>1, <1>2, JudgeRefines DEF Abstract!Next
<1>3. CASE ~Judged'
  BY <1>1, <1>3, AlterRefines DEF Trust, Abstract!Next
<1> QED BY <1>2, <1>3

LEMMA EvaluateRefines ==
  ASSUME TypeOK, Order, Progress, Trust, FreezeStep \/ EvaluateStep
  PROVE  [Abstract!Next]_Abstract!vars
<1>0. /\ proc.at \notin Verifying /\ proc'.at \notin Verifying
      /\ UNCHANGED accepted /\ doubt = {} /\ doubt' = {}
  BY NotVerifying DEF Trust
<1>1. CASE Launch
  BY <1>1, LaunchRefines DEF Abstract!Next
<1>2. CASE Evaluate
  <2>1. ~Judged /\ ~Judged' /\ UNCHANGED <<launches, written>>
    BY <1>2 DEF Evaluate, Readable, Reconciled, Judged
  <2> QED BY <1>0, <2>1, AlterRefines DEF Abstract!Next
<1>3. CASE FreezeStep
  BY <1>0, <1>3, FreezeFields, AlterRefines DEF Abstract!Next
<1>4. CASE EvaluateStep /\ ~Launch /\ ~Evaluate
  <2>1. UNCHANGED <<launches, record>>
    BY <1>4 DEF EvaluateStep, ReadInputs, Paths, Before, WritePatch, TestDeadline,
                Build, Exit, Break, DiffAgain, SaveEvaluation, history
  <2>2. ~Judged
    BY <1>4 DEF EvaluateStep, ReadInputs, Paths, Before, WritePatch, TestDeadline,
                Build, Exit, Break, DiffAgain, SaveEvaluation, Order, At, Evaluating
  <2> QED BY <1>0, <2>1, <2>2, AlterRefines DEF Abstract!Next
<1> QED BY <1>1, <1>2, <1>3, <1>4

LEMMA VerifyRefines ==
  ASSUME TypeOK, Order, Trust, VerifyStep
  PROVE  [Abstract!Next]_Abstract!vars
<1>0. UNCHANGED <<launches, record, written, Altered, Genuine>>
  <2>1. UNCHANGED <<launches, record, written, Altered>>
    BY VerifyFields, CompareKeeps
  <2>2. Genuine' = Genuine
    BY <2>1 DEF Genuine, Judged
  <2> QED BY <2>1, <2>2
<1>1. CASE Verify
  <2>1. proc.at \notin Verifying /\ proc'.at \in Verifying /\ Judged
    BY <1>1, GotoFields DEF Verify, At, Verifying, TypeOK
  <2>2. doubt' = Altered /\ UNCHANGED accepted
    BY <1>1 DEF Verify
  <2>3. record.evaluation.status # "none"
    BY <2>1 DEF TypeOK, Judged, Evaluation, Statuses
  <2>4. (proc.at \in Verifying)' = TRUE
    BY <2>1
  <2> QED BY <1>0, <2>1, <2>2, <2>3, <2>4 DEF Abstract!Verify, Abstract!Next, Genuine, Judged
<1>2. CASE ReadInputs("verifyInputs", "verifyEvaluation") \/ VerifyPaths
           \/ CompareEvidence
  <2>1. proc.at \in Verifying /\ UNCHANGED <<doubt, accepted>>
    BY <1>2 DEF ReadInputs, VerifyPaths, CompareEvidence, Compare, At, Verifying,
                history
  <2>2. proc'.at \in Verifying
    BY <1>2, RaiseFields DEF ReadInputs, VerifyPaths, CompareEvidence, Compare,
                             Verifying, TypeOK
  <2> QED BY <1>0, <2>1, <2>2, AlterRefines DEF Trust, Abstract!Next
<1>3. CASE Answer
  <2>1. /\ proc.at \in Verifying /\ proc'.at \notin Verifying /\ doubt' = {}
        /\ ~accepted /\ Judged
    BY <1>3 DEF Answer, At, Trust, Order, Idle, Verifying
  <2>2. (proc.at \in Verifying)' = FALSE
    BY <2>1
  <2>3. CASE proc.errors = {} /\ Improved
    <3>1. doubt = {}
      BY <1>3, <2>1, <2>3 DEF Answer, At, Trust, Compared, TypeOK
    <3>2. accepted' = TRUE
      BY <1>3, <2>3, Zenon DEF Answer
    <3>3. Abstract!Accept
      BY <1>0, <2>1, <2>2, <2>3, <3>1, <3>2 DEF Abstract!Accept, Judged, Improved, Genuine
    <3> QED BY <3>3 DEF Abstract!Next
  <2>4. CASE ~(proc.errors = {} /\ Improved)
    <3>1. accepted' = FALSE /\ accepted = FALSE
      BY <1>3, <2>1, <2>4 DEF Answer, TypeOK
    <3>2. accepted' = accepted
      BY <3>1, Zenon
    <3>3. Abstract!GiveUp
      BY <1>0, <2>1, <2>2, <3>2 DEF Abstract!GiveUp, Genuine, Judged
    <3> QED BY <3>3 DEF Abstract!Next
  <2> QED BY <2>3, <2>4
<1> QED BY <1>1, <1>2, <1>3 DEF VerifyStep

LEMMA WorldRefines ==
  ASSUME TypeOK, Order, Trust, World
  PROVE  [Abstract!Next]_Abstract!vars
<1>1. CASE Stop
  <2>1. UNCHANGED <<launches, accepted, record, written>>
    BY <1>1 DEF Stop
  <2>2. proc'.at \notin Verifying /\ doubt' = {}
    BY <1>1 DEF Stop, Idle, Verifying
  <2>3. CASE proc.at \in Verifying
    <3>1. UNCHANGED <<inputs, files, record>>
      BY <1>1, <2>3 DEF Stop, At, Verifying, files
    <3>2. UNCHANGED Altered
      BY <3>1, CompareKeeps
    <3>3. (proc.at \in Verifying)' = FALSE
      BY <2>2
    <3>4. Genuine' = Genuine
      BY <2>1 DEF Genuine, Judged
    <3>5. Abstract!GiveUp
      BY <2>1, <2>2, <2>3, <3>2, <3>3, <3>4 DEF Abstract!GiveUp, Genuine, Judged
    <3> QED BY <3>5 DEF Abstract!Next
  <2>4. CASE proc.at \notin Verifying
    BY <2>1, <2>2, <2>4, AlterRefines DEF Trust, Abstract!Next
  <2> QED BY <2>3, <2>4
<1>2. CASE DeadlinePasses
  <2>1. UNCHANGED <<proc, inputs, files, record, launches, written, doubt, accepted>>
    BY <1>2 DEF DeadlinePasses, history
  <2>2. UNCHANGED Altered
    BY <2>1, CompareKeeps
  <2> QED BY <2>1, <2>2, AlterRefines DEF Trust, Abstract!Next
<1>3. CASE Edit
  BY <1>3, EditFields, AlterRefines DEF Abstract!Next
<1> QED BY <1>1, <1>2, <1>3 DEF World

\* The experiment implements Trial: each check is launched once over all
\* attempts, the one recorded verdict is final, one that the evaluator reached
\* claims an improvement after all four checks only, and what is accepted was, as
\* far as Git and the digests tell, intact at some moment of its verification.
THEOREM ImplementsTrial == Spec => TrialSpec
<1> DEFINE I == TypeOK /\ Order /\ Progress /\ Conclusions /\ Trust /\ BlockedNeverJudged
<1>1. Init => I
  <2> SUFFICES ASSUME Init PROVE I
    OBVIOUS
  <2>1. proc.at = "idle" /\ \A c \in Checks : proc.checks[c] = Null
    BY DEF Init, Idle
  <2>2. Progress /\ Conclusions /\ BlockedNeverJudged
    BY <2>1 DEF Init, Progress, Conclusions, BlockedNeverJudged
  <2>3. Trust
    BY <2>1 DEF Init, Trust, Verifying
  <2> QED BY <2>2, <2>3, InitTyping
<1>2. I /\ [Next]_vars => I'
  BY Typing, ProgressStep, ConclusionsStep, TrustStep
<1>3. Init => Abstract!Init
  BY DEF Init, Idle, Verifying, Judged, Altered, Abstract!Init
<1>4. I /\ I' /\ [Next]_vars => [Abstract!Next]_Abstract!vars
  <2> SUFFICES ASSUME I, I', [Next]_vars PROVE [Abstract!Next]_Abstract!vars
    OBVIOUS
  <2>1. CASE FreezeStep \/ EvaluateStep
    BY <2>1, EvaluateRefines
  <2>2. CASE TakeUp \/ SaveRecord
    BY <2>2, RecordRefines
  <2>3. CASE VerifyStep
    BY <2>3, VerifyRefines
  <2>4. CASE World
    BY <2>4, WorldRefines
  <2>5. CASE UNCHANGED vars
    <3>1. UNCHANGED <<proc, inputs, files, record, launches, written, doubt, accepted>>
      BY <2>5 DEF vars, history
    <3>2. UNCHANGED Altered
      BY <3>1, CompareKeeps
    <3> QED BY <3>1, <3>2, AlterRefines DEF Trust, Abstract!Next
  <2> QED BY <2>1, <2>2, <2>3, <2>4, <2>5 DEF Next
<1> QED BY <1>1, <1>2, <1>3, <1>4, PTL DEF Spec, TrialSpec, Abstract!Spec
=============================================================================
