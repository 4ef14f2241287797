# DreamMachine, verified

TLA+ models of the parts of DreamMachine that keep state, the TLC runs that
check them on small instances, and theorems about them that TLAPS checks for
every value of the constants. Paths below are relative to the repository;
`PROJECT.json` maps every definition to the lines it models.

To check a module: `tlc -config MCX_run.cfg MCX`. To check proofs:
`tlapm XProofs.tla`.

## The system

DreamMachine is a laboratory that improves sleep-related software under
evidence, and the parts around it. Nothing in it is distributed; what makes it
hard is processes that are killed between two writes, promise queues that
interleave at every `await`, files that other processes read, and a controller
whose clock may jump past several deadlines in one call.

| Part | State | Operations | Hard because |
| --- | --- | --- | --- |
| Edge simulator, `packages/edge-sim` | clock, arm state, evidence, challenges, replay caches, dose record, pending cue, receipts | `advance`, `setSnapshot`, `heartbeat`, `simulatePhysicalArm`, `simulatePhysicalConfirm`, `issueChallenge`, `submit`, `mute`, `endSession`, acknowledgement, maintenance, `revokeConsent`, `watchdogExpired`, `exportSimulatedDoseCheckpoint`, `reboot`, `dispose` | one clock call crosses starts, ends and expiries that must act in order; caches are emptied by a reboot, dose must not be |
| Research laboratory, `scripts/research/core.mjs`, `cli.mjs` | `run.json` per cycle, `experiment.json`, `evaluation.json`, `controller.lock`, reports, ledger, ADRs, lessons | `prepare`, `search`, `freeze`, `evaluate`, `finish`, `abandon`, `repair`, `disposition`, `status`, `recall`, `verify` | a command is a dozen writes and may die between any two; some writes are not atomic; readers hold the memory lock; HEAD moves |
| Research memory, `scripts/research/memory.mjs` | `records.json`, `.memory.lock`, per handle: records, native index, queue | `open`, `upsert`, `search`, `close` | index, memory and disk change one after the other and each may fail; a rename may be undone by a power failure |
| Dream memory, `packages/memory` | the flat file, the map of queues, per handle: nights | `openMemory`, `remember`, `recall`, `all` | several handles share a file and a queue that comes and goes |
| Experiment evidence, `scripts/research/experiment.mjs` | frozen oracle, two worktrees, `experiment.json`, logs and receipts, `evaluation.json` | `freezeExperiment`, `evaluateExperiment`, `verifyExperiment` | an agent may edit oracle, worktrees and evidence between any two readings; checks time out; an evaluator may be killed and started again |
| Discovery, `scripts/research/discovery.mjs` | per scan: request, answer, timer, result | `discoverPapers`, `parseFeed`, `filterRecentPapers` | a deadline races an answer that may lie about its length or end early |
| Cycle slots, `schedule.mjs` | the configured hours, the local clock | `cycleSlot` | months, leap years, hours that summer time skips or repeats |
| Ledger, `packages/ledger`, `ledger append` of the CLI | `LEDGER.md` | `parseLedger`, `appendRow`, `verifyLedger`, `learningSignals` | read, changed and written back in place, by nights that may overlap or die; a text may hold the column separator |
| Evidence freshness, `packages/witness/src/evidence-freshness.ts` | a policy file with its digest, the tree | `freshness stamp`, `freshness verify` | evidence collected on one tree is used on another, and both are read path by path |
| Evidence gates, `packages/witness`, `scripts/ruos-evaluation.mjs`, `packages/compile/src/harness-optimizer.ts` | none: functions of a frozen policy and the evidence | claim, discovery, security patch, reconstruction, completion, replay, stamp, ruOS pair, harness patch | evidence repeats, contradicts and grows, policies are amended once outcomes are seen |
| Missions, `scripts/mission.mjs`, `mission-evidence.mjs` | a bundle's directory, the working tree, HEAD | `mission run`, `mission verify` | the tree moves around the check, the run may die before its manifest, files may be altered |
| Automerge guard, `scripts/automerge-guard.mjs` | none | event, three readings, verdict | a pull request is pushed to between two readings |
| ADRs, `adr.mjs` | the ADR index | render, index | the index is built from a directory that changes |
| Edge ticket codec, `packages/edge-contracts` | none | encode, decode, sign, URIs | canonical forms |
| Compile, schedule bodies, CLI, TUI | configuration files | generate text, parse it back, run commands | quoting and round trips |
| Benchmarks, fixtures, release scripts | reports | measure, package | - |

How they interact. The laboratory opens the research memory for each lesson, search and
status, behind the memory's own lock; it freezes and evaluates through `experiment.mjs`,
writes the ADRs through `adr.mjs` and takes its sources from `discovery.mjs`. The edge
simulator decodes its tickets with `edge-contracts` and is otherwise on its own. The CLI
drives `compile`, `schedule`, `memory`, `ledger` and `witness` by calls; `ledger append` and
the two `freshness` commands are sequences of reads and writes of files that others change.
`mission` runs the repository check between two readings of the tree. A night's slot
(`schedule.mjs`) names its cycle, and so limits it to one. Nothing else shares state.

What makes each part correct:

- edge simulator: the gate opens only inside the window of an accepted cue on an armed
  controller, arming does not outlive evidence, stops stay latched, nothing authorises
  twice, dose is conserved, spaced and bounded, receipts tell the truth;
- laboratory: one command and one unfinished cycle at a time, records that only move
  forward, an ACCEPT that is earned, derived files that agree with records, and a cycle that
  completes unless its own files stand in its way;
- research memory: one owner, answers from what is on disk, an index that never holds an
  uncommitted record, acknowledged writes that survive;
- dream memory: one call at a time on a file, an append that lands once or not at all, a log
  that is never rewritten;
- experiments: an improvement is real, blocked evidence is no rejection, checks run once,
  nothing altered since it was recorded is accepted;
- discovery: a scan that calls itself complete has read everything, in time;
- slots: the slot due is the last one the clock has passed;
- ledger: a night that succeeded is in it, once and in order, and what is learnt from it is
  true;
- freshness: fresh means unchanged, and unchanged means fresh;
- gates: a refusal is final but for the clock, what was anchored holds for that and nothing
  else, and a receipt holds until its deadline;
- missions and the guard: a decision rests on the tree it names.

## Modules

| Module | Models | Abstract specification | Proofs |
| --- | --- | --- | --- |
| `SafetyController` | edge simulator | `SafetyGate` | `SafetyControllerProofs`, `SafetyHistoryProofs` |
| `ResearchLab` | laboratory controller | `ResearchCycle` | `ResearchLabProofs` |
| `ResearchMemory` | research memory | `MemoryStore` | `ResearchMemoryProofs` |
| `Experiment` | experiment evidence | `Trial` | `ExperimentProofs` |
| `FlatMemory` | dream memory | `NightLog` | `FlatMemoryProofs` |
| `Freshness` | `freshness stamp` and `verify` | - | `ToolsProofs` |
| `Mission` | missions and their bundles | - | `ToolsProofs` |
| `Ledger` | ledger, its signals, `ledger append` | - | `ToolsProofs` |
| `AutomergeGuard` | automerge guard | - | `ToolsProofs` |
| `EvidenceGates` | the other gates of `witness`, ruOS, harness patches | - | `ToolsProofs` |
| `Discovery` | the bounded scan | - | `ToolsProofs` |
| `Schedule` | cycle slots | - | `ToolsProofs` |

The first five have an `MC` module each with the definitions their configurations need, the
seven tools share `MCTools` and have one module of
proofs with a part for each.
`DataInduction` holds the principles of induction these proofs rest on. Comments
that begin with *Slip* stand before operators that are not used by the
specifications: each is a plausible slip in the definition below it, and
`PROJECT.json` names the property that notices it.

### SafetyController

Every public method is synchronous, so each is one action that includes the
private calls it makes. The host is free: it may call anything in any order and
submit any ticket, again and again. A ticket is a record; `sound` stands for
everything about it that no later state can change (signature, device, policy,
fixed bounds). Rejections of all kinds have one effect and are one alternative.
`Advance` moves the clock by any amount and replays what the code does on the
way: health expiry, cue start, cue end, in that order of time. `cues` (every cue
accepted) and `rolledBack` (the host restored an older checkpoint) are history.

Clock, sequence numbers, boots, challenges and consent epochs are bounded by
`MaxUs`, `MaxSequence`, `MaxBoots`, `MaxChallenges`, `MaxEpoch`, and the age of
arriving observations by `MaxLag`.

| Run | Instance | Shows |
| --- | --- | --- |
| `gate` | one modality, clock 0..4, one challenge, any start and length of a cue, two snapshots, the clock driven | `ReceiptsOrdered`, `CueClosure`, `GateSpec`, `CueEnds` |
| `arm` | no acceptable ticket; a reboot, two consent epochs, readable and corrupt checkpoints | `ArmedIsHealthy`, `StandingToArm`, `StopIsLatched` |
| `dose` | three challenges, the second also answered under a used identity or sequence number, two boots, clock 0..5, window 3, two doses and two tickets remembered | `SingleUse`, `DoseConserved`, `CooldownSpacing`, `DoseBudget` |

The bounds are small because every comparison in the code is between two times,
or a counter and a capacity: the instances contain each order of start, end,
health expiry, cooldown and window, both caches full with a third ticket arriving, and one boot more than the
properties speak of. `arm` and `dose` have a `VIEW` without the receipts, which
no guard reads and none of their properties mentions. `dose` also has a
`CONSTRAINT`, `Refreshed`: snapshots and heartbeats come together and clean, and
disposed or muted states are not followed, since no cue is accepted in them and
the other two runs and the proofs cover them.
`CooldownSpacing` says at least the shorter of cooldown and rolling window,
because `freezePolicy` accepts a cooldown longer than the window and a dose leaves the
record when its window ends.

### ResearchLab

A caller is a process that runs one command in steps: one persistent write, or
one reading of shared state, each. `op[c]` is the place it has reached and the run
object it holds in memory, which may be older than the file. `Fail` is an exception
at a step, `Kill` a kill between two; a write in place may leave `Torn`. `Refuse`
stands for every check whose data the model leaves out. Readers (`status`, `recall`,
`verify`) take the memory lock only. Slots come due in order (`LastSlot`), HEAD moves up
to `LastCommit`, faults up to `MaxFaults`.

| Run | Instance | Shows |
| --- | --- | --- |
| `lab_locks` | two callers, readers, one cycle, two source queries, HEAD moves once, one fault, fair | `OneCommand`, `AdrsFresh`, `CycleCompletes` |
| `lab_cycles` | one caller, two cycles, HEAD moves once, one fault | `AcceptEarned`, `MaterializedIsDerived`, `CycleSpec` |
| `lab_head`, `lab_lessons` | the smallest that show the finding | violated, see below |

`ResearchCycle` has two of the laboratory's promises in its guards: a cycle begins
only when none is unfinished, and is accepted only while fewer than the limit await
review. `CycleSpec` therefore covers both. HEAD moves in `lab_cycles` so that the clause of
`AcceptEarned` on a cycle's own baseline has another one to tell it from.

Two callers are all that mutual exclusion distinguishes, since a third would
only repeat the second's wait; two cycles are needed for a backlog of one to be
exceeded and for a lesson to be passed on; one fault may fall anywhere, and what
a second adds to it is a command that repairs and fails in its turn, which the first fault of an
earlier command already shows to a later one.

### Experiment

`ResearchLab` knows an experiment by its verdict; `Experiment` opens it up. A worktree is
two things: its *source*, which Git sees, and its *outputs*, the files Git ignores. The
difference matters because the code's readings are Git's (`status`, `ls-files
--exclude-standard`, `diff`), while tests and oracle import the ignored `packages/*/dist`.
Building makes the outputs from the source (`Built`), which the regression command does
before its tests (`Build`) and the oracle's command does not; `Stray` outputs are those no
build puts right, such as a file that is left over, or one behind a link in `node_modules`.
`Green` and `Meets` say on which trees, source and outputs, the regression command and each version of
the oracle pass; `Eligible` which changes of the source the policy allows.

`proc` is the one process (the laboratory's lock admits no second) and what it holds in
memory; `record` is what `run.json` has taken up. `run.json` is written by the controller
only, but `experiment.json` and `evaluation.json` are read from disk again by every command
until an evaluation is recorded (`TakeUp`, `Evaluate`; `reconcile` of `core.mjs`), so until
then the comparison of the metadata is of a file with itself. The model does that: an oracle
altered together with the metadata that name its digest raises no error, and an evaluation
put on disk before the controller took one up is recorded as if it were the evaluator's.

Each reading the code awaits is a step of its own, except that `frozenErrors` reads the three
things it compares in one, as does `reconcile`, and a snapshot is two readings: paths and
HEAD, then the patch. A check runs from `Launch` to `Exit` or `Break`; `possible` collects
what it can have read meanwhile. `Stop` is a kill at any place, or a failing git command that
makes the call throw. Edits (`MaxEdits`) may hit the proposed oracle, the frozen one, source
and outputs of both worktrees, and the saved evidence; `Editable` bounds which of them the
first, the second and the third edit may be.

| Run | Instance | Shows |
| --- | --- | --- |
| `experiment` | three sources, two oracles, two edits of anything, a forged evaluation among them, and one more of the candidate, one kill or failed read, the deadline; of edits, fault and deadline three together (`Affordable`) | `ImprovedIsReal`, `BlockedNeverJudged`, `TrialSpec` |

Two edits are what something changed and changed back needs, and metadata altered together
with the oracle; the third is the change under test itself, before or after them. Three
sources are the unchanged one, the wanted one, and one that breaks a regression and still
meets the oracle. What more of each adds is covered by the theorems, which hold for any
number of edits and faults.

`ImprovedIsReal` says of an evaluation that claims an improvement that the saved patch,
*built*, passes the regressions and meets the oracle *the evaluation names*, and the base
commit does not. It excepts what no two of the code's readings can tell (`escaped`), and
without either exception TLC shows why it is needed:

- a source or the oracle changed *and changed back* while the evaluation ran;
- what Git ignores: outputs that are stray when the evaluation begins, or changed at all
  while it runs. Old or foreign outputs from before are covered, since the regression
  command, which comes first on each tree, builds them anew.

It does not say that the oracle named is the one that was frozen, because that is not so:
`experiment.json` and the oracle altered together before the evaluation pass, see the
observations below. `Trial` promises that each check is launched once over
all attempts, that the recorded verdict is final, that one the evaluator itself reached
(`genuine`) claims an improvement only after all four checks, and that an acceptance is given
only if nothing stood altered, compared with what was recorded, during the whole of its
verification. *Altered* means as far as Git and the digests tell: ignored files are not
among the things compared, and what was altered before it was taken up is what was recorded.

Checks are deterministic functions of the tree they read, and a build is one step: a build
of mixed sources needs an edit while it runs, which is drift or an exception above. Of the
metadata only the oracle's digest is kept, the other fields stay as they were frozen; edits
change files and do not delete them, and none creates `experiment.json` before the freeze.
The deadline of the laboratory's own record is the same instant and is not tested a second
time. A changed evaluation policy is one of the errors of the first reading. A grandchild
that leaves the process group of its check could keep its pipes open; the code waits for
them, and so no liveness is claimed.

### ResearchMemory

A handle is a record with the code's fields: records, index, `nativeDirty`,
`poisoned`, the queue, and the place its running operation has reached (`index`,
`write`, `sync`, `query`). Between two places callers may queue more, close, kill the
process or cut the power. The native index is abstracted to what it holds; a failed
insert or rebuild may leave any part of it (`Partial`). `recoverable` is the set of
contents a power failure may leave in `records.json`: a rename adds one, a
directory sync leaves the newest only.

| Run | Instance | Shows |
| --- | --- | --- |
| `memory` | two processes, two identifiers, two texts, a limit of one record, a queue of two, optional and required index, fair | `RecordsCurrent`, `IndexCurrent`, `WrittenSurvives`, `StoreSpec`, `CloseReleases` |
| `memory_retry` | one record, no index | violated, see below |

Two texts of one record distinguish an insert from a rebuild and an old record from a new
one, the second identifier meets the limit, and what several records add is proved rather
than enumerated; two queued operations are one running and one waiting when the first fails.
Not modelled: `close` failing to unlink the lock, the temporary file and the `.ruvector`
directory a kill leaves behind, which nothing reads, and Windows, where no directory is
synchronised.

### FlatMemory

`slot` is the entry of `diskQueues` for one path, `queue[q]` the calls of a queue object
that are not settled, `step[q]` where its running call is: before its load, loaded, before
the rename, before the directory sync. A memory that is not kept on disk shares neither file
nor queue and is left out. `nights`, `texts` and `storedBytes` of a handle are assigned
together in every step, so one variable stands for them. A power failure leaves any prefix
not shorter than `durable`: renames since the last sync each added one night at the end.
`acked` and `doubts` count, per night, the appends that resolved and those that were renamed
without their caller being told so; `MaxDoubts` bounds the latter.

| Run | Instance | Shows |
| --- | --- | --- |
| `flat` | two handles, two queue objects, two nights, two records, queue of two, fair | `AnswersCurrent`, `EachOnce`, `LogSpec`, `CapacityReturns` |

Two queue objects are enough to see a second one made while the first is in use.
The model has one process, as `packages/memory/README.md` requires.

### The tools: run `tools`

Seven small modules share one run, because they share no state: `part` is the one at work,
and a behaviour of `MCTools` is a behaviour of it. Everything ends (a guard decides, a scan
settles, the bounds are reached), so deadlock is not checked.

| Part | Instance | Shows |
| --- | --- | --- |
| `ledger` | two appends that may overlap, four rows in all of four kinds (merged, blocked, one with a pipe in its text and a date that names no day, one that names no direction), window 2 | `NightsKept`, `SignalsSeeNights` |
| `freshness` | two paths, two texts, nothing declared, both paths or one twice; two writes to the tree, a limit of one day, evidence of two days apart | `FreshMeansUnchanged`, `UntouchedIsFresh` |
| `guard` | pages of two files; four versions: protected on the second page, none, protected by its previous name, a single file; two changes of the pull request | `EligibleIsOneHead` |
| `mission` | two commits with one lockfile, and a tree of neither; two changes of tree, HEAD or bundle | `VerifiedEvidence` |
| `gates` | nine gates, three records each, policies that may be amended to one another; for ruOS a clock 0..4 set to any value, runs dated 0, 1 and 3, a time to live of two and a skew of one | `RefusalIsFinal`, `AnchorsBind`, `ReceiptHolds` |
| `papers` | revised, old, new and unsound papers, totals that agree and that do not, lengths that lie, two chunks at most, two results asked for and up to three sent | `ScanIsWhole` |
| `slots` | hours undefined, one, four, unsorted, repeated, past the end of the day; days around the ends of February (leap, not leap, 2100), of a month and of a year; 26 hours | `SlotFollowsClock` |

The nights of `ledger` and the texts and commits of `freshness` are interchangeable; TLC
uses that as symmetry, which is sound since no property of the run is a liveness property.

`Ledger`. An append reads the file, opens it for writing (which empties it) and writes it
back: three steps, between which another night's append may run, and after any of which it
may be killed; a read that fails counts as an empty ledger (`cli/src/index.ts:295`). A text
is the sequence of words its pipes separate, so that escaping and splitting are what the
code does: the split takes an escaped pipe for a column. `appended` (rows whose command
succeeded) and `calm` (no overlap that shows, no failed read and no kill that erased rows)
are history. `NightsKept` and `SignalsSeeNights` speak of calm nights only. What an overlap,
a failed read or a kill erases is gone, the code does nothing against it, and no property
could hold of it; what the two say is that nothing else loses or hides a night. Of the cells
of a row they speak only when none has a pipe (`Unpiped`). Both limits are among the
observations below.

`Freshness`. `StampBegin`, `StampRead` per path, `StampWrite`; `VerifyBegin`, `VerifyRead`
per path, `VerifyJudge`; the tree is written to between any two, and the policy file may be
edited or half written. `held` records what each path has held since a command began: a
stamp carries its history into the policy file, a verification takes it over. Two paths are
enough to have one change while the other is read.

`AutomergeGuard`. `Receive`, `ReadFirst`, `ReadPage`, `ReadSecond`; `Push` and `Relabel`
fall between them. `EligibleIsOneHead` excepts a version that was replaced and *restored*
between the two readings (`cameBack`), which no comparison of two readings can notice.

`Mission`. The run's readings (lockfile, HEAD, status) before and after the check are steps
of their own, then `npm sbom`, the audit, the bundle file by file and the manifest last.
`passedBy` collects the trees the check can have seen; `blurred` is true when the tree came
back to one of them between the readings, or HEAD moved between the two git commands of one
reading. Two changes are a change and its undoing.

`EvidenceGates`. A gate is a function of a policy, of the policy that was `frozen` before, and
of records; the ruOS gate also of the clock, with which it compares the dates of both runs.
`Submit` adds a record, `Amend` replaces the policy but not its anchor, `SetClock` sets the
clock, forward or back, and `Issue` makes a certificate, a replay plan, a stamp, or the
receipt of an accepted ruOS pair with its deadline. The properties are about sequences:

- `RefusalIsFinal`: under one policy and while the clock is not set back, no further record
  turns a refusal into a pass or an open question, or reopens a pass, and waiting passes no
  open question. Time does move two verdicts of the ruOS gate, and the property says exactly
  which: a run refused as *dated ahead* may be accepted once its time has come
  (`INVALID_TIMESTAMP`), and a pass, or a refusal that came of comparing the two runs, may
  become inconclusive once a run is *out of date* (`STALE_OBSERVATION`). Of a harness patch
  it speaks of the hard rejections only, since one refused for not improving enough may do
  so on more slices.
- `ReceiptHolds`: from its evaluation to its deadline a ruOS receipt holds at every reading
  of the clock, and past the deadline and the allowed skew at none. The skew is part of it
  because the deadline counts from the evaluation at the latest, while a run dated ahead goes
  out of date by its own date.
- `AnchorsBind`: what was issued verifies for the evidence it was issued for and no other.

`Discovery`. `Discover`, `Respond`, `ReadChunk`, `ReadEnd`, `RequestFails`, `Deadline`. The
request goes on after the deadline has won; `ScanIsWhole` requires that a complete scan was
settled by the answer, and states of its papers what `filterRecentPapers` is for, without
repeating how it sorts (`NamesNewest`). The server may send more entries than it was asked
for; `DiscoveryAssumption` says only what `parseFeed` makes sure of.

`Schedule`. The clock runs hour by hour and remembers the last slot it passed;
`SpringForward` and `FallBack` are the two shifts of summer time. `cycleSlot` computes from
the wall clock alone what the history remembers.

## Fairness

- `SafetyController`: weak fairness of the clock only (`CueEnds`): the code acts on time
  when the host advances it, and a host that stops its clock runs nothing.
- `ResearchLab`: a running command takes its next step and the lock of a dead process is
  removed by its owner (weak); the reader closes (weak). The agent that works a cycle is
  instructed to finish or abandon it, so it tries `abandon` again while that is possible
  (strong, since other commands may hold the lock in between).
- `ResearchMemory`: promises are settled, a handle being opened is opened or refused, a
  closing handle is released, a stale lock removed (weak each). The event loop gives the
  first three; the last is the operator's part, as the message of the lock says.
- `FlatMemory`: the running call of a queue goes on (weak), by the event loop.

No fairness is assumed of callers, faults or the network, and none at all of the tools: what
they promise is that they do not lie, and a deadline or a kill may end any of them.

## Proofs

What is proved holds for every value of the constants that satisfies the named
assumptions, which TLC evaluates in each run.

`SafetyControllerProofs`, from `PolicyAssumption` and the typing of tickets and
checkpoints: `TypeOK`; `ArmedIsHealthy`, `StandingToArm` and `GateAuthority`
together (`SafetyInv`), since the gate is safe because ARMED is, and ARMED is healthy
because every call that moves time cancels at the health deadline first;
`StopIsLatched` from the same invariant.

`SafetyHistoryProofs`, about sequences of calls:

- `SingleUse` by `SpentInv`, which says what the replay caches know of the past: a reboot
  empties them, so only the challenge counter, which it keeps, separates cues of different
  boots;
- `DoseConserved`, and `CooldownSpacing`, which needs it to know that the earlier cue was
  still on record when the later was accepted;
- `DoseBudget`: the cues of a window that are not the last of it stand, one by one, for doses
  on the record their acceptance was tested against (an injection that keeps durations), and
  a sum over them is no greater than the sum over the record;
- `ReceiptsOrdered`: what one advance finds out late is dated back, but each step of it only
  to an instant no earlier than the last receipt;
- `CueClosure`: whatever takes the pending cue away records its closing receipt, after which
  at most one more is recorded in the same call, so it is still there unless the policy
  retains one receipt only;
- `GateSpec`: the controller implements `SafetyGate`.

`ResearchMemoryProofs`: `TypeOK`, `OneWriter`, `RecordsCurrent`, `IndexCurrent`,
`WrittenSurvives` and `StoreSpec`. The invariant adds what a handle knows at each place of an
operation (`Sound`, `Current`): in the middle of a write the index is ahead of the records and dirty, after the rename the disk
is ahead of the records by the operation's record, and only a poisoned handle may disagree
for longer. One lemma (`OneChanges`) carries the lock argument: whoever changes the disk
owns the lock, and then nobody else is open. `WrittenSurvives` is proved of the abstract
step, once each concrete step is known to be one.

`ExperimentProofs`, from `ExperimentAssumption` and `NullAssumption`: `TypeOK`,
`BlockedNeverJudged`, `ImprovedIsReal` and `TrialSpec`. The invariant says which results the
process holds at each place (`Conclusions`), that every result has logs and every log one
launch (`Progress`), and that a verification without errors so far leaves no doubt about
what it has compared (`Trust`). `ImprovedIsReal` needs two more parts. `Seen`: the history
contains what the readings have seen, so an edit *back to it* is one that restores.
`Faithful`: as long as nothing has escaped and the sources and the oracle that later readings
still compare are as they were first read (`Steady`), a tree that passed its regressions is
a built one, and every result on it is that of the frozen inputs and the saved patch, built.
An edit that makes `Steady` true again therefore restores an input, which the property
excepts, or changed none. Where the regressions failed nothing is known of the tree, but
then the verdict is no improvement.

`FlatMemoryProofs`: `TypeOK`, `OneQueue`, `AnswersCurrent`, `Reopenable`, `EachOnce` and
`LogSpec`. The invariant adds what the list to be written is at each step. For `EachOnce` it
counts, per night (`Counted`): the copies in the part of the file no power failure can take
are those of appends that resolved, the copies beyond it those of appends that resolved,
were doubted, or are renamed and not yet answered (`Answering`); only one call is ever that
far, because a path has one queue.

`ResearchLabProofs`, from `LabAssumption` and `NullAssumption`: `OneCommand`,
`AcceptEarned`, `MaterializedIsDerived`, `AdrsFresh` and `CycleSpec`, for any number of
callers, slots, commits and faults. The invariant `LabInv` has these parts:

- `Mutex`: whoever is inside owns the lock, so that one command at a time writes;
- `Sound`: how the files of one cycle agree with its record in each stage, whoever was
  interrupted where;
- `Knows`: what the run object in memory is at each place of a command (`Holds`), in which
  stage the cycle then is (`InStage`) and what has been derived from it so far
  (`HasDerived`). Most of the invariant is here, since the object may be older or newer than
  the file and every write is taken from it;
- `OneActive` and `RoomLeft`: one unfinished cycle, and room for it to be accepted once it
  is frozen;
- `Stating` and `PrepareStated`: without faults, an ADR that does not state its record is
  owed by the command inside.

A step writes to one slot (`StepKeeps`), so each action is checked for that slot only. The
refinement shows every step to be a `Begin`, `Progress`, `Finish` or `Review` of
`ResearchCycle`, or to leave the status of all cycles alone.

`ToolsProofs`, from the assumptions of the seven tools:

- freshness, `FreshMeansUnchanged` and `UntouchedIsFresh`. The invariant says what each
  digest in flight knows of the history: what a command has noted, the path has held since
  the command began (`StampKnows`, `VerifyKnows`), and what a policy file is anchored to was
  held during the stamp that wrote it (`FileKnows`);
- missions, `VerifiedEvidence`. From the first status reading on, as long as nothing was
  blurred, the tree of the first commit is among those the check ran on, and being back at it
  means having never left (`Watched`); what the second reading concludes stays with the
  bundle (`CreatedSound`) and with what a trusted verification has read of it
  (`CheckingKnows`);
- guard, `EligibleIsOneHead`. The pages read are those of the version the guard expects for
  as long as the pull request shows it without having come back to it (`PagesHold`), and
  full pages that end in a short one are the whole diff;
- slots, `SlotFollowsClock`, which is its own invariant once dates are valid: hour by hour
  the slot due moves as the clock does, because the day before the day after is the day
  itself at every end of a month, and because an ascending list of up to 24 whole numbers
  that `scheduledHours` has accepted is one of a day;
- ledger, `NightsKept`. The invariant counts the commands that have emptied the file and
  hold rows of it: with none the file has every night, with one that command has, and a
  state with more rows in flight is `Doomed`, since some command in it can only end in a way
  that is not calm. Below it lie what escaping and splitting do to a text without a pipe.
  `SignalsSeeNights` follows for settled ledgers: row by row they read as the nights were
  given, so counts, windows and the newest date are those of the nights;
- discovery, `ScanIsWhole`. The invariant (`ScanInv`) says which answers can settle a scan as
  complete. The rest is about the filter: some latest version of every paper of the window is
  kept, one of each is, and what is kept has an order (induction over its subsets), so the
  choice the model makes exists, and its first `MaxResults` are the newest;
- gates, `AnchorsBind`, `RefusalIsFinal` and `ReceiptHolds`. For the first, what was issued was issued for
  records submitted (`GateInv`); a certificate's trace has no identifier twice, so what a
  claim cites does not depend on the order, and the steps of a valid trace ascend, so
  that a prefix, an anchor and a suffix that together are valid satisfy every separate
  condition of `finalizeAnchoredReplay`. For the second, one lemma per gate says what one
  record more can do: what is wrong stays wrong, what is covered stays covered, and
  where a pass needs the evidence to be exactly what was declared (discovery, ruOS) a
  record more repeats an entry or names none. It needs that the records of a ruOS observation are
  runs, assertions and cases, and nothing about scores, samples or latencies. Of time it
  needs one more lemma (`PairAges`): from one reading of the clock to a later one a verdict
  changes only as the property allows. The third follows from that, because the deadline is
  the time to live after the earliest of both dates and the evaluation (`DeadlineOf`).

`DataInduction`. The induction theorems of the library take an operator as parameter and
cannot be instantiated here; the same principles hold of sets: a set of numbers that has 0 and every
successor has them all, and a family of subsets that has a subset whenever it has everything
one element smaller has them all. Both are proved from the least element of a set of numbers,
and give what the proofs need of sums, concatenations and orders.

Only proved, and not checked by a run: `TypeOK` of four modules, `GateAuthority`,
`GateFollowsCue`, `OneWriter`, `OneQueue`, `Reopenable`. TLC has agreed with each of them
too, but the proofs make a run for them superfluous.

Only model-checked: liveness (`CueEnds`, `CycleCompletes`, `CloseReleases`,
`CapacityReturns`), which is out of the prover's reach. Every other property of a passing
run is stated by a theorem.

Proofs that failed for a good reason showed where a property had claimed too much and the
instance was too small to tell. The properties now say what the code does, and TLC meets the
last three cases:

- with a retention of one receipt, which `freezePolicy` accepts, a refused ticket that
  stops a cue replaces the closing receipt at once (`CueClosure`);
- `scheduledHours` also refuses an ascending list that leaves the day, `<<3, 25>>`
  (`SlotFollowsClock`);
- nights that name no direction are counted as none (`SignalsSeeNights`);
- an answer longer than asked for is cut, and then names the newest (`ScanIsWhole`).

## Findings

1. `lab_head`: HEAD may move between the check in `freeze` and the second reading in
   `freezeExperiment`; the record and the experiment then disagree for ever, and
   every command, `abandon` and the next `prepare` included, throws in `reconcile`.
2. `lab_lessons`: a reader that holds the memory lock while a cycle is materialized leaves
   its lesson out, and the next cycle is prepared without it, though the documentation says
   memory advances after every cycle.
3. `memory_retry`: after an uncertain commit, the retry the message asks for finds its
   record unchanged and is acknowledged without any sync.

Observations the modelling made on the way, which no run is spent on:

- `experiment.json` and `evaluation.json` are written in place. Cut short by a kill, either
  blocks every later command of the cycle as in 1: with `MaxFaults = 1` the instance of
  `lab_head` violates `AbandonPossible` without HEAD ever moving.
- A reading of the frozen inputs that fails (`frozenErrors`, `experiment.mjs:278`) is
  reported as an error before any check runs, and the evaluation is `rejected` rather than
  `inconclusive`. That is why `BlockedNeverJudged` speaks of checks only.
- `experiment.json` and the oracle altered together after the freeze and before the
  evaluation raise no error: `reconcile` (`core.mjs:93`) takes the metadata up from disk, so
  `frozenErrors` compares each with itself, and an oracle that was never frozen judges the
  improvement. `docs/RESEARCH-LOOP.md:126` speaks of "the same frozen external oracle". An
  invariant that the oracle an improvement names is the one that was frozen fails in the
  model with three edits.
- A ledger loses nights whose append had succeeded when a later append is killed after it
  opened the file, overlaps another, or fails to read (`packages/cli/src/index.ts:295`, which
  takes any failed read for an empty ledger).
- What Git ignores is outside every reading of an experiment, and the oracle imports it: a
  change of `packages/*/dist` while an evaluation runs, or anything there that a build does
  not put right, is seen by none (`escaped`).
- An `evaluation.json` put on disk before the controller took one up is recorded as it is
  (`genuine` of `Trial` keeps it apart).
- Ledger: an escaped pipe is split on all the same, so the columns after it shift (the
  comment in `splitRow`, `packages/ledger/src/index.ts:53`, says only unescaped pipes are
  split on); `ledger append` accepts dates that `ledger verify` rejects.
- `verifyClaimEvidence` anchors a manifest's assignments, not what it requires of them.
- `verifyCompletionCertificate` recomputes and compares digests; the readable fields beside
  them are not compared.
- A reconstruction manifest without entries is sufficient.
- A commit between `rev-parse` and `status` lets the source gate of a mission speak of two
  commits, and `npm sbom` reads the lockfile after the second reading; `blurred` and the
  field `sbom` of the model keep both apart.
- The anchor of a freshness policy is stored in the policy's own file.
- When a server sends as many entries as it announces and more than it was asked for, a scan
  drops some and does not call itself truncated.
- A harness patch without a holdout is inconclusive where it would otherwise be rejected for
  too little improvement.

## What is left

Modelled in part, or not at all, and why:

- Edge ticket codec: canonical encoding, decoding and signing of tickets are pure functions
  on strings. `SafetyController` uses what their success means (`TicketAssumption`). A model
  of the characters would repeat the code.
- Instance compiler, configuration, nightly schedule bodies: text generated from a
  configuration, without state or an order of steps; their tests compare whole outputs.
- ADRs: what is written and when is part of `ResearchLab` (`AdrOf`, `WriteAdr`); the layout
  is not.
- CLI and terminal interface: the commands with an order of steps to get wrong are in
  `Ledger` and `Freshness`; arguments, prompts and screens are input and output.
- Dream memory: the ranking of `selection.ts`, and the mode without a file, in which handles
  share nothing.
- Missions: seven of the artifacts are written as the three modelled ones are; gates with a
  fixed verdict, commands that only print, and `ci-software-evidence.mjs`, which only calls
  `createEvidenceBundle`.
- Harness optimizer: score, ranking of accepted patches, clusters of traces. RuOS: canonical
  JSON, the structure of screenshots, the digests of receipts, dates that are no numbers, and the preflight.
- Slots: the form of identifiers, and how `Intl` reads a time zone.
- Ledger: five of ten columns, statistics, score streaks, warnings.
- Benchmarks, fixtures and release scripts: they measure and package the rest.

Worth doing next: abstract specifications of the tools, beginning with an atomic append of
the ledger; the codec's round trip over a small alphabet.
