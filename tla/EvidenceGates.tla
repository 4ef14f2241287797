------------------------------ MODULE EvidenceGates ------------------------------
(***************************************************************************)
(* The evidence gates of packages/witness/src: claim receipts, discovery   *)
(* evidence, security patches, environment reconstruction, completion      *)
(* certificates, anchored trace replay and report stamps; the paired       *)
(* evaluation of ruOS (scripts/ruos-evaluation.mjs); and the verdict on a  *)
(* harness patch (packages/compile/src/harness-optimizer.ts).              *)
(*                                                                         *)
(* A gate is a function of a policy, frozen before the evidence is seen,   *)
(* and of the evidence.  Here evidence arrives one record at a time, as an *)
(* evaluator submits it, also records that repeat, contradict or do not    *)
(* belong; the policy may be amended after it was frozen; and what a gate  *)
(* issues for a part of the evidence is presented again with more of it.   *)
(* Of the gates only the ruOS pair reads a clock, which may also be set.   *)
(* A digest is the value it digests, in its canonical order; `anchored` is *)
(* the policy a gate compares the submitted one with.                      *)
(***************************************************************************)
EXTENDS Integers, SequencesExt

CONSTANTS
  PoliciesOf,           (* per gate: the policies that may be frozen       *)
  RecordsOf,            (* per gate: the records that may arrive           *)
  Baseline,             (* the observation a ruOS candidate is paired with *)
  Unissued,
  MaxEvidence,          (* bound: records submitted                        *)
  MaxClock              (* bound: the readings of the clock                *)

GateNames == {"claim", "discovery", "security", "environment",
              "completion", "replay", "report", "ruos", "harness"}

ASSUME GatesAssumption ==
  /\ DOMAIN PoliciesOf = GateNames /\ DOMAIN RecordsOf = GateNames
  /\ \A event \in RecordsOf["replay"] : event.step \in Int
  /\ \A p \in PoliciesOf["ruos"] : p.ttl \in Int /\ p.skew \in Int
  /\ \A record \in RecordsOf["ruos"] \cup ToSet(Baseline) :
       /\ record.kind \in {"run", "assertion", "case"}
       /\ record.arm \in {"baseline", "candidate"}
       /\ record.kind = "run" => record.timestamp \in Int /\ record.id = "run"
  /\ Baseline \in Seq(ToSet(Baseline))
  /\ MaxEvidence \in Nat /\ MaxClock \in Nat

VARIABLES
  gate,                 (* the gate of this behaviour                      *)
  policy,               (* the policy submitted with the evidence          *)
  frozen,               (* the policy whose digest was anchored            *)
  evidence,             (* the records submitted, in order                 *)
  issued,               (* a certificate, plan, stamp or receipt           *)
  clock                 (* Date.now() of the evaluator                     *)

gateVars == <<gate, policy, frozen, evidence, issued, clock>>

Repeats(records, Key(_)) ==
  \E i, j \in DOMAIN records : i # j /\ Key(records[i]) = Key(records[j])

-----------------------------------------------------------------------------
(* claim-receipt.ts.                                                       *)

Identity(record) == <<record.assignment, record.field>>

SoundClaim(p) == p.assignments # {} /\ p.required # {} /\ p.opened \subseteq p.required

\* Required fields that are absent, and those not opened.
MissingFields(p, records) ==
  {pair \in p.assignments \X p.required :
     ~\E r \in records : Identity(r) = pair /\ (pair[2] \in p.opened => r.opened)}

\* Of a claim only the assignments are anchored, not what it requires of them.
VerifyClaimEvidence(p, anchored, records) ==
  LET kept     == ToSet(records)
      terminal == {r.assignment : r \in {k \in kept : k.terminal}}
  IN  IF ~SoundClaim(p) \/ p.assignments # anchored.assignments
         \/ Repeats(records, Identity)
         \/ ~({r.assignment : r \in kept} \subseteq p.assignments) THEN "INVALID"
      ELSE IF p.terminal /\ ~(p.assignments \subseteq terminal) THEN "INCONCLUSIVE_COVERAGE"
      ELSE IF MissingFields(p, kept) # {} THEN "INCONCLUSIVE_SUFFICIENCY" ELSE "PASS"

-----------------------------------------------------------------------------
(* discovery-evidence.ts.                                                  *)

Criterion(record) == record.criterion

\* Slip: a later observation of a criterion replaces the earlier one.
EvaluateDiscoveryLatest(p, anchored, records) ==
  LET kept == {records[i] : i \in {j \in DOMAIN records :
                 \A k \in j + 1 .. Len(records) : Criterion(records[k]) # Criterion(records[j])}}
  IN  IF p # anchored \/ \E r \in kept : r.criterion \notin p.required THEN "INVALID"
      ELSE IF \E r \in kept : ~r.pass THEN "REJECTED"
      ELSE IF {r.criterion : r \in kept} # p.required THEN "INCONCLUSIVE" ELSE "PASS"

EvaluateDiscovery(p, anchored, records) ==
  LET kept == ToSet(records)
  IN  IF p.required = {} \/ p.minReplicates < 1 \/ p # anchored
         \/ Repeats(records, Criterion)
         \/ \E r \in kept : r.criterion \notin p.required \/ r.replicates < 1
      THEN "INVALID"
      ELSE IF \E r \in kept : ~r.pass \/ (p.independent /\ ~r.independent) THEN "REJECTED"
      ELSE IF \/ {r.criterion : r \in kept} # p.required
              \/ \E r \in kept : r.replicates < p.minReplicates
      THEN "INCONCLUSIVE" ELSE "PASS"

-----------------------------------------------------------------------------
(* security-patch.ts.                                                      *)

Case(record) == <<record.suite, record.id>>

\* Cases of the frozen universe without a result, with a failed one, and
\* results of no case; the three single checks count as one.
SecurityReasons(p, records) ==
  {<<"missing", case>> : case \in p.cases \ {Case(r) : r \in ToSet(records)}}
  \cup {<<"failed", Case(r)>> : r \in {k \in ToSet(records) : ~k.passed /\ Case(k) \in p.cases}}
  \cup {<<"unexpected", Case(r)>> : r \in {k \in ToSet(records) : Case(k) \notin p.cases}}
  \cup (IF p.checks THEN {} ELSE {<<"check", "failed">>})

\* A case with two results is no evidence at all.
EvaluateSecurityPatch(p, records) ==
  LET reasons == SecurityReasons(p, records)
  IN  IF Repeats(records, Case) THEN "INVALID"
      ELSE IF reasons = {} THEN "ACCEPTED"
      ELSE IF \A reason \in reasons : reason[1] = "missing" THEN "INCOMPLETE" ELSE "REFUSED"

-----------------------------------------------------------------------------
(* reconstruction.ts.                                                      *)

PathOf(record) == record.path
Inferred == {"completion", "generated-dependency"}

\* A path is an artifact or a gap, once.
TaskSufficient(records) ==
  \A r \in ToSet(records) :
    /\ r.source = "gap" => ~r.required
    /\ r.source # "gap" /\ (r.required \/ r.source \in Inferred) => r.verified

ReconstructionReceipt(records) ==
  IF Repeats(records, PathOf) THEN "INVALID"
  ELSE IF TaskSufficient(records) THEN "SUFFICIENT" ELSE "INSUFFICIENT"

-----------------------------------------------------------------------------
(* termination.ts.                                                         *)

EventId(record) == record.id

\* The caller's replay, given the cited evidence in its recorded order: here
\* the outputs in that order.
ReplayClaim(cited) ==
  LET Before(a, b) == a.sequence < b.sequence \/ (a.sequence = b.sequence /\ a.id < b.id)
      ordered == SetToSortSeq(cited, Before)
  IN  [i \in DOMAIN ordered |-> ordered[i].output]

\* Of two events with one identifier the first is cited.
Cited(claim, trace) ==
  {trace[i] : i \in {j \in DOMAIN trace :
     /\ trace[j].id \in claim.evidence
     /\ \A k \in 1 .. j - 1 : trace[k].id # trace[j].id}}

ClaimFailures(claim, trace) ==
  LET cited   == Cited(claim, trace)
      absent  == claim.evidence \ {e.id : e \in cited}
      outside == {e \in cited : e.scope \notin claim.scopes}
  IN  (IF claim.evidence = {} THEN {"empty-evidence"} ELSE {})
      \cup (IF absent # {} THEN {"missing-evidence"} ELSE {})
      \cup (IF outside # {} THEN {"out-of-scope-evidence"} ELSE {})
      \cup (IF /\ claim.evidence # {} /\ absent = {} /\ outside = {}
               /\ ReplayClaim(cited) # claim.value
            THEN {"replay-mismatch"} ELSE {})

CompletionFailures(claims, trace) ==
  (IF claims = {} THEN {"empty-claims"} ELSE {})
  \cup (IF Repeats(trace, EventId) THEN {"duplicate-evidence-id"} ELSE {})
  \cup UNION {ClaimFailures(claim, trace) : claim \in claims}

\* The trace is digested whole, ordered by its own sequence numbers.
Certificate(claims, trace) ==
  [claims |-> {[claim |-> claim, evidence |-> Cited(claim, trace)] : claim \in claims},
   traceHash |-> ToSet(trace)]

VerifyCertificate(certificate, trace) ==
  LET claims == {certified.claim : certified \in certificate.claims}
  IN  /\ CompletionFailures(claims, trace) = {}
      /\ Certificate(claims, trace) = certificate

-----------------------------------------------------------------------------
(* trace-replay.ts.                                                        *)

ValidTrace(events) ==
  /\ ~Repeats(events, EventId)
  /\ \A i \in 2 .. Len(events) : events[i - 1].step < events[i].step

AnchoredReplay(events, k) ==
  [anchor |-> events[k], prefixLength |-> k - 1, prefix |-> SubSeq(events, 1, k - 1)]

\* Slip: the prefix is compared by its length.
VerifyReplayPrefixLength(plan, prefix) == ValidTrace(prefix) /\ Len(prefix) = plan.prefixLength

VerifyReplayPrefix(plan, prefix) ==
  ValidTrace(prefix) /\ Len(prefix) = plan.prefixLength /\ prefix = plan.prefix

FinalizeReplay(plan, prefix, anchor, suffix) ==
  /\ VerifyReplayPrefix(plan, prefix)
  /\ ValidTrace(suffix)
  /\ anchor = plan.anchor
  /\ \A e \in ToSet(suffix) :
       /\ e.step > anchor.step
       /\ e.id \notin {anchor.id} \cup {f.id : f \in ToSet(prefix)}
  /\ ValidTrace(prefix \o <<anchor>> \o suffix)

-----------------------------------------------------------------------------
(* index.ts: the witness of a report at a commit.                          *)

Stamp(report, commit) == [reportHash |-> report, sessionCommit |-> commit]
VerifyStamp(report, commit, claimed) == claimed = Stamp(report, commit)

-----------------------------------------------------------------------------
(* ruos-evaluation.mjs: a baseline and a candidate observation, each a run *)
(* with its assertions and cases.                                          *)

EntryOf(record) == <<record.arm, record.kind, record.id>>

\* What was submitted for an arm, by its position.
ArmOf(arm, records) == [i \in {j \in DOMAIN records : records[j].arm = arm} |-> records[i]]

\* Trusted lists name something, and nothing twice; a sample is asked for.
ValidPolicy(p) ==
  p.assertions # {} /\ p.cases # {} /\ p.minSamples > 0 /\ p.ttl > 0 /\ p.skew >= 0

\* Dated further ahead than the policy lets clocks differ, and out of date.
Ahead(p, run, now) == run.timestamp > now + p.skew
Stale(p, run, now) == now - run.timestamp > p.ttl

Declared(p, record) ==
  CASE record.kind = "run"       -> TRUE
    [] record.kind = "assertion" -> record.id \in p.assertions
    [] record.kind = "case"      -> record.id \in p.cases

\* `refuted` stands for a field that says no (status, tenant, isolation,
\* screenshot), `lacking` for one that is absent, the timestamp too, or
\* unverified.  The policy digest is bound with the run.
EvaluateObservation(p, anchored, records, now) ==
  LET runs  == {r \in ToSet(records) : r.kind = "run"}
      rest  == ToSet(records) \ runs
      asked == ({"assertion"} \X p.assertions) \cup ({"case"} \X p.cases)
  IN  IF ~ValidPolicy(p) THEN "REJECT"
      ELSE IF runs = {} THEN "INCONCLUSIVE"
      ELSE IF \/ p # anchored
              \/ Repeats(records, EntryOf)
              \/ \E r \in runs : r.refuted \/ r.says # r.executed \/ Ahead(p, r, now)
              \/ \E r \in rest : ~Declared(p, r)
              \/ \E r \in rest : r.kind = "assertion" /\ ~r.pass
      THEN "REJECT"
      ELSE IF \/ \E r \in runs : r.lacking \/ Stale(p, r, now)
              \/ asked # {<<r.kind, r.id>> : r \in rest}
              \/ \E r \in rest : r.kind = "case" /\ r.samples < p.minSamples
      THEN "INCONCLUSIVE" ELSE "ACCEPT"

\* Growths are in hundredths of the baseline.
Regresses(p, before, after) ==
  \/ after.latency * 100 > before.latency * (100 + p.maxLatency)
  \/ after.cost * 100 > before.cost * (100 + p.maxCost)
  \/ before.success - after.success > p.maxDrop

EvaluatePair(p, anchored, records, now) ==
  LET observed  == [arm \in {"baseline", "candidate"} |-> ArmOf(arm, records)]
      statuses  == {EvaluateObservation(p, anchored, observed[arm], now) : arm \in DOMAIN observed}
      Of(arm)   == {r \in ToSet(records) : r.kind = "case" /\ r.arm = arm}
  IN  IF "REJECT" \in statuses THEN "REJECT"
      ELSE IF "INCONCLUSIVE" \in statuses THEN "INCONCLUSIVE"
      ELSE IF \/ \E r \in ToSet(records) : r.kind = "run" /\ r.says # r.arm
              \/ \E b \in Of("baseline"), c \in Of("candidate") :
                   b.id = c.id /\ Regresses(p, b, c)
      THEN "REJECT" ELSE "ACCEPT"

\* Slip: an accepted pair counts as observed when it is evaluated.
ValidUntilEvaluated(p, records, now) == now + p.ttl

\* The first deadline of the two observations, each no later than that of one
\* made now.
ValidUntil(p, records, now) ==
  LET Run(arm) == CHOOSE r \in ToSet(records) : r.kind = "run" /\ r.arm = arm
  IN  p.ttl + Min({now, Run("baseline").timestamp, Run("candidate").timestamp})

Receipt(p, records, now) ==
  [policy |-> p, records |-> records, evaluatedAt |-> now,
   validUntil |-> ValidUntil(p, records, now)]

\* An observation is one object: its run is there once, before its entries.
OneRun(record) ==
  gate = "ruos" =>
    (record.kind = "run"
       <=> ~\E r \in ToSet(evidence) : r.kind = "run" /\ r.arm = record.arm)

-----------------------------------------------------------------------------
(* harness-optimizer.ts: a patch and the slices it was validated on.       *)

\* Better is positive.
NormalizedDelta(slice) ==
  IF slice.lower THEN slice.before - slice.after ELSE slice.after - slice.before

\* Reasons that no further slice can outweigh; `unsafe` stands for evaluator,
\* authority, invariants, security and a surface declared twice.
HardReject(p, slices) ==
  \/ p.unsafe \/ p.changedLines > p.maxChangedLines \/ p.surfaces > p.maxSurfaces
  \/ \E slice \in ToSet(slices) : NormalizedDelta(slice) < -p.maxRegression

Improves(p, slices) ==
  LET Weighted(slice, sum) == sum + NormalizedDelta(slice) * slice.sampleSize
      Size(slice, sum)     == sum + slice.sampleSize
  IN  FoldRight(Weighted, slices, 0) > p.minImprovement * FoldRight(Size, slices, 0)

EvaluateHarnessCandidate(p, slices) ==
  IF HardReject(p, slices) THEN "REJECT"
  ELSE IF slices = <<>> THEN IF p.surfaces = 0 THEN "REJECT" ELSE "INCONCLUSIVE"
  ELSE IF p.requireHoldout /\ ~\E slice \in ToSet(slices) : slice.split = "holdout"
  THEN "INCONCLUSIVE"
  ELSE IF p.surfaces = 0 \/ ~Improves(p, slices) THEN "REJECT" ELSE "ACCEPT"

-----------------------------------------------------------------------------
(* What the gate says, and the actions.                                    *)

Status ==
  CASE gate = "claim"       -> VerifyClaimEvidence(policy, frozen, evidence)
    [] gate = "discovery"   -> EvaluateDiscovery(policy, frozen, evidence)
    [] gate = "security"    -> EvaluateSecurityPatch(policy, evidence)
    [] gate = "environment" -> ReconstructionReceipt(evidence)
    [] gate = "completion"  ->
         LET failures == CompletionFailures(policy, evidence)
         IN  IF failures = {} THEN "COMPLETE"
             ELSE IF failures = {"missing-evidence"} THEN "INCOMPLETE" ELSE "RECOVER"
    [] gate = "ruos"        -> EvaluatePair(policy, frozen, evidence, clock)
    [] gate = "harness"     -> EvaluateHarnessCandidate(policy, evidence)
    [] OTHER                -> "INCOMPLETE"

\* A patch that does not improve enough may do so on more slices: of a harness
\* verdict only the hard rejections are final.
RefusedNow ==
  IF gate = "harness" THEN HardReject(policy, evidence)
  ELSE Status \in {"INVALID", "REJECT", "REJECTED", "REFUSED", "INSUFFICIENT", "RECOVER"}
PassedNow == Status \in {"PASS", "ACCEPT", "ACCEPTED", "SUFFICIENT", "COMPLETE"}
OpenNow == ~RefusedNow /\ ~PassedNow /\ Status # "REJECT"

Submit ==
  /\ Len(evidence) < MaxEvidence + (IF gate = "ruos" THEN Len(Baseline) ELSE 0)
  /\ \E record \in RecordsOf[gate] :
       OneRun(record) /\ evidence' = Append(evidence, record)
  /\ UNCHANGED <<gate, policy, frozen, issued, clock>>

\* The policy is rewritten once outcomes are visible; its anchor is not.
Amend ==
  /\ policy' \in PoliciesOf[gate]
  /\ UNCHANGED <<gate, frozen, evidence, issued, clock>>

\* Time passes, or the clock is set.
SetClock ==
  /\ gate = "ruos" /\ clock' \in 0 .. MaxClock
  /\ UNCHANGED <<gate, policy, frozen, evidence, issued>>

Issue ==
  /\ issued = Unissued
  /\ \/ /\ gate = "completion" /\ Status = "COMPLETE"
        /\ issued' = Certificate(policy, evidence)
     \/ /\ gate = "replay" /\ ValidTrace(evidence)
        /\ \E k \in DOMAIN evidence : issued' = AnchoredReplay(evidence, k)
     \/ /\ gate = "report"
        /\ issued' = Stamp(evidence, policy)
     \/ /\ gate = "ruos" /\ Status = "ACCEPT"
        /\ issued' = Receipt(policy, evidence, clock)
  /\ UNCHANGED <<gate, policy, frozen, evidence, clock>>

GatesInit ==
  /\ gate \in GateNames /\ policy \in PoliciesOf[gate] /\ frozen = policy
  /\ evidence = (IF gate = "ruos" THEN Baseline ELSE <<>>) /\ issued = Unissued
  /\ clock = 0

GatesNext == Submit \/ Amend \/ SetClock \/ Issue

GatesSpec == GatesInit /\ [][GatesNext]_gateVars

-----------------------------------------------------------------------------
(* Properties.                                                             *)

\* A run of the pair in hand that is dated ahead, or out of date.
DatedAhead ==
  gate = "ruos" /\ \E r \in ToSet(evidence) : r.kind = "run" /\ Ahead(policy, r, clock)
OutOfDate ==
  gate = "ruos" /\ \E r \in ToSet(evidence) : r.kind = "run" /\ Stale(policy, r, clock)

\* Under one policy, while the clock is not set back, what was refused cannot be
\* submitted until it passes: no further record turns a refusal into a pass or
\* an open question or reopens a pass, and waiting turns nothing into a pass but
\* a ruOS run that was refused as dated ahead, and reopens only a run that has
\* gone out of date (the duplicate, undeclared and failed record rules of every
\* gate and the two comparisons with nowMs; of a harness patch the hard
\* rejections alone, more slices may outweigh the others).
RefusalIsFinal ==
  [][policy' = policy /\ clock' >= clock =>
       /\ RefusedNow /\ ~(DatedAhead /\ clock' > clock) =>
            ~PassedNow' /\ (RefusedNow' \/ (OutOfDate' /\ clock' > clock))
       /\ PassedNow => ~OpenNow' \/ (OutOfDate' /\ clock' > clock)
       /\ OpenNow /\ clock' > clock => ~PassedNow']_gateVars

\* The receipt of an accepted ruOS pair says how long it may be relied on: at
\* any reading of the clock from its evaluation to its deadline the same policy
\* and observations are accepted again, and past the deadline and the skew the
\* policy allows they never are (receiptBindings against the two comparisons
\* with nowMs).
ReceiptHolds ==
  gate = "ruos" /\ issued # Unissued =>
    LET again == EvaluatePair(issued.policy, frozen, issued.records, clock)
    IN  /\ clock \in issued.evaluatedAt .. issued.validUntil => again = "ACCEPT"
        /\ clock > issued.validUntil + issued.policy.skew => again # "ACCEPT"

\* What is anchored holds for that and nothing else.  A claim passes only on the
\* assignments and a discovery or a ruOS pair only under the policy that were
\* frozen; a completion certificate verifies on the trace it was issued for, in
\* any order, and on no other; a replay is finalised exactly when prefix and
\* anchor are the recorded ones and the whole is a valid trace; a stamp verifies
\* for its report at its commit (the digest comparisons of the evidence gates).
AnchorsBind ==
  /\ gate = "claim" /\ PassedNow => policy.assignments = frozen.assignments
  /\ gate \in {"discovery", "ruos"} /\ PassedNow => policy = frozen
  /\ issued # Unissued =>
       /\ gate = "completion" =>
            \A trace \in BoundedSeq(RecordsOf[gate], 2) \cup {evidence} :
              VerifyCertificate(issued, trace)
                <=> ToSet(trace) = issued.traceHash /\ IsInjective(trace)
       /\ gate = "replay" =>
            \A prefix, suffix \in BoundedSeq(RecordsOf[gate], 2), anchor \in RecordsOf[gate] :
              FinalizeReplay(issued, prefix, anchor, suffix)
                <=> /\ prefix = issued.prefix /\ anchor = issued.anchor
                    /\ ValidTrace(prefix \o <<anchor>> \o suffix)
       /\ gate = "report" =>
            \A commit \in PoliciesOf[gate] :
              VerifyStamp(evidence, commit, issued)
                <=> evidence = issued.reportHash /\ commit = issued.sessionCommit
=============================================================================
