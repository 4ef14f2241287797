---------------------------- MODULE SafetyController ----------------------------
(***************************************************************************)
(* The simulated safety controller of packages/edge-sim: a microsecond     *)
(* clock, an arm state machine, challenges, signed cue tickets, a dose     *)
(* ledger and a virtual output gate.                                       *)
(*                                                                         *)
(* Every public method of FakeMcuSafetyController is synchronous, so each  *)
(* is one action here, with the private #cancel, #reject, #record,         *)
(* #pruneDose and #restoreDose calls it makes.  The host that calls the    *)
(* methods is unconstrained: it may call any of them in any order, sign    *)
(* any ticket (signFixtureTicket), and replay, delay or reorder tickets.   *)
(* Numbers that only widen what is counted (parserRequests, receipt hashes *)
(* and so on) and the wording of reject reasons are left out: every reject *)
(* has the same effect whatever its reason.                                *)
(***************************************************************************)
EXTENDS Integers, Sequences, FiniteSets, FiniteSetsExt

CONSTANTS
  Null,                 (* JavaScript null                                 *)
  Modalities,           (* audio, light, haptic                            *)
  Proposals,            (* proposal digests                                *)
  TicketIds,            (* ticketId values                                 *)
  Qualities,            (* qualityQ15 / confidenceQ15 values               *)
  Uncertainties,        (* uncertaintyUs values of challenges              *)
  Tickets,              (* the tickets the host may submit                 *)
  InitialDoses,         (* dose lists of checkpoints given at construction *)
  MinimumConfidence, SensorMaxAge, HeartbeatTimeout, ChallengeMaxAge,
  MaxClockUncertainty, ChallengeCapacity, TicketCapacity, DoseCapacity,
  ReceiptRetention, RollingWindow,
  MaxDuration, Cooldown, MaxCumulative,  (* per modality                   *)
  UsPerMs,              (* 1000 in the code                                *)
  MaxUs,                (* U64_MAX of the clock                            *)
  MaxSequence,          (* U64_MAX of sensor and heartbeat sequences       *)
  MaxLag,               (* bound: how old an arriving observation may be   *)
  MaxBoots, MaxChallenges, MaxEpoch      (* bounds on unbounded counters   *)

CueTicket ==
  [sound : BOOLEAN,     (* decodes, is signed by the trusted key, names    *)
                        (* this device, firmware, policy, experiment and   *)
                        (* consent, and is within the policy's fixed       *)
                        (* asset, intensity and ramp bounds                *)
   bootId : Nat, consentEpoch : Nat, challengeId : Nat, proposal : Proposals,
   issued : Nat, notBefore : Nat, expires : Nat, sequence : Nat,
   ticketId : TicketIds, stateDigest : Nat, confidence : Qualities,
   modality : Modalities, duration : Nat]

Dose == [modality : Modalities, until : Nat, duration : Nat]

Cue == [modality : Modalities, start : Nat, end : Nat, duration : Nat,
        ticketId : TicketIds, challengeId : Nat, sequence : Nat, bootId : Nat]

Snapshot == [sequence : Nat, observed : Nat, clean : BOOLEAN, quality : Qualities]
Heartbeat == [sequence : Nat, at : Nat]
Challenge == [id : Nat, issued : Nat, proposal : Proposals,
              uncertainty : Uncertainties]
Receipt == [decision : {"accepted", "rejected", "cancelled", "completed"},
            ticketId : TicketIds, at : Nat]

\* Microseconds of a duration in milliseconds.
Us(ms) == ms * UsPerMs

\* What freezePolicy enforces, and what decodeTicket enforces of a ticket.
ASSUME PolicyAssumption ==
  /\ Qualities \subseteq Nat /\ Uncertainties \subseteq Nat
  /\ MinimumConfidence \in Nat
  /\ SensorMaxAge \in Nat \ {0} /\ HeartbeatTimeout \in Nat \ {0}
  /\ ChallengeMaxAge \in Nat \ {0} /\ MaxClockUncertainty \in Nat \ {0}
  /\ RollingWindow \in Nat \ {0} /\ UsPerMs \in Nat \ {0}
  /\ ChallengeCapacity \in Nat \ {0} /\ TicketCapacity \in Nat \ {0}
  /\ DoseCapacity \in Nat \ {0} /\ ReceiptRetention \in Nat \ {0}
  /\ MaxDuration \in [Modalities -> Nat \ {0}]
  /\ Cooldown \in [Modalities -> Nat]
  /\ MaxCumulative \in [Modalities -> Nat]
  /\ MaxUs \in Nat /\ MaxSequence \in Nat /\ MaxLag \in Nat
  /\ MaxBoots \in Nat /\ MaxChallenges \in Nat /\ MaxEpoch \in Nat
ASSUME TicketAssumption ==
  /\ Tickets \subseteq CueTicket
  /\ \A t \in Tickets : /\ t.issued =< t.notBefore /\ t.notBefore < t.expires
                        /\ t.expires =< MaxUs /\ t.duration >= 1
ASSUME DoseAssumption ==
  /\ InitialDoses \subseteq SUBSET Dose
  /\ \A doses \in InitialDoses :
       IsFiniteSet(doses) /\ Cardinality(doses) =< DoseCapacity
ASSUME NullAssumption ==
  Null \notin Cue /\ Null \notin Snapshot /\ Null \notin Heartbeat

VARIABLES
  now,                  (* VirtualClock.#now                               *)
  armState, virtualGateOpen, pending, receipts,
  sensor, heartbeat,    (* value and its last sequence, set together       *)
  bootId, challenges, challengeCounter, tickets, highestSequence,
  consentValid, consentEpoch, disposed,
  dose, persistentDoseValid,
  checkpoint,           (* a dose checkpoint the host exported and kept    *)
  cues,                 (* history: every cue accepted so far              *)
  rolledBack            (* history: a restored checkpoint lacked a dose    *)
                        (* that was still inside the rolling window        *)

output  == <<armState, virtualGateOpen, pending, receipts>>
health  == <<sensor, heartbeat>>
replay  == <<bootId, challenges, challengeCounter, tickets, highestSequence>>
consent == <<consentValid, consentEpoch, disposed>>
store   == <<dose, persistentDoseValid, checkpoint, rolledBack>>
vars    == <<now, output, health, replay, consent, store, cues>>

ArmStates == {"DISARMED", "OBSERVE", "ARMED", "MUTED", "FAULT"}

-----------------------------------------------------------------------------
(* The private helpers.                                                    *)

\* Snapshot s is usable at time t and young enough.
Healthy(s, t) ==
  /\ s.clean                (* one occupant, no flags, both rates present *)
  /\ s.quality >= MinimumConfidence
  /\ t >= s.observed
  /\ t - s.observed < SensorMaxAge

SensorHealthy(t) == sensor # Null /\ Healthy(sensor, t)

HeartbeatHealthy(t) ==
  /\ heartbeat # Null
  /\ t >= heartbeat.at
  /\ t - heartbeat.at < HeartbeatTimeout

\* Slip: the deadline forgets that the snapshot ages too.
HealthDeadlineHeartbeatOnly ==
  (IF heartbeat = Null THEN 0 ELSE heartbeat.at) + HeartbeatTimeout

\* The first instant at which the current heartbeat or snapshot is too old.
HealthDeadline ==
  LET heartbeatDeadline ==
        (IF heartbeat = Null THEN 0 ELSE heartbeat.at) + HeartbeatTimeout
      sensorDeadline ==
        (IF sensor = Null THEN 0 ELSE sensor.observed) + SensorMaxAge
  IN  IF heartbeatDeadline < sensorDeadline THEN heartbeatDeadline
                                            ELSE sensorDeadline

\* Slip: a dose is dropped when it ends instead of when its window ends.
RetainedDoseNoWindow(t) == {d \in dose : t < d.until}

\* The doses that still count at time t.
RetainedDose(t) == {d \in dose : t < d.until + RollingWindow}

\* Append a receipt, keeping the bounded tail.
Record(tail, decision, id, at) ==
  LET grown == Append(tail, [decision |-> decision, ticketId |-> id, at |-> at])
  IN  IF Len(grown) > ReceiptRetention THEN Tail(grown) ELSE grown

\* The receipts after a pending cue, if there is one, is cancelled.
RecordCancelled(at) ==
  IF pending = Null THEN receipts
                    ELSE Record(receipts, "cancelled", pending.ticketId, at)

\* Slip: a mute downgrades a fault.
CancelAtDowngrade(target, at) ==
  /\ armState' = target
  /\ virtualGateOpen' = FALSE /\ pending' = Null
  /\ receipts' = RecordCancelled(at)

\* Close the gate, drop the pending cue and enter target; a stop request
\* never downgrades FAULT to the weaker MUTED.
CancelAt(target, at) ==
  /\ armState' = IF armState = "FAULT" /\ target = "MUTED" THEN "FAULT" ELSE target
  /\ virtualGateOpen' = FALSE
  /\ pending' = Null
  /\ receipts' = RecordCancelled(at)

Cancel(target) == CancelAt(target, now)

LatchFault ==
  /\ Cancel("FAULT")
  /\ UNCHANGED <<now, health, replay, consent, store, cues>>

-----------------------------------------------------------------------------
(* Sensor and heartbeat input.                                             *)

LastSensorSequence    == IF sensor = Null THEN -1 ELSE sensor.sequence
LastHeartbeatSequence == IF heartbeat = Null THEN -1 ELSE heartbeat.sequence

\* setSnapshot with a snapshot the checks reject: malformed, a sequence that
\* does not grow, or an observation from the future.
InvalidSnapshot(s) ==
  /\ s.sequence =< LastSensorSequence \/ s.observed > now
  /\ LatchFault

\* setSnapshot with a valid snapshot; an unhealthy one faults an ARMED
\* controller at once.
ValidSnapshot(s) ==
  /\ s.sequence > LastSensorSequence /\ s.observed =< now
  /\ sensor' = s
  /\ IF armState = "ARMED" /\ ~Healthy(s, now)
       THEN Cancel("FAULT")
       ELSE UNCHANGED output
  /\ UNCHANGED <<now, heartbeat, replay, consent, store, cues>>

SetSnapshot(s) == InvalidSnapshot(s) \/ ValidSnapshot(s)

\* The snapshots that may arrive now: not older than MaxLag, up to one
\* microsecond ahead of the clock.
Arriving ==
  {s \in [sequence : 0..MaxSequence, observed : (now - MaxLag)..(now + 1),
          clean : BOOLEAN, quality : Qualities] : s.observed >= 0}

\* heartbeat(sequence): a sequence that does not grow is a replay.
ReceiveHeartbeat(sequence) ==
  \/ /\ sequence =< LastHeartbeatSequence
     /\ LatchFault
  \/ /\ sequence > LastHeartbeatSequence
     /\ heartbeat' = [sequence |-> sequence, at |-> now]
     /\ UNCHANGED <<now, output, sensor, replay, consent, store, cues>>

-----------------------------------------------------------------------------
(* Physical and session events.                                            *)

PhysicalArm ==
  /\ ~disposed /\ persistentDoseValid /\ armState = "DISARMED" /\ consentValid
  /\ SensorHealthy(now)
  /\ armState' = "OBSERVE"
  /\ UNCHANGED <<now, virtualGateOpen, pending, receipts, health, replay,
                 consent, store, cues>>

PhysicalConfirm ==
  /\ ~disposed /\ persistentDoseValid /\ armState = "OBSERVE" /\ consentValid
  /\ SensorHealthy(now) /\ HeartbeatHealthy(now)
  /\ armState' = "ARMED"
  /\ UNCHANGED <<now, virtualGateOpen, pending, receipts, health, replay,
                 consent, store, cues>>

Mute ==
  /\ Cancel("MUTED")
  /\ UNCHANGED <<now, health, replay, consent, store, cues>>

\* Slip: the session ends but the running cue is left alone.
EndSessionKeepsCue ==
  /\ armState \notin {"MUTED", "FAULT"}
  /\ armState' = "DISARMED"
  /\ UNCHANGED <<now, virtualGateOpen, pending, receipts, health, replay,
                 consent, store, cues>>

EndSession ==
  /\ armState \notin {"MUTED", "FAULT"}
  /\ Cancel("DISARMED")
  /\ UNCHANGED <<now, health, replay, consent, store, cues>>

PhysicalAcknowledgement ==
  /\ ~disposed /\ persistentDoseValid /\ armState = "MUTED"
  /\ armState' = "DISARMED"
  /\ UNCHANGED <<now, virtualGateOpen, pending, receipts, health, replay,
                 consent, store, cues>>

\* Slip: maintenance clears a fault without looking at the dose record.
MaintenanceIgnoresDose ==
  /\ ~disposed /\ armState = "FAULT" /\ consentValid
  /\ armState' = "DISARMED"
  /\ UNCHANGED <<now, virtualGateOpen, pending, receipts, health, replay,
                 consent, store, cues>>

\* The call with a passed self test; with a failed one it changes nothing.
Maintenance ==
  /\ ~disposed /\ armState = "FAULT" /\ consentValid /\ persistentDoseValid
  /\ armState' = "DISARMED"
  /\ UNCHANGED <<now, virtualGateOpen, pending, receipts, health, replay,
                 consent, store, cues>>

RevokeConsent ==
  /\ consentEpoch < MaxEpoch
  /\ consentValid' = FALSE
  /\ consentEpoch' = consentEpoch + 1
  /\ Cancel("MUTED")
  /\ UNCHANGED <<now, health, replay, disposed, store, cues>>

WatchdogExpired == LatchFault

Dispose ==
  /\ disposed' = TRUE
  /\ Cancel("FAULT")
  /\ UNCHANGED <<now, health, replay, consentValid, consentEpoch, store, cues>>

-----------------------------------------------------------------------------
(* Challenges and tickets.                                                 *)

LiveChallenges == {c \in challenges : now - c.issued =< ChallengeMaxAge}

IssueChallenge(proposal, uncertainty) ==
  \/ /\ Cardinality(LiveChallenges) >= ChallengeCapacity
     /\ challenges' = LiveChallenges
     /\ Cancel("FAULT")
     /\ UNCHANGED <<now, health, bootId, challengeCounter, tickets,
                    highestSequence, consent, store, cues>>
  \/ /\ Cardinality(LiveChallenges) < ChallengeCapacity
     /\ challengeCounter < MaxChallenges
     /\ challengeCounter' = challengeCounter + 1
     /\ challenges' = LiveChallenges \cup
          {[id |-> challengeCounter', issued |-> now, proposal |-> proposal,
            uncertainty |-> uncertainty]}
     /\ UNCHANGED <<now, output, health, bootId, tickets, highestSequence,
                    consent, store, cues>>

\* issueChallenge with a malformed proposal or uncertainty.
IssueMalformedChallenge == LatchFault

EndOf(t) == t.notBefore + Us(t.duration)

\* The ticket is sound and answers a live challenge of this boot and consent.
Authentic(t) ==
  /\ t.sound /\ t.bootId = bootId
  /\ consentValid /\ t.consentEpoch = consentEpoch
  /\ \E c \in challenges :
       /\ c.id = t.challengeId /\ c.proposal = t.proposal
       /\ c.issued =< t.issued
       /\ now - c.issued =< ChallengeMaxAge
       /\ c.uncertainty =< MaxClockUncertainty
  /\ t.issued =< now /\ now < t.expires

\* Slip: only the sequence number guards against replay.
NotReplayedSequenceOnly(t) == t.sequence > highestSequence

NotReplayed(t) == t.sequence > highestSequence /\ t.ticketId \notin tickets

\* The ticket was decided on the snapshot the controller holds now.
Supported(t) ==
  /\ SensorHealthy(now)
  /\ t.stateDigest = sensor.sequence
  /\ MinimumConfidence =< t.confidence /\ t.confidence =< sensor.quality

\* The whole cue fits between now and the ticket's expiry.
FitsWindow(t) == now =< t.notBefore /\ EndOf(t) =< t.expires

\* Every check of submit that precedes #pruneDose.
Eligible(t) ==
  /\ Authentic(t) /\ NotReplayed(t) /\ Supported(t)
  /\ ~disposed /\ persistentDoseValid /\ armState = "ARMED"
  /\ HeartbeatHealthy(now) /\ pending = Null
  /\ t.duration =< MaxDuration[t.modality]
  /\ FitsWindow(t)

SameModality(doses, m) == {d \in doses : d.modality = m}

SumDuration(doses) == MapThenSumSet(LAMBDA d : d.duration, doses)

\* Slip: no cooldown between cues.
WithinDoseNoCooldown(t) ==
  LET same == SameModality(RetainedDose(now), t.modality)
  IN  /\ SumDuration(same) + t.duration =< MaxCumulative[t.modality]
      /\ Cardinality(tickets) < TicketCapacity
      /\ Cardinality(RetainedDose(now)) < DoseCapacity

\* Slip: the budget is tested before the new cue is counted.
WithinDosePastOnly(t) ==
  LET same == SameModality(RetainedDose(now), t.modality)
  IN  /\ \A d \in same : t.notBefore >= d.until + Cooldown[t.modality]
      /\ SumDuration(same) < MaxCumulative[t.modality]
      /\ Cardinality(tickets) < TicketCapacity
      /\ Cardinality(RetainedDose(now)) < DoseCapacity

\* The checks after #pruneDose: cooldown, cumulative dose, cache limits.
WithinDose(t) ==
  LET same == SameModality(RetainedDose(now), t.modality)
  IN  /\ \A d \in same : t.notBefore >= d.until + Cooldown[t.modality]
      /\ SumDuration(same) + t.duration =< MaxCumulative[t.modality]
      /\ Cardinality(tickets) < TicketCapacity
      /\ Cardinality(RetainedDose(now)) < DoseCapacity

CueOf(t) ==
  [modality |-> t.modality, start |-> t.notBefore, end |-> EndOf(t),
   duration |-> t.duration, ticketId |-> t.ticketId,
   challengeId |-> t.challengeId, sequence |-> t.sequence, bootId |-> t.bootId]

\* submit, accepted: consume the challenge, remember the ticket, reserve the
\* dose, and open the gate if the cue starts now.
Accept(t) ==
  /\ Eligible(t) /\ WithinDose(t)
  /\ challenges' = {c \in challenges : c.id # t.challengeId}
  /\ tickets' = tickets \cup {t.ticketId}
  /\ highestSequence' = t.sequence
  /\ dose' = RetainedDose(now) \cup
       {[modality |-> t.modality, until |-> EndOf(t), duration |-> t.duration]}
  /\ pending' = CueOf(t)
  /\ virtualGateOpen' = (t.notBefore = now)
  /\ receipts' = Record(receipts, "accepted", t.ticketId, now)
  /\ cues' = cues \cup {CueOf(t)}
  /\ UNCHANGED <<now, armState, health, bootId, challengeCounter, consent,
                 persistentDoseValid, checkpoint, rolledBack>>

\* submit, rejected: any refused ticket latches FAULT.
Reject(t) ==
  /\ ~(Eligible(t) /\ WithinDose(t))
  /\ dose' = IF Eligible(t) THEN RetainedDose(now) ELSE dose
  /\ armState' = "FAULT" /\ virtualGateOpen' = FALSE /\ pending' = Null
  /\ receipts' = Record(RecordCancelled(now), "rejected", t.ticketId, now)
  /\ UNCHANGED <<now, health, replay, consent, persistentDoseValid, checkpoint,
                 rolledBack, cues>>

Submit(t) == Accept(t) \/ Reject(t)

-----------------------------------------------------------------------------
(* VirtualClock.advance with the controller's listener #onAdvance.  The    *)
(* listener acts only while ARMED; dispose, which unsubscribes it, leaves  *)
(* a state that is never ARMED again.                                      *)

\* Slip: a cue that outlived its evidence is reported as completed.
CompletesByUnchecked(t) == pending # Null /\ pending.end =< t

\* The pending cue ends by t, before the controller's health lapses.
CompletesBy(t) ==
  pending # Null /\ pending.end =< t /\ pending.end < HealthDeadline

\* The pending cue's start is reached by t while healthy.
StartsBy(t) ==
  pending # Null /\ pending.start =< t /\ pending.start < HealthDeadline

\* Slip: a lapsed cue is recorded at its planned end.
ReceiptsOfAdvanceAtEnd(t) ==
  IF CompletesBy(t)
    THEN Record(receipts, "completed", pending.ticketId, pending.end)
    ELSE IF HealthDeadline =< t /\ pending # Null
           THEN RecordCancelled(pending.end) ELSE receipts

ReceiptsOfAdvance(t) ==
  IF CompletesBy(t)
    THEN Record(receipts, "completed", pending.ticketId, pending.end)
    ELSE IF HealthDeadline =< t THEN RecordCancelled(HealthDeadline)
                                ELSE receipts

\* Time passes with no listener effect.
AdvanceIdle(t) ==
  /\ armState # "ARMED"
  /\ UNCHANGED output

\* Time passes within the health deadline: the cue opens, runs or completes.
AdvanceHealthy(t) ==
  /\ armState = "ARMED" /\ t < HealthDeadline
  /\ virtualGateOpen' = IF CompletesBy(t) THEN FALSE
                                          ELSE virtualGateOpen \/ StartsBy(t)
  /\ pending' = IF CompletesBy(t) THEN Null ELSE pending
  /\ receipts' = ReceiptsOfAdvance(t)
  /\ UNCHANGED armState

\* Heartbeat or snapshot gets too old on the way: a cue that ended before
\* the deadline completed, any other is cancelled at the deadline.
AdvanceLapsed(t) ==
  /\ armState = "ARMED" /\ HealthDeadline =< t
  /\ armState' = "FAULT" /\ virtualGateOpen' = FALSE /\ pending' = Null
  /\ receipts' = ReceiptsOfAdvance(t)

\* Slip: the clock refuses its own last instant.
AdvanceShortOfMax(t) ==
  /\ now =< t /\ t < MaxUs
  /\ now' = t
  /\ AdvanceIdle(t) \/ AdvanceHealthy(t) \/ AdvanceLapsed(t)
  /\ UNCHANGED <<health, replay, consent, store, cues>>

Advance(t) ==
  /\ now =< t /\ t =< MaxUs
  /\ now' = t
  /\ AdvanceIdle(t) \/ AdvanceHealthy(t) \/ AdvanceLapsed(t)
  /\ UNCHANGED <<health, replay, consent, store, cues>>

-----------------------------------------------------------------------------
(* Dose checkpoints and reboot.                                            *)

\* exportSimulatedDoseCheckpoint; the host keeps the result, which matters
\* only while the bound allows another reboot.
ExportCheckpoint ==
  /\ persistentDoseValid
  /\ bootId < MaxBoots
  /\ checkpoint' = dose
  /\ UNCHANGED <<now, output, health, replay, consent, dose,
                 persistentDoseValid, rolledBack, cues>>

\* The part of reboot that does not depend on the checkpoint; state is where
\* the controller ends up.  The cancellation is recorded as a DISARM.
Restart(state) ==
  /\ bootId < MaxBoots
  /\ bootId' = bootId + 1
  /\ armState' = state /\ virtualGateOpen' = FALSE /\ pending' = Null
  /\ receipts' = RecordCancelled(now)
  /\ challenges' = {} /\ tickets' = {} /\ highestSequence' = -1
  /\ heartbeat' = Null /\ sensor' = Null
  /\ UNCHANGED <<now, challengeCounter, consent, checkpoint, cues>>

\* reboot(checkpoint) with one that passes restoreDose's checks.
RebootFrom(saved) ==
  /\ Restart("DISARMED")
  /\ dose' = saved
  /\ persistentDoseValid' = TRUE
  /\ rolledBack' = (rolledBack \/ ~(RetainedDose(now) \subseteq saved))

\* reboot(): the default argument exports first, and throws before anything
\* changes when the dose state is invalid.
Reboot == persistentDoseValid /\ RebootFrom(dose)

\* reboot with a checkpoint exported earlier.
RebootFromCheckpoint == checkpoint # Null /\ RebootFrom(checkpoint)

\* reboot with a checkpoint that fails an integrity check.
RebootCorrupt ==
  /\ Restart("FAULT")
  /\ persistentDoseValid' = FALSE
  /\ UNCHANGED <<dose, rolledBack>>

-----------------------------------------------------------------------------
\* The constructor, with no checkpoint, a readable one or a corrupt one.
Init ==
  /\ now = 0
  /\ virtualGateOpen = FALSE /\ pending = Null /\ receipts = <<>>
  /\ sensor = Null /\ heartbeat = Null
  /\ bootId = 0 /\ challenges = {} /\ challengeCounter = 0
  /\ tickets = {} /\ highestSequence = -1
  /\ consentValid = TRUE /\ consentEpoch = 1 /\ disposed = FALSE
  /\ checkpoint = Null /\ cues = {} /\ rolledBack = FALSE
  /\ \/ /\ dose \in InitialDoses \cup {{}}
        /\ persistentDoseValid = TRUE /\ armState = "DISARMED"
     \/ /\ dose = {}
        /\ persistentDoseValid = FALSE /\ armState = "FAULT"

Next ==
  \/ \E s \in Arriving : SetSnapshot(s)
  \/ \E n \in 0..MaxSequence : ReceiveHeartbeat(n)
  \/ PhysicalArm
  \/ PhysicalConfirm
  \/ Mute
  \/ EndSession
  \/ PhysicalAcknowledgement
  \/ Maintenance
  \/ RevokeConsent
  \/ WatchdogExpired
  \/ Dispose
  \/ \E p \in Proposals, u \in Uncertainties : IssueChallenge(p, u)
  \/ IssueMalformedChallenge
  \/ \E t \in Tickets : Submit(t)
  \/ \E t \in now..MaxUs : Advance(t)
  \/ ExportCheckpoint
  \/ Reboot
  \/ RebootFromCheckpoint
  \/ RebootCorrupt

Spec == Init /\ [][Next]_vars

\* The caller keeps driving the clock; nothing else is assumed of it.
Tick == \E t \in (now + 1)..MaxUs : Advance(t)

FairSpec == Spec /\ WF_vars(Tick)

-----------------------------------------------------------------------------
(* Properties.                                                             *)

\* Every variable has its type, and no more receipts are kept than the policy
\* retains.
TypeOK ==
  /\ now \in Nat
  /\ armState \in ArmStates /\ virtualGateOpen \in BOOLEAN
  /\ pending \in Cue \cup {Null}
  /\ receipts \in Seq(Receipt) /\ Len(receipts) =< ReceiptRetention
  /\ sensor \in Snapshot \cup {Null} /\ heartbeat \in Heartbeat \cup {Null}
  /\ bootId \in Nat /\ challengeCounter \in Nat
  /\ challenges \in SUBSET Challenge
  /\ tickets \in SUBSET TicketIds /\ highestSequence \in Nat \cup {-1}
  /\ consentValid \in BOOLEAN /\ consentEpoch \in Nat /\ disposed \in BOOLEAN
  /\ dose \in SUBSET Dose /\ persistentDoseValid \in BOOLEAN
  /\ checkpoint \in (SUBSET Dose) \cup {Null}
  /\ cues \in SUBSET Cue /\ rolledBack \in BOOLEAN

\* The virtual gate is open exactly while the window of an accepted cue is
\* running on an ARMED controller: never early, never after the end, never
\* after a stop, a fault or a reboot, and never without consent.
GateAuthority ==
  /\ virtualGateOpen <=> (pending # Null /\ pending.start =< now)
  /\ pending # Null => /\ armState = "ARMED"
                       /\ now < pending.end
                       /\ pending \in cues

\* ARMED is never held past the freshness of the evidence it rests on,
\* however far one call moves the clock or however late a snapshot arrives.
ArmedIsHealthy ==
  armState = "ARMED" => SensorHealthy(now) /\ HeartbeatHealthy(now)

\* Revoked consent, disposal and an unreadable dose record are terminal for
\* arming, whatever acknowledgement, maintenance or reboot follows, and an
\* unreadable dose record keeps the controller in FAULT.
StandingToArm ==
  /\ armState \in {"OBSERVE", "ARMED"} =>
       consentValid /\ ~disposed /\ persistentDoseValid
  /\ ~persistentDoseValid => armState = "FAULT"

\* No signed ticket, challenge or sequence number authorises two cues, in
\* one boot or across reboots that empty the replay caches.
SingleUse ==
  \A c, d \in cues : c # d =>
    /\ c.challengeId # d.challengeId
    /\ c.bootId = d.bootId =>
         c.ticketId # d.ticketId /\ c.sequence # d.sequence

\* Reserved dose outlives cancellation, faults and reboots: while it is in
\* the rolling window an accepted cue is on the dose record, unless the host
\* restored a checkpoint older than it.
DoseConserved ==
  ~rolledBack =>
    \A c \in cues : now < c.end + RollingWindow =>
      [modality |-> c.modality, until |-> c.end, duration |-> c.duration] \in dose

MinGap(m) == IF Cooldown[m] < RollingWindow THEN Cooldown[m] ELSE RollingWindow

\* Any two cues of a modality are at least the cooldown apart.  A dose leaves
\* the record when its rolling window ends, so a policy whose cooldown is
\* longer than the window, which freezePolicy accepts, gets only the window.
CooldownSpacing ==
  ~rolledBack =>
    \A c, d \in cues : c # d /\ c.modality = d.modality =>
      \/ c.end + MinGap(c.modality) =< d.start
      \/ d.end + MinGap(c.modality) =< c.start

\* In every rolling window the cues of a modality add up to no more than its
\* cumulative limit, although the limit is only tested when a cue is
\* accepted and cues may start later than that.
DoseBudget ==
  ~rolledBack =>
    \A last \in cues :
      SumDuration({c \in cues : /\ c.modality = last.modality
                                /\ c.start =< last.start
                                /\ last.start < c.end + RollingWindow})
        =< MaxCumulative[last.modality]

\* The receipts kept are in the order of the times they state, and none
\* states a time still to come, although a cancellation or a completion found
\* out late is dated back to when it happened.
ReceiptsOrdered ==
  /\ \A i, j \in DOMAIN receipts : i =< j => receipts[i].at =< receipts[j].at
  /\ \A i \in DOMAIN receipts : receipts[i].at =< now

\* Inductive form of the output properties: each of the three needs the others.
SafetyInv == GateAuthority /\ ArmedIsHealthy /\ StandingToArm

\* Inductive form of SingleUse: what the replay caches know of the past.  The
\* caches of earlier boots are gone, so it is the challenge counter, which a
\* reboot keeps, that separates cues of different boots.
SpentInv ==
  /\ \A c \in challenges :
       /\ c.id =< challengeCounter
       /\ \A d \in cues : d.challengeId # c.id
  /\ \A d \in cues :
       /\ d.challengeId =< challengeCounter
       /\ d.bootId =< bootId
       /\ d.bootId = bootId =>
            d.ticketId \in tickets /\ d.sequence =< highestSequence
  /\ SingleUse

\* Receipt r closes the pending cue truthfully: completed, dated at its end,
\* only if time reached that end while the evidence was still fresh; otherwise
\* cancelled, dated no later than its end.
Closes(r) ==
  /\ r.ticketId = pending.ticketId
  /\ \/ /\ r.decision = "completed" /\ r.at = pending.end
        /\ pending.end < HealthDeadline /\ pending.end =< now'
     \/ /\ r.decision = "cancelled" /\ now =< r.at /\ r.at =< pending.end
        /\ now' >= pending.end => HealthDeadline =< pending.end

\* A cue leaves the controller with a closing receipt.  Only where the policy
\* retains a single receipt, which freezePolicy accepts, and a refused ticket
\* stops the cue does the rejection take the place of that receipt at once.
CueClosure ==
  [][pending # Null /\ pending' # pending =>
       /\ pending' = Null
       /\ \/ \E i \in DOMAIN receipts' : Closes(receipts'[i])
          \/ ReceiptRetention = 1 /\ receipts'[1].decision = "rejected"
    ]_vars

\* A stop is left only towards DISARMED; FAULT never weakens to MUTED; and a
\* FAULT without consent, with an unreadable dose record or after disposal is
\* left only by a reboot.
StopIsLatched ==
  [][/\ armState = "MUTED" => armState' \in {"MUTED", "FAULT", "DISARMED"}
     /\ armState = "FAULT" => armState' \in {"FAULT", "DISARMED"}
     /\ (/\ armState = "FAULT" /\ bootId' = bootId
         /\ ~consentValid \/ ~persistentDoseValid \/ disposed)
        => armState' = "FAULT"]_vars

\* The controller implements the promise of SafetyGate.
Gate == INSTANCE SafetyGate
          WITH armed <- armState = "ARMED", cue <- pending,
               open <- virtualGateOpen, used <- {c.challengeId : c \in cues},
               Cues <- Cue, Times <- Nat
GateSpec == Gate!Spec

\* An accepted cue does not stay pending, nor the gate open, for ever.
CueEnds == pending # Null ~> pending = Null
=============================================================================
