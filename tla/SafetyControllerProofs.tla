------------------------- MODULE SafetyControllerProofs -------------------------
(***************************************************************************)
(* Machine-checked proofs about SafetyController, for every value of its   *)
(* constants that satisfies the assumptions of that module.                *)
(***************************************************************************)
EXTENDS SafetyController, TLAPS

-----------------------------------------------------------------------------
(* Lemmas about the helpers.                                               *)

\* A duration of at least one millisecond is at least one microsecond.
LEMMA UsPositive == \A ms \in Nat : Us(ms) \in Nat /\ (ms >= 1 => Us(ms) >= 1)
<1> TAKE ms \in Nat
<1>1. UsPerMs \in Nat /\ UsPerMs >= 1
  BY PolicyAssumption, SMT
<1>2. ms * UsPerMs \in Nat
  BY <1>1, SMT
<1>3. ms >= 1 => ms * UsPerMs >= 1
  BY <1>1, SMT
<1> QED
  BY <1>2, <1>3 DEF Us

\* Recording keeps the tail well typed and within the retention.
LEMMA RecordType ==
  ASSUME NEW tail \in Seq(Receipt), Len(tail) =< ReceiptRetention,
         NEW decision \in {"accepted", "rejected", "cancelled", "completed"},
         NEW id \in TicketIds, NEW at \in Nat
  PROVE  /\ Record(tail, decision, id, at) \in Seq(Receipt)
         /\ Len(Record(tail, decision, id, at)) =< ReceiptRetention
<1> DEFINE r == [decision |-> decision, ticketId |-> id, at |-> at]
           grown == Append(tail, r)
<1>1. r \in Receipt
  BY DEF Receipt
<1>2. grown \in Seq(Receipt) /\ Len(grown) = Len(tail) + 1 /\ grown # <<>>
  BY <1>1
<1>3. Tail(grown) \in Seq(Receipt) /\ Len(Tail(grown)) = Len(grown) - 1
  BY <1>2
<1>4. ReceiptRetention \in Nat /\ Len(tail) \in Nat
  BY PolicyAssumption
<1> QED
  BY <1>2, <1>3, <1>4 DEF Record

\* Cancelling whatever is pending keeps the output variables well typed.
LEMMA RecordCancelledType ==
  ASSUME TypeOK, NEW at \in Nat
  PROVE  /\ RecordCancelled(at) \in Seq(Receipt)
         /\ Len(RecordCancelled(at)) =< ReceiptRetention
<1>1. CASE pending = Null
  BY <1>1 DEF TypeOK, RecordCancelled
<1>2. CASE pending # Null
  <2>1. pending.ticketId \in TicketIds
    BY <1>2 DEF TypeOK, Cue
  <2> QED
    BY <1>2, <2>1, RecordType DEF TypeOK, RecordCancelled
<1> QED
  BY <1>1, <1>2

\* Cancelling keeps the output variables well typed.
LEMMA CancelType ==
  ASSUME TypeOK, NEW target \in ArmStates, NEW at \in Nat, CancelAt(target, at)
  PROVE  /\ armState' \in ArmStates /\ virtualGateOpen' \in BOOLEAN
         /\ pending' \in Cue \cup {Null}
         /\ receipts' \in Seq(Receipt) /\ Len(receipts') =< ReceiptRetention
BY RecordCancelledType DEF CancelAt, ArmStates

\* The arm states by name.
LEMMA ArmStateNames ==
  /\ "DISARMED" \in ArmStates /\ "OBSERVE" \in ArmStates /\ "ARMED" \in ArmStates
  /\ "MUTED" \in ArmStates /\ "FAULT" \in ArmStates
BY DEF ArmStates

\* Latching a fault keeps every type.
LEMMA LatchFaultType == TypeOK /\ LatchFault => TypeOK'
<1> SUFFICES ASSUME TypeOK, LatchFault PROVE TypeOK'
  OBVIOUS
<1>1. now \in Nat /\ CancelAt("FAULT", now)
  BY DEF TypeOK, LatchFault, Cancel
<1>2. /\ armState' \in ArmStates /\ virtualGateOpen' \in BOOLEAN
      /\ pending' \in Cue \cup {Null}
      /\ receipts' \in Seq(Receipt) /\ Len(receipts') =< ReceiptRetention
  BY <1>1, CancelType, ArmStateNames
<1> QED
  BY <1>2 DEF TypeOK, LatchFault, health, replay, consent, store

\* The cue a ticket asks for is well typed and does not end before it starts.
LEMMA CueOfType ==
  ASSUME NEW t \in Tickets
  PROVE  /\ CueOf(t) \in Cue
         /\ CueOf(t).start = t.notBefore /\ CueOf(t).end = EndOf(t)
         /\ CueOf(t).challengeId = t.challengeId
         /\ CueOf(t).ticketId = t.ticketId /\ CueOf(t).sequence = t.sequence
         /\ CueOf(t).bootId = t.bootId
         /\ t.notBefore < EndOf(t)
         /\ CueOf(t) # Null
<1>1. t \in CueTicket /\ t.duration >= 1
  BY TicketAssumption
<1>2. t.notBefore \in Nat /\ t.duration \in Nat
  BY <1>1 DEF CueTicket
<1>3. Us(t.duration) \in Nat /\ Us(t.duration) >= 1
  BY <1>1, <1>2, UsPositive
<1>4. EndOf(t) \in Nat /\ t.notBefore < EndOf(t)
  BY <1>2, <1>3 DEF EndOf
<1>5. CueOf(t) \in Cue
  BY <1>1, <1>4 DEF CueOf, Cue, CueTicket
<1> QED
  BY <1>4, <1>5, NullAssumption DEF CueOf

-----------------------------------------------------------------------------
(* Every variable keeps its type, one lemma per kind of step.              *)

\* A snapshot, valid or not, keeps every type.
LEMMA SnapshotType ==
  ASSUME TypeOK, NEW s \in Arriving, SetSnapshot(s) PROVE TypeOK'
<1>1. s \in Snapshot
  BY DEF Arriving, Snapshot, TypeOK
<1>2. CASE InvalidSnapshot(s)
  BY <1>2, LatchFaultType DEF InvalidSnapshot
<1>3. CASE ValidSnapshot(s)
  <2>1. CASE UNCHANGED output
    BY <1>1, <1>3, <2>1 DEF TypeOK, ValidSnapshot, output, replay, consent, store
  <2>2. CASE Cancel("FAULT")
    <3>1. /\ armState' \in ArmStates /\ virtualGateOpen' \in BOOLEAN
          /\ pending' \in Cue \cup {Null}
          /\ receipts' \in Seq(Receipt) /\ Len(receipts') =< ReceiptRetention
      BY <2>2, CancelType, ArmStateNames DEF Cancel, TypeOK
    <3> QED
      BY <1>1, <1>3, <3>1 DEF TypeOK, ValidSnapshot, replay, consent, store
  <2> QED
    BY <1>3, <2>1, <2>2 DEF ValidSnapshot
<1> QED
  BY <1>2, <1>3 DEF SetSnapshot

\* A heartbeat, fresh or replayed, keeps every type.
LEMMA HeartbeatType ==
  ASSUME TypeOK, NEW n \in 0..MaxSequence, ReceiveHeartbeat(n) PROVE TypeOK'
<1>1. CASE LatchFault
  BY <1>1, LatchFaultType
<1>2. CASE heartbeat' = [sequence |-> n, at |-> now] /\
           UNCHANGED <<now, output, sensor, replay, consent, store, cues>>
  BY <1>2 DEF TypeOK, Heartbeat, output, replay, consent, store
<1> QED
  BY <1>1, <1>2 DEF ReceiveHeartbeat

\* The physical events set the arm state and nothing else.
LEMMA PhysicalType ==
  ASSUME TypeOK,
         PhysicalArm \/ PhysicalConfirm \/ PhysicalAcknowledgement \/ Maintenance
  PROVE  TypeOK'
BY DEF TypeOK, ArmStates, PhysicalArm, PhysicalConfirm, PhysicalAcknowledgement,
       Maintenance, health, replay, consent, store

\* A stop or revocation keeps every type.
LEMMA StopType ==
  ASSUME TypeOK, Mute \/ EndSession \/ RevokeConsent \/ Dispose
  PROVE  TypeOK'
<1>1. PICK target \in ArmStates : CancelAt(target, now)
  BY ArmStateNames DEF Mute, EndSession, RevokeConsent, Dispose, Cancel
<1>2. /\ armState' \in ArmStates /\ virtualGateOpen' \in BOOLEAN
      /\ pending' \in Cue \cup {Null}
      /\ receipts' \in Seq(Receipt) /\ Len(receipts') =< ReceiptRetention
  BY <1>1, CancelType DEF TypeOK
<1>3. consentValid' \in BOOLEAN /\ disposed' \in BOOLEAN
  BY DEF TypeOK, Mute, EndSession, RevokeConsent, Dispose, consent
<1>4. consentEpoch' = consentEpoch \/ consentEpoch' = consentEpoch + 1
  BY DEF Mute, EndSession, RevokeConsent, Dispose, consent
<1>5. UNCHANGED <<now, health, replay, store, cues>>
  BY DEF Mute, EndSession, RevokeConsent, Dispose
<1> QED
  BY <1>2, <1>3, <1>4, <1>5 DEF TypeOK, health, replay, store

\* Issuing or refusing a challenge keeps every type.
LEMMA ChallengeType ==
  ASSUME TypeOK, NEW p \in Proposals, NEW u \in Uncertainties, IssueChallenge(p, u)
  PROVE  TypeOK'
<1>1. LiveChallenges \in SUBSET Challenge
  BY DEF TypeOK, LiveChallenges
<1>2. CASE Cancel("FAULT") /\ challenges' = LiveChallenges
           /\ UNCHANGED <<now, health, bootId, challengeCounter, tickets,
                          highestSequence, consent, store, cues>>
  <2>1. /\ armState' \in ArmStates /\ virtualGateOpen' \in BOOLEAN
        /\ pending' \in Cue \cup {Null}
        /\ receipts' \in Seq(Receipt) /\ Len(receipts') =< ReceiptRetention
    BY <1>2, CancelType, ArmStateNames DEF Cancel, TypeOK
  <2> QED
    BY <1>1, <1>2, <2>1 DEF TypeOK, health, consent, store
<1>3. CASE /\ challengeCounter' = challengeCounter + 1
           /\ challenges' = LiveChallenges \cup
                {[id |-> challengeCounter', issued |-> now, proposal |-> p,
                  uncertainty |-> u]}
           /\ UNCHANGED <<now, output, health, bootId, tickets,
                          highestSequence, consent, store, cues>>
  <2>1. challengeCounter' \in Nat /\ now \in Nat
    BY <1>3 DEF TypeOK
  <2>2. challenges' \in SUBSET Challenge
    BY <1>1, <1>3, <2>1 DEF Challenge
  <2> QED
    BY <1>3, <2>1, <2>2 DEF TypeOK, output, health, consent, store
<1> QED
  BY <1>2, <1>3 DEF IssueChallenge

\* Accepting a ticket keeps every type.
LEMMA AcceptType ==
  ASSUME TypeOK, NEW t \in Tickets, Accept(t) PROVE TypeOK'
<1>1. t \in CueTicket /\ CueOf(t) \in Cue
  BY TicketAssumption, CueOfType
<1>2. /\ t.ticketId \in TicketIds /\ t.sequence \in Nat
      /\ t.modality \in Modalities /\ t.duration \in Nat
  BY <1>1 DEF CueTicket
<1>3. EndOf(t) \in Nat
  BY <1>1, CueOfType DEF Cue
<1>4. dose' \in SUBSET Dose
  BY <1>2, <1>3 DEF TypeOK, Accept, RetainedDose, Dose
<1>5. receipts' \in Seq(Receipt) /\ Len(receipts') =< ReceiptRetention
  BY <1>2, RecordType DEF TypeOK, Accept
<1>6. challenges' \in SUBSET Challenge /\ tickets' \in SUBSET TicketIds
      /\ highestSequence' \in Nat
  BY <1>2 DEF TypeOK, Accept
<1>7. pending' \in Cue /\ cues' \in SUBSET Cue /\ virtualGateOpen' \in BOOLEAN
  BY <1>1 DEF TypeOK, Accept
<1> QED
  BY <1>4, <1>5, <1>6, <1>7 DEF TypeOK, Accept, health, consent

\* Rejecting a ticket keeps every type.
LEMMA RejectType ==
  ASSUME TypeOK, NEW t \in Tickets, Reject(t) PROVE TypeOK'
<1>1. t.ticketId \in TicketIds
  BY TicketAssumption DEF CueTicket
<1>2. dose' \in SUBSET Dose
  BY DEF TypeOK, Reject, RetainedDose
<1>3. receipts' \in Seq(Receipt) /\ Len(receipts') =< ReceiptRetention
  BY <1>1, RecordType, RecordCancelledType DEF TypeOK, Reject
<1> QED
  BY <1>2, <1>3 DEF TypeOK, Reject, ArmStates, health, replay, consent

\* Advancing the clock keeps every type.
LEMMA AdvanceType ==
  ASSUME TypeOK, NEW t \in now..MaxUs, Advance(t) PROVE TypeOK'
<1>1. now' \in Nat
  BY DEF TypeOK, Advance
<1>2. armState' \in ArmStates
  BY DEF TypeOK, Advance, AdvanceIdle, AdvanceHealthy, AdvanceLapsed, ArmStates, output
<1>3. virtualGateOpen' \in BOOLEAN /\ pending' \in Cue \cup {Null}
  BY DEF TypeOK, Advance, AdvanceIdle, AdvanceHealthy, AdvanceLapsed, output, StartsBy
<1>4. HealthDeadline \in Nat
  BY PolicyAssumption DEF TypeOK, HealthDeadline, Snapshot, Heartbeat
<1>5. /\ ReceiptsOfAdvance(t) \in Seq(Receipt)
      /\ Len(ReceiptsOfAdvance(t)) =< ReceiptRetention
  <2>1. CASE CompletesBy(t)
    <3>1. pending.ticketId \in TicketIds /\ pending.end \in Nat
      BY <2>1 DEF TypeOK, CompletesBy, Cue
    <3> QED
      BY <2>1, <3>1, RecordType DEF TypeOK, ReceiptsOfAdvance
  <2>2. CASE ~CompletesBy(t)
    BY <2>2, <1>4, RecordCancelledType DEF TypeOK, ReceiptsOfAdvance
  <2> QED
    BY <2>1, <2>2
<1>6. receipts' \in Seq(Receipt) /\ Len(receipts') =< ReceiptRetention
  BY <1>5 DEF TypeOK, Advance, AdvanceIdle, AdvanceHealthy, AdvanceLapsed, output
<1> QED
  BY <1>1, <1>2, <1>3, <1>6 DEF TypeOK, Advance, health, replay, consent, store

\* Reboots and checkpoints keep every type.
LEMMA RestartType ==
  ASSUME TypeOK,
         Reboot \/ RebootFromCheckpoint \/ RebootCorrupt \/ ExportCheckpoint
  PROVE  TypeOK'
<1>1. CASE ExportCheckpoint
  BY <1>1 DEF TypeOK, ExportCheckpoint, output, health, replay, consent
<1>2. CASE Reboot \/ RebootFromCheckpoint \/ RebootCorrupt
  <2>1. PICK state \in ArmStates : Restart(state)
    BY <1>2, ArmStateNames
    DEF Reboot, RebootFromCheckpoint, RebootCorrupt, RebootFrom
  <2>2. dose' \in SUBSET Dose /\ persistentDoseValid' \in BOOLEAN
        /\ rolledBack' \in BOOLEAN
    BY <1>2 DEF TypeOK, Reboot, RebootFromCheckpoint, RebootCorrupt, RebootFrom
  <2>3. receipts' \in Seq(Receipt) /\ Len(receipts') =< ReceiptRetention
    BY <2>1, RecordCancelledType DEF TypeOK, Restart
  <2>4. /\ now' \in Nat /\ bootId' \in Nat /\ challengeCounter' \in Nat
        /\ highestSequence' \in Nat \cup {-1}
    BY <2>1 DEF TypeOK, Restart
  <2>5. /\ armState' \in ArmStates /\ virtualGateOpen' \in BOOLEAN
        /\ pending' \in Cue \cup {Null}
        /\ sensor' \in Snapshot \cup {Null} /\ heartbeat' \in Heartbeat \cup {Null}
        /\ challenges' \in SUBSET Challenge /\ tickets' \in SUBSET TicketIds
    BY <2>1 DEF Restart
  <2>6. UNCHANGED <<consent, checkpoint, cues>>
    BY <2>1 DEF Restart
  <2> QED
    BY <2>2, <2>3, <2>4, <2>5, <2>6 DEF TypeOK, consent
<1> QED
  BY <1>1, <1>2

\* Every variable keeps its type in every behaviour.
THEOREM TypeCorrect == Spec => []TypeOK
<1>1. Init => TypeOK
  <2> SUFFICES ASSUME Init PROVE TypeOK
    OBVIOUS
  <2>1. now \in Nat /\ bootId \in Nat /\ challengeCounter \in Nat
        /\ consentEpoch \in Nat /\ highestSequence \in Nat \cup {-1}
    BY DEF Init
  <2>2. receipts \in Seq(Receipt) /\ Len(receipts) =< ReceiptRetention
    BY PolicyAssumption DEF Init
  <2>3. armState \in ArmStates /\ dose \in SUBSET Dose
        /\ persistentDoseValid \in BOOLEAN
    BY DoseAssumption, ArmStateNames DEF Init
  <2> QED
    BY <2>1, <2>2, <2>3 DEF Init, TypeOK
<1>2. TypeOK /\ [Next]_vars => TypeOK'
  <2> SUFFICES ASSUME TypeOK, [Next]_vars PROVE TypeOK'
    OBVIOUS
  <2>1. CASE UNCHANGED vars
    BY <2>1 DEF TypeOK, vars, output, health, replay, consent, store
  <2>2. CASE WatchdogExpired \/ IssueMalformedChallenge
    BY <2>2, LatchFaultType DEF WatchdogExpired, IssueMalformedChallenge
  <2> QED
    BY <2>1, <2>2, SnapshotType, HeartbeatType, PhysicalType, StopType,
       ChallengeType, AcceptType, RejectType, AdvanceType, RestartType
    DEF Next, Submit
<1> QED
  BY <1>1, <1>2, PTL DEF Spec

-----------------------------------------------------------------------------
(* The output follows authorised cues: SafetyInv is inductive.             *)

\* A stop leaves nothing that SafetyInv could object to.
LEMMA ClosedSafety ==
  ASSUME pending' = Null, virtualGateOpen' = FALSE,
         armState' \in {"DISARMED", "MUTED", "FAULT"},
         ~persistentDoseValid' => armState' = "FAULT"
  PROVE  SafetyInv'
BY DEF SafetyInv, GateAuthority, ArmedIsHealthy, StandingToArm

\* Cancelling into a stopped state keeps SafetyInv; only DISARMED must not be
\* entered from FAULT.
LEMMA CancelSafety ==
  ASSUME SafetyInv, UNCHANGED persistentDoseValid,
         NEW target \in {"DISARMED", "MUTED", "FAULT"}, Cancel(target),
         target = "DISARMED" => armState # "FAULT"
  PROVE  SafetyInv'
<1>1. pending' = Null /\ virtualGateOpen' = FALSE
      /\ armState' \in {"DISARMED", "MUTED", "FAULT"}
  BY DEF Cancel, CancelAt
<1>2. ~persistentDoseValid' => armState' = "FAULT"
  BY DEF Cancel, CancelAt, SafetyInv, StandingToArm
<1> QED
  BY <1>1, <1>2, ClosedSafety

\* Latching a fault keeps SafetyInv.
LEMMA LatchFaultSafety == SafetyInv /\ LatchFault => SafetyInv'
BY CancelSafety DEF LatchFault, store

\* Fresh input on an ARMED controller: a newer snapshot must be healthy itself,
\* a newer heartbeat is as young as can be.
LEMMA InputSafety ==
  ASSUME TypeOK, SafetyInv,
         \/ \E s \in Arriving : SetSnapshot(s)
         \/ \E n \in 0..MaxSequence : ReceiveHeartbeat(n)
  PROVE  SafetyInv'
<1>1. CASE LatchFault
  BY <1>1, LatchFaultSafety
<1>2. ASSUME NEW s \in Arriving, ValidSnapshot(s) PROVE SafetyInv'
  <2>1. CASE Cancel("FAULT")
    BY <1>2, <2>1, CancelSafety DEF ValidSnapshot, store
  <2>2. CASE UNCHANGED output /\ ~(armState = "ARMED" /\ ~Healthy(s, now))
    <3>1. s # Null
      BY NullAssumption DEF Arriving, Snapshot, TypeOK
    <3>2. GateAuthority' /\ StandingToArm'
      BY <1>2, <2>2 DEF ValidSnapshot, SafetyInv, GateAuthority, StandingToArm,
                        output, consent, store
    <3>3. ArmedIsHealthy'
      BY <1>2, <2>2, <3>1
      DEF ValidSnapshot, SafetyInv, ArmedIsHealthy, SensorHealthy, Healthy,
          HeartbeatHealthy, output
    <3> QED
      BY <3>2, <3>3 DEF SafetyInv
  <2> QED
    BY <1>2, <2>1, <2>2 DEF ValidSnapshot
<1>3. ASSUME NEW n \in 0..MaxSequence, heartbeat' = [sequence |-> n, at |-> now],
             UNCHANGED <<now, output, sensor, replay, consent, store, cues>>
      PROVE SafetyInv'
  <2>1. heartbeat' # Null
    BY <1>3, NullAssumption DEF Heartbeat, TypeOK
  <2>2. HeartbeatHealthy(now)'
    BY <1>3, <2>1, PolicyAssumption DEF HeartbeatHealthy, TypeOK
  <2>3. GateAuthority' /\ StandingToArm'
    BY <1>3 DEF SafetyInv, GateAuthority, StandingToArm, output, consent, store
  <2>4. ArmedIsHealthy'
    BY <1>3, <2>2 DEF SafetyInv, ArmedIsHealthy, SensorHealthy, Healthy, output
  <2> QED
    BY <2>3, <2>4 DEF SafetyInv
<1> QED
  BY <1>1, <1>2, <1>3 DEF SetSnapshot, InvalidSnapshot, ReceiveHeartbeat

\* The physical events test the standing and evidence they rest on.
LEMMA PhysicalSafety ==
  ASSUME SafetyInv,
         PhysicalArm \/ PhysicalConfirm \/ PhysicalAcknowledgement \/ Maintenance
  PROVE  SafetyInv'
<1>1. GateAuthority'
  BY DEF SafetyInv, GateAuthority, PhysicalArm, PhysicalConfirm,
         PhysicalAcknowledgement, Maintenance
<1>2. ArmedIsHealthy'
  BY DEF SafetyInv, ArmedIsHealthy, PhysicalArm, PhysicalConfirm, health,
         PhysicalAcknowledgement, Maintenance, SensorHealthy, Healthy,
         HeartbeatHealthy
<1>3. StandingToArm'
  BY DEF SafetyInv, StandingToArm, PhysicalArm, PhysicalConfirm, consent, store,
         PhysicalAcknowledgement, Maintenance
<1> QED
  BY <1>1, <1>2, <1>3 DEF SafetyInv

\* A stop keeps SafetyInv.
LEMMA StopSafety ==
  ASSUME SafetyInv, Mute \/ EndSession \/ RevokeConsent \/ Dispose
  PROVE  SafetyInv'
<1>1. UNCHANGED persistentDoseValid
  BY DEF Mute, EndSession, RevokeConsent, Dispose, store
<1>2. PICK target \in {"DISARMED", "MUTED", "FAULT"} :
        Cancel(target) /\ (target = "DISARMED" => armState # "FAULT")
  BY DEF Mute, EndSession, RevokeConsent, Dispose
<1> QED
  BY <1>1, <1>2, CancelSafety

\* Challenges do not touch the output, unless their cache is full.
LEMMA ChallengeSafety ==
  ASSUME SafetyInv, NEW p \in Proposals, NEW u \in Uncertainties,
         IssueChallenge(p, u)
  PROVE  SafetyInv'
<1>1. CASE Cancel("FAULT") /\ UNCHANGED store
  BY <1>1, CancelSafety DEF store
<1>2. CASE UNCHANGED <<now, output, health, consent, store, cues>>
  BY <1>2 DEF SafetyInv, GateAuthority, ArmedIsHealthy, StandingToArm, output,
              health, consent, store, SensorHealthy, Healthy, HeartbeatHealthy
<1> QED
  BY <1>1, <1>2 DEF IssueChallenge

\* An accepted cue starts no earlier than now and ends after it starts.
LEMMA AcceptSafety ==
  ASSUME TypeOK, SafetyInv, NEW t \in Tickets, Accept(t) PROVE SafetyInv'
<1>1. now' = now /\ armState' = armState /\ armState = "ARMED"
  BY DEF Accept, Eligible
<1>2. pending' = CueOf(t) /\ pending' # Null /\ pending' \in cues'
  BY CueOfType DEF Accept
<1>3. pending'.start = t.notBefore /\ pending'.end = EndOf(t)
      /\ t.notBefore \in Nat /\ EndOf(t) \in Nat /\ t.notBefore < EndOf(t)
  BY <1>2, CueOfType DEF Cue
<1>4. now =< t.notBefore /\ now \in Nat
  BY DEF Accept, Eligible, FitsWindow, TypeOK
<1>5. virtualGateOpen' <=> t.notBefore = now
  BY DEF Accept
<1>6. GateAuthority'
  BY <1>1, <1>2, <1>3, <1>4, <1>5 DEF GateAuthority
<1>7. ArmedIsHealthy'
  BY <1>1 DEF SafetyInv, ArmedIsHealthy, Accept, health, SensorHealthy, Healthy,
              HeartbeatHealthy
<1>8. StandingToArm'
  BY <1>1 DEF SafetyInv, StandingToArm, Accept, consent
<1> QED
  BY <1>6, <1>7, <1>8 DEF SafetyInv

\* A rejected ticket closes the output.
LEMMA RejectSafety == ASSUME NEW t \in Tickets, Reject(t) PROVE SafetyInv'
BY ClosedSafety DEF Reject

\* While ARMED the deadline is still to come, and before it both pieces of
\* evidence stay fresh.
LEMMA DeadlineFuture ==
  ASSUME TypeOK, NEW t \in Nat, now =< t, armState = "ARMED", ArmedIsHealthy
  PROVE  /\ HealthDeadline \in Nat
         /\ t < HealthDeadline => SensorHealthy(t) /\ HeartbeatHealthy(t)
         /\ now < HealthDeadline
<1>1. sensor # Null /\ heartbeat # Null
  BY DEF ArmedIsHealthy, SensorHealthy, HeartbeatHealthy
<1>2. sensor.observed \in Nat /\ heartbeat.at \in Nat
  BY <1>1 DEF TypeOK, Snapshot, Heartbeat
<1>3. SensorMaxAge \in Nat /\ HeartbeatTimeout \in Nat
  BY PolicyAssumption
<1>4. HealthDeadline \in {heartbeat.at + HeartbeatTimeout,
                          sensor.observed + SensorMaxAge}
      /\ HealthDeadline =< heartbeat.at + HeartbeatTimeout
      /\ HealthDeadline =< sensor.observed + SensorMaxAge
  BY <1>1, <1>2, <1>3 DEF HealthDeadline
<1>5. /\ sensor.clean /\ sensor.quality >= MinimumConfidence
      /\ now >= sensor.observed /\ now - sensor.observed < SensorMaxAge
      /\ now >= heartbeat.at /\ now - heartbeat.at < HeartbeatTimeout
  BY DEF ArmedIsHealthy, SensorHealthy, Healthy, HeartbeatHealthy
<1>6. now \in Nat
  BY DEF TypeOK
<1>7. HealthDeadline \in Nat /\ now < HealthDeadline
  BY <1>2, <1>3, <1>4, <1>5, <1>6
<1>8. ASSUME t < HealthDeadline PROVE SensorHealthy(t) /\ HeartbeatHealthy(t)
  <2>1. /\ t >= sensor.observed /\ t - sensor.observed < SensorMaxAge
        /\ t >= heartbeat.at /\ t - heartbeat.at < HeartbeatTimeout
    BY <1>2, <1>3, <1>4, <1>5, <1>6, <1>7, <1>8
  <2> QED
    BY <1>1, <1>5, <2>1 DEF SensorHealthy, Healthy, HeartbeatHealthy
<1> QED
  BY <1>7, <1>8

\* However far the clock jumps, the cue opens, ends or is cancelled in time.
LEMMA AdvanceSafety ==
  ASSUME TypeOK, SafetyInv, NEW t \in now..MaxUs, Advance(t) PROVE SafetyInv'
<1>1. t \in Nat /\ now =< t /\ now' = t
  BY PolicyAssumption DEF TypeOK, Advance
<1>2. UNCHANGED <<health, consent, store, cues>>
  BY DEF Advance
<1>3. CASE AdvanceIdle(t)
  BY <1>1, <1>2, <1>3 DEF AdvanceIdle, SafetyInv, GateAuthority, ArmedIsHealthy,
                          StandingToArm, output, consent, store
<1>4. CASE AdvanceLapsed(t)
  BY <1>4, ClosedSafety DEF AdvanceLapsed
<1>5. CASE AdvanceHealthy(t)
  <2>1. armState = "ARMED" /\ armState' = "ARMED" /\ t < HealthDeadline
    BY <1>5 DEF AdvanceHealthy
  <2>2. SensorHealthy(t) /\ HeartbeatHealthy(t) /\ HealthDeadline \in Nat
    BY <1>1, <2>1, DeadlineFuture DEF SafetyInv
  <2>3. ArmedIsHealthy'
    BY <1>1, <1>2, <2>2 DEF ArmedIsHealthy, health, SensorHealthy, Healthy,
                            HeartbeatHealthy
  <2>4. StandingToArm'
    BY <1>2, <2>1 DEF SafetyInv, StandingToArm, consent, store
  <2>5. GateAuthority'
    <3>1. CASE pending = Null
      BY <1>5, <3>1 DEF AdvanceHealthy, SafetyInv, GateAuthority, CompletesBy,
                        StartsBy
    <3>2. CASE CompletesBy(t)
      BY <1>5, <3>2 DEF AdvanceHealthy, GateAuthority
    <3>3. CASE pending # Null /\ ~CompletesBy(t)
      <4>1. pending' = pending /\ pending.start \in Nat /\ pending.end \in Nat
        BY <1>5, <3>3 DEF AdvanceHealthy, TypeOK, Cue
      <4>2. t < pending.end
        BY <1>1, <2>1, <2>2, <3>3, <4>1 DEF CompletesBy
      <4>3. StartsBy(t) <=> pending.start =< t
        BY <1>1, <2>1, <2>2, <3>3, <4>1 DEF StartsBy
      <4>4. virtualGateOpen => pending.start =< t
        BY <1>1, <4>1 DEF SafetyInv, GateAuthority, TypeOK
      <4>5. virtualGateOpen' <=> pending.start =< t
        BY <1>5, <3>3, <4>3, <4>4 DEF AdvanceHealthy
      <4>6. pending \in cues'
        BY <1>2, <3>3 DEF SafetyInv, GateAuthority
      <4> QED
        BY <1>1, <2>1, <3>3, <4>1, <4>2, <4>5, <4>6 DEF GateAuthority
    <3> QED
      BY <3>1, <3>2, <3>3
  <2> QED
    BY <2>3, <2>4, <2>5 DEF SafetyInv
<1> QED
  BY <1>3, <1>4, <1>5 DEF Advance

\* A reboot closes the output, and a corrupt checkpoint keeps it in FAULT.
LEMMA RestartSafety ==
  ASSUME SafetyInv,
         Reboot \/ RebootFromCheckpoint \/ RebootCorrupt \/ ExportCheckpoint
  PROVE  SafetyInv'
<1>1. CASE ExportCheckpoint
  BY <1>1 DEF ExportCheckpoint, SafetyInv, GateAuthority, ArmedIsHealthy,
              StandingToArm, output, health, consent, SensorHealthy, Healthy,
              HeartbeatHealthy
<1>2. CASE Reboot \/ RebootFromCheckpoint \/ RebootCorrupt
  BY <1>2, ClosedSafety DEF Reboot, RebootFromCheckpoint, RebootCorrupt,
                            RebootFrom, Restart
<1> QED
  BY <1>1, <1>2

\* Every step of the controller keeps SafetyInv.
LEMMA SafetyStep == TypeOK /\ SafetyInv /\ [Next]_vars => SafetyInv'
<1> SUFFICES ASSUME TypeOK, SafetyInv, [Next]_vars PROVE SafetyInv'
  OBVIOUS
<1>1. CASE UNCHANGED vars
  BY <1>1 DEF vars, SafetyInv, GateAuthority, ArmedIsHealthy, StandingToArm,
              output, health, consent, store, SensorHealthy, Healthy,
              HeartbeatHealthy
<1>2. CASE WatchdogExpired \/ IssueMalformedChallenge
  BY <1>2, LatchFaultSafety DEF WatchdogExpired, IssueMalformedChallenge
<1> QED
  BY <1>1, <1>2, InputSafety, PhysicalSafety, StopSafety, ChallengeSafety,
     AcceptSafety, RejectSafety, AdvanceSafety, RestartSafety
  DEF Next, Submit

\* In every behaviour the gate is open exactly during an authorised cue's
\* window, ARMED rests on fresh evidence, and standing to arm is never regained
\* by acknowledgement, maintenance or reboot.
THEOREM SafetyCorrect == Spec => []SafetyInv
<1>1. Init => SafetyInv
  BY DEF Init, SafetyInv, GateAuthority, ArmedIsHealthy, StandingToArm
<1> QED
  BY <1>1, SafetyStep, TypeCorrect, PTL DEF Spec

\* The gate is open exactly during the window of an authorised cue on an ARMED
\* controller, and the pending cue is never past its end.
THEOREM GateFollowsCue == Spec => []GateAuthority
<1>1. SafetyInv => GateAuthority
  BY DEF SafetyInv
<1> QED
  BY <1>1, SafetyCorrect, PTL

\* ARMED never outlives the freshness of the snapshot and the heartbeat it
\* rests on.
THEOREM ArmedOnEvidence == Spec => []ArmedIsHealthy
<1>1. SafetyInv => ArmedIsHealthy
  BY DEF SafetyInv
<1> QED
  BY <1>1, SafetyCorrect, PTL

\* Consent, disposal and an unreadable dose record bar arming for good, and
\* the last of them keeps the controller in FAULT.
THEOREM StandingCorrect == Spec => []StandingToArm
<1>1. SafetyInv => StandingToArm
  BY DEF SafetyInv
<1> QED
  BY <1>1, SafetyCorrect, PTL

-----------------------------------------------------------------------------
(* Stops are latched: StopIsLatched.                                       *)

\* What StopIsLatched says of one step.
StopStep ==
  /\ armState = "MUTED" => armState' \in {"MUTED", "FAULT", "DISARMED"}
  /\ armState = "FAULT" => armState' \in {"FAULT", "DISARMED"}
  /\ (/\ armState = "FAULT" /\ bootId' = bootId
      /\ ~consentValid \/ ~persistentDoseValid \/ disposed)
     => armState' = "FAULT"

\* Cancelling into MUTED or FAULT never weakens a fault.
LEMMA CancelLatches ==
  ASSUME NEW target \in {"MUTED", "FAULT"}, NEW at, CancelAt(target, at)
  PROVE  StopStep
BY DEF CancelAt, StopStep

\* Steps that leave the arm state alone.
LEMMA SameStateLatches == armState' = armState => StopStep
BY DEF StopStep

\* Every step respects the latches.
LEMMA LatchStep ==
  ASSUME TypeOK, Next PROVE StopStep
<1>1. CASE \E s \in Arriving : SetSnapshot(s)
  BY <1>1, CancelLatches, SameStateLatches
  DEF SetSnapshot, InvalidSnapshot, ValidSnapshot, LatchFault, Cancel, output
<1>2. CASE \E n \in 0..MaxSequence : ReceiveHeartbeat(n)
  BY <1>2, CancelLatches, SameStateLatches
  DEF ReceiveHeartbeat, LatchFault, Cancel, output
<1>3. CASE \/ PhysicalArm \/ PhysicalConfirm \/ EndSession
           \/ PhysicalAcknowledgement \/ Maintenance
  BY <1>3 DEF PhysicalArm, PhysicalConfirm, EndSession, PhysicalAcknowledgement,
              Maintenance, Cancel, CancelAt, StopStep
<1>4. CASE \/ Mute \/ RevokeConsent \/ Dispose \/ WatchdogExpired
           \/ IssueMalformedChallenge
  BY <1>4, CancelLatches
  DEF Mute, RevokeConsent, Dispose, WatchdogExpired, IssueMalformedChallenge,
      LatchFault, Cancel
<1>5. CASE \E p \in Proposals, u \in Uncertainties : IssueChallenge(p, u)
  BY <1>5, CancelLatches, SameStateLatches DEF IssueChallenge, Cancel, output
<1>6. CASE \E t \in Tickets : Submit(t)
  BY <1>6, SameStateLatches DEF Submit, Accept, Reject, StopStep
<1>7. CASE \E t \in now..MaxUs : Advance(t)
  <2>1. armState' = armState \/ armState' = "FAULT"
    BY <1>7 DEF Advance, AdvanceIdle, AdvanceHealthy, AdvanceLapsed, output
  <2> QED
    BY <2>1 DEF StopStep
<1>8. CASE ExportCheckpoint
  BY <1>8, SameStateLatches DEF ExportCheckpoint, output
<1>9. CASE Reboot \/ RebootFromCheckpoint \/ RebootCorrupt
  <2>1. bootId' = bootId + 1 /\ armState' \in {"DISARMED", "FAULT"}
    BY <1>9 DEF Reboot, RebootFromCheckpoint, RebootCorrupt, RebootFrom, Restart
  <2>2. bootId' # bootId
    BY <2>1 DEF TypeOK
  <2> QED
    BY <2>1, <2>2 DEF StopStep
<1> QED
  BY <1>1, <1>2, <1>3, <1>4, <1>5, <1>6, <1>7, <1>8, <1>9 DEF Next

\* A stop is left only towards DISARMED, FAULT never weakens to MUTED, and a
\* FAULT without standing is left only by a reboot.
THEOREM StopsAreLatched == Spec => StopIsLatched
<1>1. TypeOK /\ [Next]_vars => [StopStep]_vars
  BY LatchStep
<1> QED
  BY <1>1, TypeCorrect, PTL DEF Spec, StopIsLatched, StopStep
=============================================================================
