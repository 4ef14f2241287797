--------------------------- MODULE SafetyHistoryProofs ---------------------------
(***************************************************************************)
(* Proofs about what the controller remembers: authorisations are spent    *)
(* once, reserved dose is kept, cues are spaced and within their budget,   *)
(* receipts are ordered and close every cue, and the controller implements *)
(* SafetyGate.                                                             *)
(***************************************************************************)
EXTENDS SafetyControllerProofs, DataInduction

-----------------------------------------------------------------------------
(* SingleUse, by way of SpentInv.                                          *)

\* The steps that touch neither the replay caches nor the history of cues.
ReplayIdle == UNCHANGED <<replay, cues>>

\* A step that leaves the caches and the history alone keeps SpentInv.
LEMMA SpentIdle == SpentInv /\ ReplayIdle => SpentInv'
BY DEF SpentInv, SingleUse, ReplayIdle, replay

\* Issuing a challenge keeps SpentInv: its number is new.
LEMMA SpentIssue ==
  ASSUME TypeOK, SpentInv, NEW p \in Proposals, NEW u \in Uncertainties,
         IssueChallenge(p, u)
  PROVE  SpentInv'
<1>1. UNCHANGED <<bootId, tickets, highestSequence, cues>>
  BY DEF IssueChallenge
<1>2. SingleUse'
  BY <1>1 DEF SpentInv, SingleUse
<1>3. /\ challengeCounter \in Nat
      /\ \A c \in challenges : c.id \in Nat
      /\ \A d \in cues : d.challengeId \in Nat
  BY DEF TypeOK, Challenge, Cue
<1>4. CASE challenges' = LiveChallenges /\ challengeCounter' = challengeCounter
  BY <1>1, <1>2, <1>4 DEF SpentInv, LiveChallenges
<1>5. CASE /\ challengeCounter' = challengeCounter + 1
           /\ challenges' = LiveChallenges \cup
                {[id |-> challengeCounter', issued |-> now, proposal |-> p,
                  uncertainty |-> u]}
  <2>1. \A c \in challenges' : c \in challenges \/ c.id = challengeCounter + 1
    BY <1>5 DEF LiveChallenges
  <2>2. \A c \in challenges' :
          c.id =< challengeCounter' /\ \A d \in cues' : d.challengeId # c.id
    BY <1>1, <1>3, <1>5, <2>1 DEF SpentInv
  <2>3. \A d \in cues' :
          /\ d.challengeId =< challengeCounter'
          /\ d.bootId =< bootId'
          /\ d.bootId = bootId' =>
               d.ticketId \in tickets' /\ d.sequence =< highestSequence'
    <3>1. \A d \in cues : d.challengeId =< challengeCounter
      BY DEF SpentInv
    <3>2. \A d \in cues : d.challengeId =< challengeCounter + 1
      BY <1>3, <3>1
    <3>3. \A d \in cues :
            /\ d.bootId =< bootId
            /\ d.bootId = bootId =>
                 d.ticketId \in tickets /\ d.sequence =< highestSequence
      BY DEF SpentInv
    <3> QED
      BY <1>1, <1>5, <3>2, <3>3
  <2> QED
    BY <1>2, <2>2, <2>3 DEF SpentInv
<1> QED
  BY <1>4, <1>5 DEF IssueChallenge

\* Accepting a ticket keeps SpentInv: its challenge was unspent, and its
\* identity and sequence number are new in this boot.
LEMMA SpentAccept ==
  ASSUME TypeOK, SpentInv, NEW t \in Tickets, Accept(t) PROVE SpentInv'
<1> DEFINE new == CueOf(t)
<1>1. /\ t \in CueTicket /\ new \in Cue /\ new.challengeId = t.challengeId
      /\ new.ticketId = t.ticketId /\ new.sequence = t.sequence
      /\ new.bootId = t.bootId
  BY TicketAssumption, CueOfType
<1>2. /\ t.bootId = bootId
      /\ t.ticketId \notin tickets /\ t.sequence > highestSequence
      /\ \E c \in challenges : c.id = t.challengeId
  BY DEF Accept, Eligible, Authentic, NotReplayed
<1>3. /\ challenges' = {c \in challenges : c.id # t.challengeId}
      /\ tickets' = tickets \cup {t.ticketId} /\ highestSequence' = t.sequence
      /\ cues' = cues \cup {new}
      /\ bootId' = bootId /\ challengeCounter' = challengeCounter
  BY DEF Accept
<1>4. /\ t.sequence \in Nat /\ highestSequence \in Int /\ bootId \in Nat
      /\ \A d \in cues : d.sequence \in Nat
  <2>1. t.sequence \in Nat
    BY <1>1 DEF CueTicket
  <2>2. highestSequence \in Int /\ bootId \in Nat /\ cues \subseteq Cue
    BY DEF TypeOK
  <2>3. \A d \in Cue : d.sequence \in Nat
    BY DEF Cue
  <2> QED
    BY <2>1, <2>2, <2>3
<1>5. \A d \in cues : d.challengeId # t.challengeId
  BY <1>2 DEF SpentInv
<1>6. t.challengeId =< challengeCounter
  BY <1>2 DEF SpentInv
<1>7. \A d \in cues : d.bootId = bootId =>
        /\ d.ticketId \in tickets /\ d.ticketId # t.ticketId
        /\ d.sequence =< highestSequence /\ d.sequence < t.sequence
  BY <1>2, <1>4 DEF SpentInv
<1>8. SingleUse'
  <2>1. \A d \in cues : /\ d.challengeId # new.challengeId
                        /\ d.bootId = new.bootId =>
                             d.ticketId # new.ticketId /\ d.sequence # new.sequence
    BY <1>1, <1>2, <1>4, <1>5, <1>7
  <2> HIDE DEF new
  <2> QED
    BY <1>3, <2>1 DEF SpentInv, SingleUse
<1>9. \A c \in challenges' :
        c.id =< challengeCounter' /\ \A d \in cues' : d.challengeId # c.id
  BY <1>1, <1>3 DEF SpentInv
<1>10. \A d \in cues' :
         /\ d.challengeId =< challengeCounter'
         /\ d.bootId =< bootId'
         /\ d.bootId = bootId' =>
              d.ticketId \in tickets' /\ d.sequence =< highestSequence'
  <2>1. new.challengeId =< challengeCounter /\ new.bootId =< bootId
        /\ new.ticketId \in tickets' /\ new.sequence =< highestSequence'
    BY <1>1, <1>2, <1>3, <1>4, <1>6
  <2>2. \A d \in cues : d.bootId = bootId =>
          d.ticketId \in tickets' /\ d.sequence =< highestSequence'
    BY <1>3, <1>4, <1>7
  <2> HIDE DEF new
  <2> QED
    BY <1>3, <2>1, <2>2 DEF SpentInv
<1> QED
  BY <1>8, <1>9, <1>10 DEF SpentInv

\* A reboot keeps SpentInv although it empties the caches: no cue is of the
\* new boot.
LEMMA SpentRestart ==
  ASSUME TypeOK, SpentInv, NEW state, Restart(state) PROVE SpentInv'
<1>1. /\ challenges' = {} /\ cues' = cues /\ bootId' = bootId + 1
      /\ challengeCounter' = challengeCounter
  BY DEF Restart
<1>2. bootId \in Nat /\ \A d \in cues : d.bootId \in Nat
  BY DEF TypeOK, Cue
<1>3. \A d \in cues : d.bootId =< bootId' /\ d.bootId # bootId'
  BY <1>1, <1>2 DEF SpentInv
<1>4. SingleUse'
  BY <1>1 DEF SpentInv, SingleUse
<1> QED
  BY <1>1, <1>3, <1>4 DEF SpentInv

\* Every step of the controller keeps SpentInv.
LEMMA SpentStep == TypeOK /\ SpentInv /\ [Next]_vars => SpentInv'
<1> SUFFICES ASSUME TypeOK, SpentInv, [Next]_vars PROVE SpentInv'
  OBVIOUS
<1>1. CASE UNCHANGED vars
  BY <1>1, SpentIdle DEF vars, ReplayIdle
<1>2. CASE \E s \in Arriving : SetSnapshot(s)
  BY <1>2, SpentIdle
  DEF SetSnapshot, InvalidSnapshot, ValidSnapshot, LatchFault, ReplayIdle
<1>3. CASE \E n \in 0..MaxSequence : ReceiveHeartbeat(n)
  BY <1>3, SpentIdle DEF ReceiveHeartbeat, LatchFault, ReplayIdle
<1>4. CASE \/ PhysicalArm \/ PhysicalConfirm \/ PhysicalAcknowledgement
           \/ Maintenance
  BY <1>4, SpentIdle DEF PhysicalArm, PhysicalConfirm, PhysicalAcknowledgement,
                         Maintenance, ReplayIdle
<1>5. CASE \/ Mute \/ EndSession \/ RevokeConsent \/ Dispose
           \/ WatchdogExpired \/ IssueMalformedChallenge
  BY <1>5, SpentIdle DEF Mute, EndSession, RevokeConsent, Dispose, ReplayIdle,
                         WatchdogExpired, IssueMalformedChallenge, LatchFault
<1>6. CASE \E t \in Tickets : Reject(t)
  BY <1>6, SpentIdle DEF Reject, ReplayIdle
<1>7. CASE \E t \in now..MaxUs : Advance(t)
  BY <1>7, SpentIdle DEF Advance, ReplayIdle
<1>8. CASE ExportCheckpoint
  BY <1>8, SpentIdle DEF ExportCheckpoint, ReplayIdle
<1>9. CASE Reboot \/ RebootFromCheckpoint \/ RebootCorrupt
  BY <1>9, SpentRestart
  DEF Reboot, RebootFromCheckpoint, RebootCorrupt, RebootFrom
<1> QED
  BY <1>1, <1>2, <1>3, <1>4, <1>5, <1>6, <1>7, <1>8, <1>9, SpentIssue, SpentAccept
  DEF Next, Submit

\* The replay caches and the challenge counter together always know every
\* authorisation spent so far.
THEOREM SpentCorrect == Spec => []SpentInv
<1>1. Init => SpentInv
  BY DEF Init, SpentInv, SingleUse
<1> QED
  BY <1>1, SpentStep, TypeCorrect, PTL DEF Spec

\* No challenge authorises two cues, and no ticket identity or sequence number
\* authorises two cues of one boot (submit, reboot).
THEOREM SingleUseCorrect == Spec => []SingleUse
<1>1. SpentInv => SingleUse
  BY DEF SpentInv
<1> QED
  BY <1>1, SpentCorrect, PTL

-----------------------------------------------------------------------------
(* DoseConserved and CooldownSpacing: the dose record knows every cue that *)
(* is still in its rolling window, so testing a new cue against the record *)
(* spaces it from every earlier cue.                                       *)

DoseInv == DoseConserved /\ CooldownSpacing

\* What an accepted cue leaves on the dose record.
DoseOf(c) == [modality |-> c.modality, until |-> c.end, duration |-> c.duration]

\* A dose inside its rolling window survives pruning.
LEMMA PruneKeeps ==
  ASSUME DoseConserved, ~rolledBack, NEW c \in cues, now < c.end + RollingWindow
  PROVE  DoseOf(c) \in RetainedDose(now)
BY DEF DoseConserved, DoseOf, RetainedDose

\* A step that does not add a cue keeps DoseInv when what it leaves on the
\* record includes every dose retained so far.
LEMMA DoseKept ==
  ASSUME TypeOK, DoseInv, cues' = cues, now' \in Nat, now =< now',
         rolledBack' = FALSE => rolledBack = FALSE /\ RetainedDose(now) \subseteq dose'
  PROVE  DoseInv'
<1>1. /\ now \in Nat
      /\ RollingWindow \in Nat
      /\ \A c \in cues : c.end \in Nat
  BY PolicyAssumption DEF TypeOK, Cue
<1>2. CooldownSpacing'
  BY DEF DoseInv, CooldownSpacing, TypeOK
<1>3. ASSUME ~rolledBack', NEW c \in cues, now' < c.end + RollingWindow
      PROVE  DoseOf(c) \in dose'
  <2>1. now < c.end + RollingWindow
    BY <1>1, <1>3
  <2>2. ~rolledBack /\ RetainedDose(now) \subseteq dose'
    BY <1>3
  <2> QED
    BY <2>1, <2>2, PruneKeeps DEF DoseInv
<1>4. DoseConserved'
  BY <1>3 DEF DoseConserved, DoseOf
<1> QED
  BY <1>2, <1>4 DEF DoseInv

\* A step that leaves the clock, the dose record and the cues alone.
LEMMA DoseIdle ==
  ASSUME DoseInv, UNCHANGED <<now, dose, rolledBack, cues>> PROVE DoseInv'
BY DEF DoseInv, DoseConserved, CooldownSpacing

\* An accepted cue starts after every earlier cue of its modality.
LEMMA AcceptSpaced ==
  ASSUME TypeOK, DoseConserved, ~rolledBack, NEW t \in Tickets, Accept(t),
         NEW c \in cues, c.modality = t.modality
  PROVE  c.end + MinGap(t.modality) =< t.notBefore
<1>1. t \in CueTicket
  BY TicketAssumption
<1>2. /\ now =< t.notBefore
      /\ \A d \in RetainedDose(now) : d.modality = t.modality =>
           t.notBefore >= d.until + Cooldown[t.modality]
  BY DEF Accept, Eligible, FitsWindow, WithinDose, SameModality
<1>3. /\ now \in Nat /\ RollingWindow \in Nat /\ t.notBefore \in Nat
      /\ t.modality \in Modalities /\ Cooldown[t.modality] \in Nat
      /\ c.end \in Nat
  BY <1>1, PolicyAssumption DEF TypeOK, Cue, CueTicket
<1>4. /\ MinGap(t.modality) \in Nat
      /\ MinGap(t.modality) =< Cooldown[t.modality]
      /\ MinGap(t.modality) =< RollingWindow
  BY <1>3 DEF MinGap
<1>5. CASE now < c.end + RollingWindow
  <2>1. DoseOf(c) \in RetainedDose(now)
    BY <1>5, PruneKeeps
  <2>2. DoseOf(c).modality = t.modality /\ DoseOf(c).until = c.end
    BY DEF DoseOf
  <2>3. t.notBefore >= c.end + Cooldown[t.modality]
    BY <1>2, <2>1, <2>2
  <2> QED
    BY <1>3, <1>4, <2>3
<1>6. CASE ~(now < c.end + RollingWindow)
  BY <1>2, <1>3, <1>4, <1>6
<1> QED
  BY <1>5, <1>6

\* Accepting a cue keeps DoseInv: an earlier cue of its modality is either on
\* the record, which the new cue was tested against, or out of its window.
LEMMA DoseAccept ==
  ASSUME TypeOK, DoseInv, NEW t \in Tickets, Accept(t) PROVE DoseInv'
<1> DEFINE new == CueOf(t)
<1>1. /\ t \in CueTicket /\ new \in Cue
      /\ new.start = t.notBefore /\ new.end = EndOf(t)
  BY TicketAssumption, CueOfType
<1>2. new.modality = t.modality /\ new.duration = t.duration
  BY DEF CueOf
<1>3. /\ now' = now /\ rolledBack' = rolledBack /\ cues' = cues \cup {new}
      /\ dose' = RetainedDose(now) \cup {DoseOf(new)}
  BY <1>1, <1>2 DEF Accept, DoseOf
<1>4. ASSUME ~rolledBack, NEW c \in cues, c.modality = t.modality
      PROVE  c.end + MinGap(t.modality) =< new.start
  BY <1>1, <1>4, AcceptSpaced DEF DoseInv
<1>5. DoseConserved'
  <2>1. ASSUME ~rolledBack, NEW c \in cues, now < c.end + RollingWindow
        PROVE  DoseOf(c) \in dose'
    BY <1>3, <2>1, PruneKeeps DEF DoseInv
  <2>2. DoseOf(new) \in dose'
    BY <1>3
  <2> HIDE DEF new
  <2> QED
    BY <1>3, <2>1, <2>2 DEF DoseConserved, DoseOf
<1>6. CooldownSpacing'
  <2> HIDE DEF new
  <2> QED
    BY <1>2, <1>3, <1>4 DEF DoseInv, CooldownSpacing
<1> QED
  BY <1>5, <1>6 DEF DoseInv

\* Every step of the controller keeps DoseInv.
LEMMA DoseStep == TypeOK /\ DoseInv /\ [Next]_vars => DoseInv'
<1> SUFFICES ASSUME TypeOK, DoseInv, [Next]_vars PROVE DoseInv'
  OBVIOUS
<1>1. CASE UNCHANGED vars
  BY <1>1, DoseIdle DEF vars, store
<1>2. CASE \E s \in Arriving : SetSnapshot(s)
  BY <1>2, DoseIdle DEF SetSnapshot, InvalidSnapshot, ValidSnapshot, LatchFault, store
<1>3. CASE \E n \in 0..MaxSequence : ReceiveHeartbeat(n)
  BY <1>3, DoseIdle DEF ReceiveHeartbeat, LatchFault, store
<1>4. CASE \/ PhysicalArm \/ PhysicalConfirm \/ PhysicalAcknowledgement
           \/ Maintenance
  BY <1>4, DoseIdle DEF PhysicalArm, PhysicalConfirm, PhysicalAcknowledgement,
                        Maintenance, store
<1>5. CASE \/ Mute \/ EndSession \/ RevokeConsent \/ Dispose
           \/ WatchdogExpired \/ IssueMalformedChallenge
  BY <1>5, DoseIdle DEF Mute, EndSession, RevokeConsent, Dispose, store,
                        WatchdogExpired, IssueMalformedChallenge, LatchFault
<1>6. CASE \E p \in Proposals, u \in Uncertainties : IssueChallenge(p, u)
  BY <1>6, DoseIdle DEF IssueChallenge, store
<1>7. CASE \E t \in Tickets : Reject(t)
  <2>1. now' = now /\ cues' = cues /\ rolledBack' = rolledBack
    BY <1>7 DEF Reject
  <2>2. RetainedDose(now) \subseteq dose'
    BY <1>7 DEF Reject, RetainedDose
  <2>3. now' \in Nat /\ now =< now'
    BY <2>1 DEF TypeOK
  <2>4. rolledBack' = FALSE => rolledBack = FALSE /\ RetainedDose(now) \subseteq dose'
    BY <2>1, <2>2
  <2> QED
    BY <2>1, <2>3, <2>4, DoseKept
<1>8. CASE \E t \in now..MaxUs : Advance(t)
  <2>1. now' \in Nat /\ now =< now'
    BY <1>8, PolicyAssumption DEF Advance, TypeOK
  <2>2. cues' = cues /\ rolledBack' = rolledBack /\ dose' = dose
    BY <1>8 DEF Advance, store
  <2>3. RetainedDose(now) \subseteq dose'
    BY <2>2 DEF RetainedDose
  <2> QED
    BY <2>1, <2>2, <2>3, DoseKept
<1>9. CASE ExportCheckpoint
  BY <1>9, DoseIdle DEF ExportCheckpoint
<1>10. CASE RebootCorrupt
  BY <1>10, DoseIdle DEF RebootCorrupt, Restart
<1>11. CASE Reboot \/ RebootFromCheckpoint
  <2>1. PICK saved : RebootFrom(saved)
    BY <1>11 DEF Reboot, RebootFromCheckpoint
  <2>2. now' = now /\ cues' = cues /\ dose' = saved
        /\ rolledBack' = (rolledBack \/ ~(RetainedDose(now) \subseteq saved))
    BY <2>1 DEF RebootFrom, Restart
  <2>3. now' \in Nat /\ now =< now' /\ rolledBack \in BOOLEAN
    BY <2>2 DEF TypeOK
  <2>4. rolledBack' = FALSE => rolledBack = FALSE /\ RetainedDose(now) \subseteq dose'
    BY <2>2, <2>3
  <2> QED
    BY <2>2, <2>3, <2>4, DoseKept
<1> QED
  BY <1>1, <1>2, <1>3, <1>4, <1>5, <1>6, <1>7, <1>8, <1>9, <1>10, <1>11, DoseAccept
  DEF Next, Submit

\* Reserved dose is kept while its rolling window runs, through cancellation,
\* faults and reboots, unless the host restores an older checkpoint.
THEOREM DoseConservedCorrect == Spec => []DoseConserved
<1>1. Init => DoseInv
  BY DEF Init, DoseInv, DoseConserved, CooldownSpacing
<1>2. DoseInv => DoseConserved
  BY DEF DoseInv
<1> QED
  BY <1>1, <1>2, DoseStep, TypeCorrect, PTL DEF Spec

\* Any two cues of one modality are apart by the cooldown, or by the rolling
\* window where a policy makes that the shorter of the two.
THEOREM CooldownSpacingCorrect == Spec => []CooldownSpacing
<1>1. Init => DoseInv
  BY DEF Init, DoseInv, DoseConserved, CooldownSpacing
<1>2. DoseInv => CooldownSpacing
  BY DEF DoseInv
<1> QED
  BY <1>1, <1>2, DoseStep, TypeCorrect, PTL DEF Spec

-----------------------------------------------------------------------------
(* Sums of durations.  SumDuration is a recursion over the subsets of a    *)
(* finite set, so what it computes is proved by induction over them.       *)

\* The recursion by which SumDuration adds up the subsets of S.
SumsOn(S, g) ==
  g = [s \in SUBSET S |->
         IF s = {} THEN 0
         ELSE (CHOOSE x \in s : TRUE).duration + g[s \ {CHOOSE x \in s : TRUE}]]

\* Finitely many things with a duration.
Timed(S) == IsFiniteSet(S) /\ \A x \in S : x.duration \in Nat

\* The recursion has a solution, built up one size of subset after another.
LEMMA SumsExist ==
  ASSUME NEW S, Timed(S)
  PROVE  \E g \in [SUBSET S -> Nat] : SumsOn(S, g)
<1> DEFINE pick(s) == CHOOSE x \in s : TRUE
           Step(g) == [s \in SUBSET S |->
                         IF s = {} THEN 0
                         ELSE pick(s).duration + g[s \ {pick(s)}]]
           N == {n \in Nat : \E g \in [SUBSET S -> Nat] :
                   \A s \in SUBSET S : Cardinality(s) =< n => g[s] = Step(g)[s]}
<1>0. /\ \A s \in SUBSET S : IsFiniteSet(s) /\ Cardinality(s) \in Nat
      /\ \A s \in SUBSET S : Cardinality(s) =< Cardinality(S)
      /\ \A s \in SUBSET S : Cardinality(s) = 0 <=> s = {}
  BY FS_Subset, FS_CardinalityType, FS_EmptySet DEF Timed
<1>1. \A s \in SUBSET S : s # {} => pick(s) \in s
  OBVIOUS
<1>2. \A s \in SUBSET S : s # {} =>
        /\ s \ {pick(s)} \in SUBSET S
        /\ Cardinality(s \ {pick(s)}) = Cardinality(s) - 1
        /\ pick(s).duration \in Nat
  BY <1>0, <1>1, FS_RemoveElement DEF Timed
<1> HIDE DEF pick
<1>3. ASSUME NEW g \in [SUBSET S -> Nat] PROVE Step(g) \in [SUBSET S -> Nat]
  <2>1. \A s \in SUBSET S : s # {} =>
          pick(s).duration \in Nat /\ g[s \ {pick(s)}] \in Nat
    BY <1>2
  <2>2. \A s \in SUBSET S :
          (IF s = {} THEN 0 ELSE pick(s).duration + g[s \ {pick(s)}]) \in Nat
    BY <2>1
  <2> QED
    BY <2>2
<1>4. 0 \in N
  <2> DEFINE g == [s \in SUBSET S |-> 0]
  <2>1. g \in [SUBSET S -> Nat]
    OBVIOUS
  <2>2. \A s \in SUBSET S : Cardinality(s) =< 0 => g[s] = Step(g)[s]
    BY <1>0
  <2> QED
    BY <2>1, <2>2
<1>5. ASSUME NEW n \in N PROVE n + 1 \in N
  <2>1. PICK g \in [SUBSET S -> Nat] :
          \A s \in SUBSET S : Cardinality(s) =< n => g[s] = Step(g)[s]
    OBVIOUS
  <2>2. ASSUME NEW s \in SUBSET S, Cardinality(s) =< n + 1
        PROVE  Step(g)[s] = Step(Step(g))[s]
    <3>1. CASE s = {}
      BY <3>1
    <3>2. CASE s # {}
      <4>1. /\ s \ {pick(s)} \in SUBSET S
            /\ Cardinality(s \ {pick(s)}) =< n
        BY <1>0, <1>2, <2>2, <3>2
      <4>2. g[s \ {pick(s)}] = Step(g)[s \ {pick(s)}]
        BY <2>1, <4>1
      <4>3. /\ Step(g)[s] = pick(s).duration + g[s \ {pick(s)}]
            /\ Step(Step(g))[s] = pick(s).duration + Step(g)[s \ {pick(s)}]
        BY <2>2, <3>2
      <4> HIDE DEF Step
      <4> QED
        BY <4>2, <4>3
    <3> QED
      BY <3>1, <3>2
  <2>3. Step(g) \in [SUBSET S -> Nat]
    BY <1>3
  <2> HIDE DEF Step
  <2> QED
    BY <2>2, <2>3
<1>6. N = Nat
  <2>1. N \in SUBSET Nat
    OBVIOUS
  <2> HIDE DEF N
  <2> QED
    BY <1>4, <1>5, <2>1, NatSetInduction
<1>7. Cardinality(S) \in Nat
  BY <1>0
<1>8. PICK g \in [SUBSET S -> Nat] : \A s \in SUBSET S :
        Cardinality(s) =< Cardinality(S) => g[s] = Step(g)[s]
  <2> HIDE DEF Step
  <2> QED
    BY <1>6, <1>7
<1>9. g = Step(g)
  <2>1. \A s \in SUBSET S : g[s] = Step(g)[s]
    BY <1>0, <1>8
  <2>2. Step(g) = [s \in SUBSET S |-> Step(g)[s]]
    OBVIOUS
  <2> HIDE DEF Step
  <2> QED
    BY <2>1, <2>2
<1> QED
  BY <1>9 DEF SumsOn, pick

\* SumDuration is the value at S of a solution.
LEMMA SumUnfold ==
  ASSUME NEW S, Timed(S)
  PROVE  \E g : SumsOn(S, g) /\ SumDuration(S) = g[S]
<1> DEFINE h == CHOOSE h : SumsOn(S, h)
<1>1. SumsOn(S, h)
  BY SumsExist
<1>2. SumDuration(S) = h[S]
  BY DEF SumDuration, MapThenSumSet, MapThenFoldSet, SumsOn
<1> QED
  BY <1>1, <1>2

\* Any solution on a larger set gives the sums of all its subsets.
LEMMA SumsAgree ==
  ASSUME NEW S, Timed(S), NEW g, SumsOn(S, g), NEW T \in SUBSET S
  PROVE  SumDuration(T) = g[T]
<1>1. Timed(T)
  BY FS_Subset DEF Timed
<1>2. PICK h : SumsOn(T, h) /\ SumDuration(T) = h[T]
  BY <1>1, SumUnfold
<1> DEFINE C == {V \in SUBSET T : g[V] = h[V]}
<1>3. ASSUME NEW V \in SUBSET T, \A x \in V : V \ {x} \in C PROVE V \in C
  <2>1. CASE V = {}
    BY <1>2, <2>1 DEF SumsOn
  <2>2. CASE V # {}
    <3> DEFINE c == CHOOSE x \in V : TRUE
    <3>1. c \in V /\ V \ {c} \in C
      BY <1>3, <2>2
    <3>2. g[V] = c.duration + g[V \ {c}] /\ h[V] = c.duration + h[V \ {c}]
      BY <1>2, <2>2 DEF SumsOn
    <3> QED
      BY <3>1, <3>2
  <2> QED
    BY <2>1, <2>2
<1>4. C = SUBSET T
  <2>1. C \in SUBSET (SUBSET T)
    OBVIOUS
  <2> HIDE DEF C
  <2> QED
    BY <1>1, <1>3, <2>1, SubsetInduction DEF Timed
<1>5. T \in C
  BY <1>4
<1> QED
  BY <1>2, <1>5

\* A sum of durations is a number, and that of no dose is 0.
LEMMA SumType ==
  ASSUME NEW S, Timed(S)
  PROVE  SumDuration(S) \in Nat /\ SumDuration({}) = 0
<1>1. PICK g \in [SUBSET S -> Nat] : SumsOn(S, g)
  BY SumsExist
<1>2. SumDuration(S) = g[S] /\ SumDuration({}) = g[{}]
  BY <1>1, SumsAgree
<1>3. g[{}] = 0
  BY <1>1 DEF SumsOn
<1> QED
  BY <1>2, <1>3

\* Any element can be taken out of the sum.
LEMMA SumSplit ==
  ASSUME NEW S, Timed(S), NEW x \in S
  PROVE  SumDuration(S) = x.duration + SumDuration(S \ {x})
<1>1. PICK g \in [SUBSET S -> Nat] : SumsOn(S, g)
  BY SumsExist
<1> DEFINE C == {V \in SUBSET S : \A y \in V : g[V] = y.duration + g[V \ {y}]}
<1>2. ASSUME NEW V \in SUBSET S, \A y \in V : V \ {y} \in C PROVE V \in C
  <2> SUFFICES ASSUME NEW y \in V PROVE g[V] = y.duration + g[V \ {y}]
    OBVIOUS
  <2> DEFINE c == CHOOSE z \in V : TRUE
  <2>1. c \in V /\ g[V] = c.duration + g[V \ {c}]
    BY <1>1 DEF SumsOn
  <2> HIDE DEF c
  <2>2. CASE y = c
    BY <2>1, <2>2
  <2>3. CASE y # c
    <3>1. g[V \ {c}] = y.duration + g[(V \ {c}) \ {y}]
      BY <1>2, <2>1, <2>3
    <3>2. g[V \ {y}] = c.duration + g[(V \ {y}) \ {c}]
      BY <1>2, <2>1, <2>3
    <3>3. (V \ {c}) \ {y} = (V \ {y}) \ {c}
      OBVIOUS
    <3>4. /\ y.duration \in Nat /\ c.duration \in Nat
          /\ g[(V \ {y}) \ {c}] \in Nat
      BY <2>1 DEF Timed
    <3> DEFINE rest == g[(V \ {y}) \ {c}]
    <3>5. /\ g[V] = c.duration + (y.duration + rest)
          /\ g[V \ {y}] = c.duration + rest
      BY <2>1, <3>1, <3>2, <3>3
    <3>6. rest \in Nat
      BY <3>4
    <3> HIDE DEF rest
    <3> QED
      BY <3>4, <3>5, <3>6
  <2> QED
    BY <2>2, <2>3
<1>3. C = SUBSET S
  <2>1. C \in SUBSET (SUBSET S)
    OBVIOUS
  <2> HIDE DEF C
  <2> QED
    BY <1>2, <2>1, SubsetInduction DEF Timed
<1>4. g[S] = x.duration + g[S \ {x}]
  BY <1>3
<1> QED
  BY <1>1, <1>4, SumsAgree

\* Matching every element of S with one of T as long adds up to no more.
LEMMA SumMatched ==
  ASSUME NEW S, Timed(S), NEW T, Timed(T), NEW f \in [S -> T],
         \A x \in S : f[x].duration = x.duration,
         \A x, y \in S : f[x] = f[y] => x = y
  PROVE  SumDuration(S) =< SumDuration(T)
<1> DEFINE C == {V \in SUBSET S : \A W \in SUBSET T :
                   (\A x \in V : f[x] \in W) => SumDuration(V) =< SumDuration(W)}
<1>0. \A V \in SUBSET S, W \in SUBSET T : Timed(V) /\ Timed(W)
  BY FS_Subset DEF Timed
<1>1. ASSUME NEW V \in SUBSET S, \A y \in V : V \ {y} \in C PROVE V \in C
  <2> SUFFICES ASSUME NEW W \in SUBSET T, \A x \in V : f[x] \in W
               PROVE  SumDuration(V) =< SumDuration(W)
    OBVIOUS
  <2>0. SumDuration(W) \in Nat
    BY <1>0, SumType
  <2>1. CASE V = {}
    BY <1>0, <2>0, <2>1, SumType
  <2>2. CASE V # {}
    <3>1. PICK x \in V : TRUE
      BY <2>2
    <3>2. SumDuration(V \ {x}) =< SumDuration(W \ {f[x]})
      <4>1. \A y \in V \ {x} : f[y] \in W \ {f[x]}
        BY <3>1
      <4> QED
        BY <1>1, <3>1, <4>1
    <3>3. SumDuration(V) = x.duration + SumDuration(V \ {x})
      BY <1>0, <3>1, SumSplit
    <3>4. SumDuration(W) = f[x].duration + SumDuration(W \ {f[x]})
      BY <1>0, <3>1, SumSplit
    <3>5. /\ SumDuration(V \ {x}) \in Nat /\ SumDuration(W \ {f[x]}) \in Nat
          /\ x.duration \in Nat /\ f[x].duration = x.duration
      <4>1. Timed(V \ {x}) /\ Timed(W \ {f[x]}) /\ Timed(V)
        BY <1>0
      <4> QED
        BY <3>1, <4>1, SumType DEF Timed
    <3> QED
      BY <3>2, <3>3, <3>4, <3>5
  <2> QED
    BY <2>1, <2>2
<1>2. C = SUBSET S
  <2>1. C \in SUBSET (SUBSET S)
    OBVIOUS
  <2> HIDE DEF C
  <2> QED
    BY <1>1, <2>1, SubsetInduction DEF Timed
<1>3. S \in C
  BY <1>2
<1> QED
  BY <1>3

-----------------------------------------------------------------------------
(* DoseBudget: the doses on record stand, one by one, for the cues that    *)
(* share a rolling window with a new cue.                                  *)

\* The records are finite, as the arrays they stand for are, and no cue ends
\* before it starts.
FiniteInv ==
  /\ IsFiniteSet(dose) /\ IsFiniteSet(cues)
  /\ checkpoint # Null => IsFiniteSet(checkpoint)
  /\ \A c \in cues : c.start < c.end

\* Steps that leave the records alone, or only prune the dose record.
LEMMA FiniteKept ==
  ASSUME FiniteInv, cues' = cues, dose' \subseteq dose,
         checkpoint' = checkpoint \/ checkpoint' = dose
  PROVE  FiniteInv'
BY FS_Subset DEF FiniteInv

\* Accepting a ticket adds one dose and one cue, which ends after it starts.
LEMMA FiniteAccept ==
  ASSUME TypeOK, FiniteInv, NEW t \in Tickets, Accept(t) PROVE FiniteInv'
<1>1. /\ dose' = RetainedDose(now) \cup
           {[modality |-> t.modality, until |-> EndOf(t), duration |-> t.duration]}
      /\ cues' = cues \cup {CueOf(t)} /\ checkpoint' = checkpoint
  BY DEF Accept
<1>2. IsFiniteSet(RetainedDose(now))
  BY FS_Subset DEF FiniteInv, RetainedDose
<1>3. IsFiniteSet(dose') /\ IsFiniteSet(cues')
  BY <1>1, <1>2, FS_AddElement DEF FiniteInv
<1>4. CueOf(t).start < CueOf(t).end
  BY CueOfType
<1> QED
  BY <1>1, <1>3, <1>4 DEF FiniteInv

\* Every step of the controller keeps FiniteInv.
LEMMA FiniteStep == TypeOK /\ FiniteInv /\ [Next]_vars => FiniteInv'
<1> SUFFICES ASSUME TypeOK, FiniteInv, [Next]_vars PROVE FiniteInv'
  OBVIOUS
<1>1. CASE UNCHANGED vars
  BY <1>1, FiniteKept DEF vars, store
<1>2. CASE \E s \in Arriving : SetSnapshot(s)
  BY <1>2, FiniteKept DEF SetSnapshot, InvalidSnapshot, ValidSnapshot, LatchFault, store
<1>3. CASE \E n \in 0..MaxSequence : ReceiveHeartbeat(n)
  BY <1>3, FiniteKept DEF ReceiveHeartbeat, LatchFault, store
<1>4. CASE \/ PhysicalArm \/ PhysicalConfirm \/ PhysicalAcknowledgement
           \/ Maintenance
  BY <1>4, FiniteKept DEF PhysicalArm, PhysicalConfirm, PhysicalAcknowledgement,
                        Maintenance, store
<1>5. CASE \/ Mute \/ EndSession \/ RevokeConsent \/ Dispose
           \/ WatchdogExpired \/ IssueMalformedChallenge
  BY <1>5, FiniteKept DEF Mute, EndSession, RevokeConsent, Dispose, store,
                        WatchdogExpired, IssueMalformedChallenge, LatchFault
<1>6. CASE \E p \in Proposals, u \in Uncertainties : IssueChallenge(p, u)
  BY <1>6, FiniteKept DEF IssueChallenge, store
<1>7. CASE \E t \in Tickets : Reject(t)
  BY <1>7, FiniteKept DEF Reject, RetainedDose
<1>8. CASE \E t \in now..MaxUs : Advance(t)
  BY <1>8, FiniteKept DEF Advance, store
<1>9. CASE ExportCheckpoint
  BY <1>9, FiniteKept DEF ExportCheckpoint
<1>10. CASE RebootCorrupt
  BY <1>10, FiniteKept DEF RebootCorrupt, Restart
<1>11. CASE Reboot \/ RebootFromCheckpoint
  BY <1>11 DEF Reboot, RebootFromCheckpoint, RebootFrom, Restart, FiniteInv
<1> QED
  BY <1>1, <1>2, <1>3, <1>4, <1>5, <1>6, <1>7, <1>8, <1>9, <1>10, <1>11, FiniteAccept
  DEF Next, Submit

\* The cues of one modality whose rolling window is running when last starts.
WindowOf(last) ==
  {c \in cues : /\ c.modality = last.modality
                /\ c.start =< last.start
                /\ last.start < c.end + RollingWindow}

\* The doses on record cover the earlier cues in the window of a cue that
\* starts now or later, one by one.
LEMMA WindowOnRecord ==
  ASSUME TypeOK, DoseInv, FiniteInv, ~rolledBack, NEW m \in Modalities,
         NEW start \in Nat, now =< start,
         NEW W, W = {c \in cues : /\ c.modality = m /\ c.start =< start
                                  /\ start < c.end + RollingWindow}
  PROVE  /\ Timed(W) /\ Timed(SameModality(RetainedDose(now), m))
         /\ SumDuration(W) =< SumDuration(SameModality(RetainedDose(now), m))
<1> DEFINE same == SameModality(RetainedDose(now), m)
           f == [c \in W |-> DoseOf(c)]
<1>1. /\ now \in Nat /\ RollingWindow \in Nat
      /\ \A c \in cues : /\ c.start \in Nat /\ c.end \in Nat
                         /\ c.duration \in Nat /\ c.start < c.end
      /\ \A d \in dose : d.duration \in Nat
  BY PolicyAssumption DEF TypeOK, Cue, Dose, FiniteInv
<1>2. Timed(W) /\ Timed(same)
  <2>1. IsFiniteSet(W) /\ IsFiniteSet(same)
    BY FS_Subset DEF FiniteInv, SameModality, RetainedDose
  <2> QED
    BY <1>1, <2>1 DEF Timed, SameModality, RetainedDose
<1>3. \A c \in W : DoseOf(c) \in same
  <2>1. \A c \in W : now < c.end + RollingWindow /\ c \in cues
    BY <1>1
  <2>2. \A c \in W : DoseOf(c).modality = m
    BY DEF DoseOf
  <2> QED
    BY <2>1, <2>2, PruneKeeps DEF DoseInv, SameModality
<1>4. f \in [W -> same]
  BY <1>3
<1>5. \A c \in W : f[c].duration = c.duration
  BY DEF DoseOf
<1>6. \A c, d \in W : f[c] = f[d] => c = d
  <2> SUFFICES ASSUME NEW c \in W, NEW d \in W, DoseOf(c) = DoseOf(d), c # d
               PROVE  FALSE
    OBVIOUS
  <2>1. c.end = d.end /\ c.modality = m /\ d.modality = m
    BY DEF DoseOf
  <2>2. MinGap(m) \in Nat
    BY PolicyAssumption DEF MinGap
  <2>3. c.end + MinGap(m) =< d.start \/ d.end + MinGap(m) =< c.start
    BY <2>1 DEF DoseInv, CooldownSpacing
  <2> QED
    BY <1>1, <2>1, <2>2, <2>3
<1> HIDE DEF f, same
<1>7. SumDuration(W) =< SumDuration(same)
  BY <1>2, <1>4, <1>5, <1>6, SumMatched
<1> QED
  BY <1>2, <1>7 DEF same

\* Accepting a cue keeps the budget: it was tested against every earlier cue
\* in its window, and it is in the window of no earlier cue.
LEMMA BudgetAccept ==
  ASSUME TypeOK, DoseInv, FiniteInv, DoseBudget, NEW t \in Tickets, Accept(t)
  PROVE  DoseBudget'
<1> SUFFICES ASSUME ~rolledBack', NEW last \in cues'
             PROVE  SumDuration(WindowOf(last)') =< MaxCumulative[last.modality]
  BY DEF DoseBudget, WindowOf
<1> DEFINE new == CueOf(t)
<1>1. /\ t \in CueTicket /\ new \in Cue
      /\ new.start = t.notBefore /\ new.end = EndOf(t) /\ new.start < new.end
  BY TicketAssumption, CueOfType
<1>2. new.modality = t.modality /\ new.duration = t.duration
  BY DEF CueOf
<1>3. rolledBack' = rolledBack /\ cues' = cues \cup {new}
  BY DEF Accept
<1>4. /\ now =< t.notBefore /\ t.notBefore \in Nat /\ t.modality \in Modalities
      /\ t.duration \in Nat /\ MinGap(t.modality) \in Nat
      /\ \A c \in cues : c.start \in Nat /\ c.end \in Nat /\ c.start < c.end
      /\ MaxCumulative[t.modality] \in Nat /\ RollingWindow \in Nat
  BY <1>1, PolicyAssumption
  DEF Accept, Eligible, FitsWindow, CueTicket, MinGap, TypeOK, Cue, FiniteInv
<1>5. \A c \in cues : c.modality = t.modality => c.start < new.start
  <2> SUFFICES ASSUME NEW c \in cues, c.modality = t.modality
               PROVE  c.start < new.start
    OBVIOUS
  <2>1. c.end + MinGap(t.modality) =< t.notBefore
    BY <1>3, AcceptSpaced DEF DoseInv
  <2> QED
    BY <1>1, <1>4, <2>1
<1> HIDE DEF new
<1>6. CASE last = new
  <2> DEFINE W == {c \in cues : /\ c.modality = t.modality
                                /\ c.start =< t.notBefore
                                /\ t.notBefore < c.end + RollingWindow}
             same == SameModality(RetainedDose(now), t.modality)
  <2>1. /\ Timed(W) /\ Timed(same) /\ SumDuration(W) =< SumDuration(same)
    BY <1>3, <1>4, WindowOnRecord
  <2>2. SumDuration(same) + t.duration =< MaxCumulative[t.modality]
    BY DEF Accept, WithinDose
  <2>3. WindowOf(last)' = W \cup {new} /\ new \notin W
    <3>1. new.start =< new.start /\ new.start < new.end + RollingWindow
      BY <1>1, <1>4 DEF Cue
    <3>2. new \notin W
      BY <1>1, <1>2, <1>4, <1>5
    <3> QED
      BY <1>1, <1>2, <1>3, <1>6, <3>1, <3>2 DEF WindowOf
  <2>4. Timed(W \cup {new})
    BY <1>2, <1>4, <2>1, FS_AddElement DEF Timed
  <2>5. SumDuration(W \cup {new}) = new.duration + SumDuration(W)
    <3>1. (W \cup {new}) \ {new} = W
      BY <2>3
    <3> HIDE DEF W
    <3> QED
      BY <2>4, <3>1, SumSplit
  <2>6. SumDuration(W) \in Nat /\ SumDuration(same) \in Nat
    BY <2>1, SumType
  <2> QED
    BY <1>2, <1>4, <1>6, <2>1, <2>2, <2>3, <2>5, <2>6
<1>7. CASE last \in cues /\ last # new
  <2>1. WindowOf(last)' = WindowOf(last)
    <3>1. ~(new.modality = last.modality /\ new.start =< last.start)
      BY <1>1, <1>2, <1>4, <1>5, <1>7
    <3> QED
      BY <1>3, <3>1 DEF WindowOf
  <2> QED
    BY <1>3, <1>7, <2>1 DEF DoseBudget, WindowOf
<1> QED
  BY <1>3, <1>6, <1>7

\* Every step of the controller keeps the budget.
LEMMA BudgetStep ==
  TypeOK /\ DoseInv /\ FiniteInv /\ DoseBudget /\ [Next]_vars => DoseBudget'
<1> SUFFICES ASSUME TypeOK, DoseInv, FiniteInv, DoseBudget, [Next]_vars
             PROVE  DoseBudget'
  OBVIOUS
<1>1. CASE \E t \in Tickets : Accept(t)
  BY <1>1, BudgetAccept
<1>2. CASE cues' = cues /\ (~rolledBack' => ~rolledBack)
  BY <1>2 DEF DoseBudget
<1>3. CASE UNCHANGED vars
  BY <1>2, <1>3 DEF vars, store
<1>4. CASE Next /\ ~\E t \in Tickets : Accept(t)
  <2>1. rolledBack \in BOOLEAN /\ cues' = cues /\ (rolledBack => rolledBack')
    BY <1>4
    DEF TypeOK, Next, Submit, SetSnapshot, InvalidSnapshot, ValidSnapshot,
        LatchFault, ReceiveHeartbeat, PhysicalArm, PhysicalConfirm, Mute,
        EndSession, PhysicalAcknowledgement, Maintenance, RevokeConsent,
        WatchdogExpired, Dispose, IssueChallenge, IssueMalformedChallenge,
        Reject, Advance, ExportCheckpoint, Reboot, RebootFromCheckpoint,
        RebootCorrupt, RebootFrom, Restart, store
  <2> QED
    BY <1>2, <2>1
<1> QED
  BY <1>1, <1>3, <1>4

\* In every rolling window the cues of a modality stay within its cumulative
\* limit (submit, pruneDose), unless the host restored an older checkpoint.
THEOREM DoseBudgetCorrect == Spec => []DoseBudget
<1>1. Init => DoseInv /\ FiniteInv /\ DoseBudget
  BY DoseAssumption, FS_EmptySet
  DEF Init, DoseInv, DoseConserved, CooldownSpacing, FiniteInv, DoseBudget
<1> QED
  BY <1>1, DoseStep, FiniteStep, BudgetStep, TypeCorrect, PTL DEF Spec

-----------------------------------------------------------------------------
(* ReceiptsOrdered: what an advance finds out late is dated back, but not  *)
(* behind a receipt already kept.                                          *)

\* Receipts s are in the order of their times, none later than bound.
OrderedBy(s, bound) ==
  /\ \A i, j \in DOMAIN s : i =< j => s[i].at =< s[j].at
  /\ \A i \in DOMAIN s : s[i].at =< bound

\* A receipt no older than the others may be recorded.
LEMMA RecordOrdered ==
  ASSUME NEW tail \in Seq(Receipt), NEW bound \in Nat, OrderedBy(tail, bound),
         NEW decision, NEW id, NEW at \in Nat, bound =< at
  PROVE  OrderedBy(Record(tail, decision, id, at), at)
<1> DEFINE r == [decision |-> decision, ticketId |-> id, at |-> at]
           grown == Append(tail, r)
           n == Len(tail)
<1>1. /\ n \in Nat /\ DOMAIN tail = 1..n
      /\ \A i \in 1..n : tail[i].at \in Nat
  <2>1. n \in Nat /\ DOMAIN tail = 1..n /\ \A i \in 1..n : tail[i] \in Receipt
    OBVIOUS
  <2> QED
    BY <2>1 DEF Receipt
<1>2. /\ DOMAIN grown = 1..(n + 1) /\ Len(grown) = n + 1
      /\ \A i \in 1..n : grown[i] = tail[i]
      /\ grown[n + 1] = r
  OBVIOUS
<1>3. \A i \in 1..n : tail[i].at =< at
  BY <1>1 DEF OrderedBy
<1>4. \A i, j \in 1..(n + 1) : i =< j => grown[i].at =< grown[j].at
  <2> SUFFICES ASSUME NEW i \in 1..(n + 1), NEW j \in 1..(n + 1), i =< j
               PROVE  grown[i].at =< grown[j].at
    OBVIOUS
  <2>1. CASE j =< n
    BY <1>1, <1>2, <2>1 DEF OrderedBy
  <2>2. CASE j = n + 1
    BY <1>1, <1>2, <1>3, <2>2
  <2> QED
    BY <1>1, <2>1, <2>2
<1>5. \A i \in 1..(n + 1) : grown[i].at =< at
  BY <1>1, <1>2, <1>3
<1>6. OrderedBy(grown, at)
  BY <1>2, <1>4, <1>5 DEF OrderedBy
<1>7. OrderedBy(Tail(grown), at)
  <2>1. /\ DOMAIN Tail(grown) = 1..n
        /\ \A i \in 1..n : Tail(grown)[i] = grown[i + 1]
    BY <1>1, <1>2
  <2>2. \A i, j \in 1..n : i =< j =>
          i + 1 \in 1..(n + 1) /\ j + 1 \in 1..(n + 1) /\ i + 1 =< j + 1
    BY <1>1
  <2>3. \A i, j \in 1..n : i =< j => Tail(grown)[i].at =< Tail(grown)[j].at
    BY <1>4, <2>1, <2>2
  <2>4. \A i \in 1..n : Tail(grown)[i].at =< at
    BY <1>1, <1>5, <2>1
  <2> HIDE DEF grown
  <2> QED
    BY <2>1, <2>3, <2>4 DEF OrderedBy
<1> QED
  BY <1>6, <1>7 DEF Record

\* Time may pass over the receipts.
LEMMA OrderedLater ==
  ASSUME NEW s \in Seq(Receipt), NEW bound \in Nat, OrderedBy(s, bound),
         NEW at \in Nat, bound =< at
  PROVE  OrderedBy(s, at)
<1>1. \A i \in DOMAIN s : s[i] \in Receipt
  OBVIOUS
<1>2. \A i \in DOMAIN s : s[i].at \in Nat
  BY <1>1 DEF Receipt
<1> QED
  BY <1>2 DEF OrderedBy

\* A pending cue, if there is one, may be cancelled no earlier than now.
LEMMA CancelledOrdered ==
  ASSUME TypeOK, ReceiptsOrdered, NEW at \in Nat, now =< at
  PROVE  OrderedBy(RecordCancelled(at), at)
BY RecordOrdered, OrderedLater
DEF TypeOK, ReceiptsOrdered, OrderedBy, RecordCancelled

\* Advancing the clock records what happened on the way at its own time.
LEMMA AdvanceOrdered ==
  ASSUME TypeOK, SafetyInv, ReceiptsOrdered, NEW t \in now..MaxUs, Advance(t)
  PROVE  ReceiptsOrdered'
<1>1. now \in Nat /\ t \in Nat /\ now =< t /\ now' = t /\ receipts \in Seq(Receipt)
  BY PolicyAssumption DEF TypeOK, Advance
<1>2. OrderedBy(receipts, now)
  BY DEF ReceiptsOrdered, OrderedBy
<1>3. CASE receipts' = receipts
  BY <1>1, <1>2, <1>3, OrderedLater DEF ReceiptsOrdered, OrderedBy
<1>4. CASE armState = "ARMED" /\ receipts' = ReceiptsOfAdvance(t)
  <2>1. HealthDeadline \in Nat /\ now < HealthDeadline
    BY <1>1, <1>4, DeadlineFuture DEF SafetyInv
  <2>2. CASE CompletesBy(t)
    <3>1. pending.end \in Nat /\ now =< pending.end /\ pending.end =< t
      BY <1>1, <2>2 DEF CompletesBy, TypeOK, Cue, SafetyInv, GateAuthority
    <3>2. OrderedBy(receipts', pending.end)
      BY <1>1, <1>2, <1>4, <2>2, <3>1, RecordOrdered DEF ReceiptsOfAdvance
    <3>3. receipts' \in Seq(Receipt)
      BY AdvanceType DEF TypeOK
    <3>4. OrderedBy(receipts', t)
      BY <1>1, <3>1, <3>2, <3>3, OrderedLater
    <3> QED
      BY <1>1, <3>4 DEF ReceiptsOrdered, OrderedBy
  <2>3. CASE ~CompletesBy(t) /\ HealthDeadline =< t
    <3>1. OrderedBy(receipts', HealthDeadline)
      BY <1>4, <2>1, <2>3, CancelledOrdered DEF ReceiptsOfAdvance, TypeOK
    <3>2. receipts' \in Seq(Receipt)
      BY AdvanceType DEF TypeOK
    <3>3. OrderedBy(receipts', t)
      BY <1>1, <2>1, <2>3, <3>1, <3>2, OrderedLater
    <3> QED
      BY <1>1, <3>3 DEF ReceiptsOrdered, OrderedBy
  <2>4. CASE ~CompletesBy(t) /\ ~(HealthDeadline =< t)
    BY <1>3, <1>4, <2>4 DEF ReceiptsOfAdvance
  <2> QED
    BY <2>2, <2>3, <2>4
<1> QED
  BY <1>3, <1>4 DEF Advance, AdvanceIdle, AdvanceHealthy, AdvanceLapsed, output

\* Every action that is not an advance leaves the receipts alone or records at
\* the present.
LEMMA RecordingSteps ==
  ASSUME Next, ~\E t \in now..MaxUs : Advance(t)
  PROVE  /\ now' = now
         /\ \/ receipts' = receipts /\ pending' \in {pending}
            \/ receipts' = RecordCancelled(now) /\ pending' = Null
            \/ \E t \in Tickets : Accept(t) \/ Reject(t)
<1>1. CASE \E s \in Arriving : SetSnapshot(s)
  BY <1>1 DEF SetSnapshot, InvalidSnapshot, ValidSnapshot, LatchFault, Cancel,
              CancelAt, output
<1>2. CASE \E n \in 0..MaxSequence : ReceiveHeartbeat(n)
  BY <1>2 DEF ReceiveHeartbeat, LatchFault, Cancel, CancelAt, output
<1>3. CASE \/ PhysicalArm \/ PhysicalConfirm \/ PhysicalAcknowledgement
           \/ Maintenance
  BY <1>3 DEF PhysicalArm, PhysicalConfirm, PhysicalAcknowledgement, Maintenance
<1>4. CASE \/ Mute \/ EndSession \/ RevokeConsent \/ Dispose
           \/ WatchdogExpired \/ IssueMalformedChallenge
  BY <1>4 DEF Mute, EndSession, RevokeConsent, Dispose, WatchdogExpired,
              IssueMalformedChallenge, LatchFault, Cancel, CancelAt
<1>5. CASE \E p \in Proposals, u \in Uncertainties : IssueChallenge(p, u)
  BY <1>5 DEF IssueChallenge, Cancel, CancelAt, output
<1>6. CASE \E t \in Tickets : Submit(t)
  BY <1>6 DEF Submit, Accept, Reject
<1>7. CASE ExportCheckpoint
  BY <1>7 DEF ExportCheckpoint, output
<1>8. CASE Reboot \/ RebootFromCheckpoint \/ RebootCorrupt
  BY <1>8 DEF Reboot, RebootFromCheckpoint, RebootCorrupt, RebootFrom, Restart
<1> QED
  BY <1>1, <1>2, <1>3, <1>4, <1>5, <1>6, <1>7, <1>8 DEF Next

\* Every step keeps the receipts in order.
LEMMA OrderStep ==
  TypeOK /\ SafetyInv /\ ReceiptsOrdered /\ [Next]_vars => ReceiptsOrdered'
<1> SUFFICES ASSUME TypeOK, SafetyInv, ReceiptsOrdered, [Next]_vars
             PROVE  ReceiptsOrdered'
  OBVIOUS
<1>0. now \in Nat /\ receipts \in Seq(Receipt) /\ OrderedBy(receipts, now)
  BY DEF TypeOK, ReceiptsOrdered, OrderedBy
<1>1. CASE now' = now /\ receipts' = receipts
  BY <1>1 DEF ReceiptsOrdered
<1>2. CASE now' = now /\ OrderedBy(receipts', now)
  BY <1>2 DEF ReceiptsOrdered, OrderedBy
<1>3. CASE now' = now /\ receipts' = RecordCancelled(now)
  BY <1>0, <1>2, <1>3, CancelledOrdered
<1>4. CASE \E t \in Tickets : Accept(t)
  BY <1>0, <1>2, <1>4, RecordOrdered DEF Accept
<1>5. CASE \E t \in Tickets : Reject(t)
  <2>1. /\ RecordCancelled(now) \in Seq(Receipt)
        /\ OrderedBy(RecordCancelled(now), now)
    BY <1>0, CancelledOrdered, RecordCancelledType
  <2> QED
    BY <1>0, <1>2, <1>5, <2>1, RecordOrdered DEF Reject
<1>6. CASE UNCHANGED vars
  BY <1>1, <1>6 DEF vars, output
<1> QED
  BY <1>1, <1>3, <1>4, <1>5, <1>6, RecordingSteps, AdvanceOrdered

\* The receipts kept are in the order of the times they state, and none states
\* a time still to come, although an advance of the clock dates what happened
\* on the way back to when it happened (#onAdvance, #record).
THEOREM ReceiptsOrderedCorrect == Spec => []ReceiptsOrdered
<1>1. Init => ReceiptsOrdered
  BY DEF Init, ReceiptsOrdered
<1> QED
  BY <1>1, OrderStep, TypeCorrect, SafetyCorrect, PTL DEF Spec

-----------------------------------------------------------------------------
(* CueClosure: the receipt that closes a cue.                              *)

\* What was recorded last is there, and with room for two so is the receipt
\* before it.
LEMMA RecordLast ==
  ASSUME NEW tail \in Seq(Receipt), Len(tail) =< ReceiptRetention,
         NEW decision \in {"accepted", "rejected", "cancelled", "completed"},
         NEW id \in TicketIds, NEW at \in Nat
  PROVE  LET kept == Record(tail, decision, id, at)
         IN  /\ Len(kept) \in 1..Len(tail) + 1
             /\ kept[Len(kept)] =
                  [decision |-> decision, ticketId |-> id, at |-> at]
             /\ ReceiptRetention # 1 /\ tail # <<>> =>
                  Len(kept) > 1 /\ kept[Len(kept) - 1] = tail[Len(tail)]
<1> DEFINE r == [decision |-> decision, ticketId |-> id, at |-> at]
           grown == Append(tail, r)
           n == Len(tail)
<1>1. n \in Nat /\ ReceiptRetention \in Nat \ {0}
  BY PolicyAssumption
<1>2. /\ Len(grown) = n + 1 /\ grown[n + 1] = r
      /\ \A i \in 1..n : grown[i] = tail[i]
  OBVIOUS
<1>3. r \in Receipt
  BY DEF Receipt
<1>4. CASE n + 1 =< ReceiptRetention
  <2>1. Record(tail, decision, id, at) = grown
    BY <1>1, <1>2, <1>4 DEF Record
  <2>2. tail # <<>> => n >= 1
    BY <1>1
  <2> QED
    BY <1>1, <1>2, <2>1, <2>2
<1>5. CASE n + 1 > ReceiptRetention
  <2>1. Record(tail, decision, id, at) = Tail(grown)
    BY <1>1, <1>2, <1>5 DEF Record
  <2>2. n = ReceiptRetention
    BY <1>1, <1>5
  <2>3. grown \in Seq(Receipt) /\ grown # <<>>
    BY <1>3
  <2>4. Len(Tail(grown)) = n /\ \A i \in 1..n : Tail(grown)[i] = grown[i + 1]
    BY <1>1, <1>2, <2>3
  <2>5. Tail(grown)[n] = r
    BY <1>1, <1>2, <2>2, <2>4
  <2>6. ReceiptRetention # 1 => n > 1 /\ Tail(grown)[n - 1] = grown[n]
    BY <1>1, <2>2, <2>4
  <2> QED
    BY <1>1, <1>2, <2>1, <2>2, <2>4, <2>5, <2>6
<1> QED
  BY <1>1, <1>4, <1>5

\* Cancelling a pending cue at present closes it.
LEMMA CancelCloses ==
  ASSUME TypeOK, SafetyInv, pending # Null, now' = now
  PROVE  LET kept == RecordCancelled(now)
         IN  /\ kept \in Seq(Receipt) /\ Len(kept) =< ReceiptRetention
             /\ kept # <<>> /\ Len(kept) \in DOMAIN kept
             /\ Closes(kept[Len(kept)])
<1>1. /\ pending.ticketId \in TicketIds /\ pending.end \in Nat /\ now \in Nat
      /\ receipts \in Seq(Receipt) /\ Len(receipts) =< ReceiptRetention
  BY DEF TypeOK, Cue
<1>2. now < pending.end
  BY DEF SafetyInv, GateAuthority
<1> DEFINE kept == RecordCancelled(now)
<1>3. kept = Record(receipts, "cancelled", pending.ticketId, now)
  BY DEF RecordCancelled
<1>4. kept \in Seq(Receipt) /\ Len(kept) =< ReceiptRetention
  BY <1>1, RecordCancelledType
<1>5. /\ Len(kept) \in 1..Len(receipts) + 1
      /\ kept[Len(kept)] = [decision |-> "cancelled",
                            ticketId |-> pending.ticketId, at |-> now]
  BY <1>1, <1>3, RecordLast
<1> HIDE DEF kept
<1>6. Closes(kept[Len(kept)])
  BY <1>1, <1>2, <1>5 DEF Closes
<1>7. kept # <<>> /\ Len(kept) \in DOMAIN kept
  BY <1>1, <1>4, <1>5
<1> QED
  BY <1>4, <1>6, <1>7 DEF kept

\* What CueClosure says of one step.
ClosureStep ==
  pending # Null /\ pending' # pending =>
    /\ pending' = Null
    /\ \/ \E i \in DOMAIN receipts' : Closes(receipts'[i])
       \/ ReceiptRetention = 1 /\ receipts'[1].decision = "rejected"

\* A refused ticket cancels the pending cue before its own receipt.
LEMMA RejectCloses ==
  ASSUME TypeOK, SafetyInv, NEW t \in Tickets, Reject(t), pending # Null
  PROVE  ClosureStep
<1> DEFINE kept == RecordCancelled(now)
           shown == Record(kept, "rejected", t.ticketId, now)
<1>1. t.ticketId \in TicketIds /\ now \in Nat /\ now' = now
  BY TicketAssumption DEF CueTicket, TypeOK, Reject
<1>2. /\ kept \in Seq(Receipt) /\ Len(kept) =< ReceiptRetention
      /\ kept # <<>> /\ Len(kept) \in DOMAIN kept /\ Closes(kept[Len(kept)])
  BY <1>1, CancelCloses
<1>3. receipts' = shown /\ pending' = Null
  BY DEF Reject
<1> HIDE DEF kept
<1>4. /\ shown \in Seq(Receipt) /\ Len(shown) =< ReceiptRetention
      /\ Len(shown) \in 1..Len(kept) + 1
      /\ shown[Len(shown)] =
           [decision |-> "rejected", ticketId |-> t.ticketId, at |-> now]
      /\ ReceiptRetention # 1 =>
           Len(shown) > 1 /\ shown[Len(shown) - 1] = kept[Len(kept)]
  BY <1>1, <1>2, RecordLast, RecordType
<1> HIDE DEF shown
<1>5. CASE ReceiptRetention = 1
  <2>1. Len(shown) = 1
    <3>1. Len(kept) \in Nat
      BY <1>2
    <3>2. Len(shown) \in Nat /\ Len(shown) >= 1
      BY <1>4, <3>1
    <3>3. Len(shown) =< ReceiptRetention
      BY <1>4
    <3>4. Len(shown) =< 1
      BY <1>5, <3>3
    <3>5. \A k \in Nat : k >= 1 /\ k =< 1 => k = 1
      OBVIOUS
    <3> QED
      BY <3>2, <3>4, <3>5, Zenon
  <2>2. receipts'[1].decision = "rejected"
    BY <1>3, <1>4, <2>1
  <2> QED
    BY <1>3, <1>5, <2>2 DEF ClosureStep
<1>6. CASE ReceiptRetention # 1
  <2>1. Len(shown) - 1 \in DOMAIN shown
    BY <1>2, <1>4, <1>6
  <2>2. Closes(shown[Len(shown) - 1])
    BY <1>2, <1>4, <1>6
  <2>3. \E i \in DOMAIN receipts' : Closes(receipts'[i])
    BY <1>3, <2>1, <2>2
  <2> QED
    BY <1>3, <2>3 DEF ClosureStep
<1> QED
  BY <1>5, <1>6

\* On the way of an advance the cue completed, or the evidence lapsed first.
LEMMA AdvanceCloses ==
  ASSUME TypeOK, SafetyInv, NEW t \in now..MaxUs, Advance(t),
         pending # Null, pending' # pending
  PROVE  ClosureStep
<1>1. now \in Nat /\ t \in Nat /\ now =< t /\ now' = t
  BY PolicyAssumption DEF TypeOK, Advance
<1>2. /\ armState = "ARMED" /\ receipts' = ReceiptsOfAdvance(t) /\ pending' = Null
      /\ CompletesBy(t) \/ HealthDeadline =< t
  BY DEF Advance, AdvanceIdle, AdvanceHealthy, AdvanceLapsed, output
<1>3. HealthDeadline \in Nat /\ now < HealthDeadline
  BY <1>1, <1>2, DeadlineFuture DEF SafetyInv
<1>4. /\ pending.ticketId \in TicketIds /\ pending.end \in Nat
      /\ receipts \in Seq(Receipt) /\ Len(receipts) =< ReceiptRetention
  BY DEF TypeOK, Cue
<1>5. receipts' \in Seq(Receipt)
  BY AdvanceType DEF TypeOK
<1>6. PICK r : /\ Closes(r)
               /\ Len(receipts') \in 1..Len(receipts) + 1
               /\ receipts'[Len(receipts')] = r
  <2>1. CASE CompletesBy(t)
    <3> DEFINE r == [decision |-> "completed", ticketId |-> pending.ticketId,
                     at |-> pending.end]
    <3>1. receipts' = Record(receipts, "completed", pending.ticketId, pending.end)
      BY <1>2, <2>1 DEF ReceiptsOfAdvance
    <3>2. Len(receipts') \in 1..Len(receipts) + 1 /\ receipts'[Len(receipts')] = r
      BY <1>4, <3>1, RecordLast
    <3>3. Closes(r)
      BY <1>1, <2>1 DEF CompletesBy, Closes
    <3> QED
      BY <3>2, <3>3
  <2>2. CASE ~CompletesBy(t)
    <3> DEFINE r == [decision |-> "cancelled", ticketId |-> pending.ticketId,
                     at |-> HealthDeadline]
    <3>1. receipts' = Record(receipts, "cancelled", pending.ticketId, HealthDeadline)
      BY <1>2, <2>2 DEF ReceiptsOfAdvance, RecordCancelled
    <3>2. Len(receipts') \in 1..Len(receipts) + 1 /\ receipts'[Len(receipts')] = r
      BY <1>3, <1>4, <3>1, RecordLast
    <3>3. HealthDeadline =< pending.end
      BY <1>1, <1>2, <1>3, <1>4, <2>2 DEF CompletesBy
    <3>4. Closes(r)
      BY <1>1, <1>3, <3>3 DEF Closes
    <3> QED
      BY <3>2, <3>4
  <2> QED
    BY <2>1, <2>2
<1>7. Len(receipts') \in DOMAIN receipts'
  BY <1>4, <1>5, <1>6
<1> QED
  BY <1>2, <1>6, <1>7 DEF ClosureStep

\* Every step that ends the pending cue records how.
LEMMA ClosureHolds ==
  ASSUME TypeOK, SafetyInv, Next, pending # Null, pending' # pending
  PROVE  ClosureStep
<1>1. CASE \E t \in now..MaxUs : Advance(t)
  BY <1>1, AdvanceCloses
<1>2. CASE \E t \in Tickets : Reject(t)
  BY <1>2, RejectCloses
<1>3. CASE \E t \in Tickets : Accept(t)
  BY <1>3 DEF Accept, Eligible
<1>4. CASE now' = now /\ receipts' = RecordCancelled(now) /\ pending' = Null
  BY <1>4, CancelCloses DEF ClosureStep
<1> QED
  BY <1>1, <1>2, <1>3, <1>4, RecordingSteps

\* A cue never leaves the controller without the receipt that says truthfully
\* how it ended: completed at its end, or cancelled in time (#cancel,
\* #onAdvance, #reject).
THEOREM CueClosureCorrect == Spec => CueClosure
<1>1. TypeOK /\ SafetyInv /\ [Next]_vars => [ClosureStep]_vars
  BY ClosureHolds DEF ClosureStep
<1> QED
  BY <1>1, TypeCorrect, SafetyCorrect, PTL DEF Spec, CueClosure, ClosureStep

-----------------------------------------------------------------------------
(* The controller implements SafetyGate.                                   *)

Used == {c.challengeId : c \in cues}

\* A step that closes the output is a stop of the gate.
LEMMA ClosedIsStop ==
  ASSUME UNCHANGED <<now, cues>>, pending' = Null, virtualGateOpen' = FALSE,
         armState' # "ARMED"
  PROVE  Gate!Stop
BY DEF Gate!Stop, Gate!Closed

\* A step that changes nothing the gate shows.
LEMMA HiddenIsStutter ==
  ASSUME UNCHANGED <<now, armState, pending, virtualGateOpen, cues>>
  PROVE  UNCHANGED Gate!vars
BY DEF Gate!vars

\* Cancelling with a target other than ARMED is a stop of the gate.
LEMMA CancelIsStop ==
  ASSUME UNCHANGED <<now, cues>>, NEW target \in {"DISARMED", "MUTED", "FAULT"},
         Cancel(target)
  PROVE  Gate!Stop
BY ClosedIsStop DEF Cancel, CancelAt

\* An accepted ticket authorises the gate's next cue.
LEMMA AcceptAuthorises ==
  ASSUME TypeOK, SpentInv, NEW t \in Tickets, Accept(t)
  PROVE  Gate!Authorise
<1>1. /\ CueOf(t) \in Cue /\ CueOf(t).start = t.notBefore
      /\ CueOf(t).end = EndOf(t) /\ CueOf(t).challengeId = t.challengeId
      /\ t.notBefore < EndOf(t)
  BY CueOfType
<1>2. /\ armState = "ARMED" /\ pending = Null /\ now =< t.notBefore
      /\ \E c \in challenges : c.id = t.challengeId
  BY DEF Accept, Eligible, Authentic, FitsWindow
<1>3. t.challengeId \notin Used
  BY <1>2 DEF SpentInv, Used
<1>4. /\ pending' = CueOf(t) /\ virtualGateOpen' = (t.notBefore = now)
      /\ cues' = cues \cup {CueOf(t)} /\ UNCHANGED <<now, armState>>
  BY DEF Accept
<1>5. {c.challengeId : c \in cues'} = Used \cup {t.challengeId}
  BY <1>1, <1>4 DEF Used
<1> QED
  BY <1>1, <1>2, <1>3, <1>4, <1>5 DEF Gate!Authorise, Used

\* A clock advance is the gate's Elapse.
LEMMA AdvanceElapses ==
  ASSUME TypeOK, SafetyInv, SafetyInv', NEW t \in now..MaxUs, Advance(t)
  PROVE  Gate!Elapse
<1>1. now' \in Nat /\ now =< now' /\ now' = t
  BY PolicyAssumption DEF TypeOK, Advance
<1>2. cues' = cues
  BY DEF Advance
<1>3. CASE AdvanceIdle(t)
  <2>1. armState # "ARMED" /\ UNCHANGED <<armState, pending, virtualGateOpen>>
    BY <1>3 DEF AdvanceIdle, output
  <2>2. pending = Null
    BY <2>1 DEF SafetyInv, GateAuthority
  <2> QED
    BY <1>1, <1>2, <2>1, <2>2 DEF Gate!Elapse
<1>4. CASE AdvanceLapsed(t)
  BY <1>1, <1>2, <1>4 DEF AdvanceLapsed, Gate!Elapse, Gate!Closed
<1>5. CASE AdvanceHealthy(t)
  <2>1. armState' = armState /\ armState = "ARMED"
    BY <1>5 DEF AdvanceHealthy
  <2>2. CASE CompletesBy(t)
    BY <1>1, <1>2, <1>5, <2>1, <2>2 DEF AdvanceHealthy, CompletesBy, Gate!Elapse
  <2>3. CASE pending = Null
    <3>1. pending' = Null /\ virtualGateOpen' = FALSE /\ virtualGateOpen = FALSE
      BY <1>5, <2>3 DEF AdvanceHealthy, SafetyInv, GateAuthority, CompletesBy, TypeOK
    <3> QED
      BY <1>1, <1>2, <2>1, <2>3, <3>1 DEF Gate!Elapse
  <2>4. CASE pending # Null /\ ~CompletesBy(t)
    <3>1. pending' = pending
      BY <1>5, <2>4 DEF AdvanceHealthy
    <3>2. now' < pending.end /\ (virtualGateOpen' <=> pending.start =< now')
      BY <2>4, <3>1 DEF SafetyInv, GateAuthority
    <3>3. virtualGateOpen' = (pending.start =< now')
      <4>1. virtualGateOpen' \in BOOLEAN
        BY AdvanceType DEF TypeOK
      <4> QED
        BY <3>2, <4>1
    <3> QED
      BY <1>1, <1>2, <2>1, <2>4, <3>1, <3>2, <3>3 DEF Gate!Elapse
  <2> QED
    BY <2>2, <2>3, <2>4
<1> QED
  BY <1>3, <1>4, <1>5 DEF Advance

\* Every step of the controller is a step of the gate or is hidden from it.
LEMMA GateStep ==
  TypeOK /\ SafetyInv /\ SafetyInv' /\ SpentInv /\ [Next]_vars
    => [Gate!Next]_(Gate!vars)
<1> SUFFICES ASSUME TypeOK, SafetyInv, SafetyInv', SpentInv, [Next]_vars
             PROVE  Gate!Next \/ UNCHANGED Gate!vars
  OBVIOUS
<1>1. CASE UNCHANGED vars
  BY <1>1, HiddenIsStutter DEF vars, output
<1>2. CASE \E s \in Arriving : SetSnapshot(s)
  BY <1>2, CancelIsStop, HiddenIsStutter
  DEF SetSnapshot, InvalidSnapshot, ValidSnapshot, LatchFault, output, Gate!Next
<1>3. CASE \E n \in 0..MaxSequence : ReceiveHeartbeat(n)
  BY <1>3, CancelIsStop, HiddenIsStutter
  DEF ReceiveHeartbeat, LatchFault, output, Gate!Next
<1>4. CASE PhysicalArm \/ PhysicalAcknowledgement \/ Maintenance
  <2>1. pending = Null
    BY <1>4 DEF SafetyInv, GateAuthority, PhysicalArm, PhysicalAcknowledgement,
                Maintenance
  <2>2. /\ UNCHANGED <<now, pending, virtualGateOpen, cues>>
        /\ armState # "ARMED" /\ armState' # "ARMED"
    BY <1>4 DEF PhysicalArm, PhysicalAcknowledgement, Maintenance
  <2> QED
    BY <2>1, <2>2 DEF Gate!vars
<1>5. CASE PhysicalConfirm
  BY <1>5 DEF PhysicalConfirm, Gate!Arm, Gate!Next
<1>6. CASE \/ Mute \/ EndSession \/ RevokeConsent \/ Dispose
           \/ WatchdogExpired \/ IssueMalformedChallenge
  BY <1>6, CancelIsStop
  DEF Mute, EndSession, RevokeConsent, Dispose, WatchdogExpired,
      IssueMalformedChallenge, LatchFault, Gate!Next
<1>7. CASE \E p \in Proposals, u \in Uncertainties : IssueChallenge(p, u)
  BY <1>7, CancelIsStop, HiddenIsStutter DEF IssueChallenge, output, Gate!Next
<1>8. CASE \E t \in Tickets : Accept(t)
  BY <1>8, AcceptAuthorises DEF Gate!Next
<1>9. CASE \E t \in Tickets : Reject(t)
  BY <1>9, ClosedIsStop DEF Reject, Gate!Next
<1>10. CASE \E t \in now..MaxUs : Advance(t)
  BY <1>10, AdvanceElapses DEF Gate!Next
<1>11. CASE ExportCheckpoint
  BY <1>11, HiddenIsStutter DEF ExportCheckpoint, output
<1>12. CASE Reboot \/ RebootFromCheckpoint \/ RebootCorrupt
  BY <1>12, ClosedIsStop
  DEF Reboot, RebootFromCheckpoint, RebootCorrupt, RebootFrom, Restart, Gate!Next
<1> QED
  BY <1>1, <1>2, <1>3, <1>4, <1>5, <1>6, <1>7, <1>8, <1>9, <1>10, <1>11, <1>12
  DEF Next, Submit

\* The controller implements SafetyGate: whatever the host, the clock and the
\* inputs do, an observer of the output sees one authorised cue at a time, open
\* exactly during its window, each authorisation spent once.
THEOREM ImplementsGate == Spec => GateSpec
<1>1. Init => Gate!Init
  BY DEF Init, Gate!Init
<1> QED
  BY <1>1, GateStep, TypeCorrect, SafetyCorrect, SpentCorrect, PTL
  DEF Spec, GateSpec, Gate!Spec
=============================================================================
