--------------------------- MODULE MCSafetyController ---------------------------
(* Small instances of SafetyController for TLC.                            *)
EXTENDS SafetyController

Ticket(id, seq, challenge, boot, epoch, digest, issued, start, expires, length) ==
  [sound |-> TRUE, bootId |-> boot, consentEpoch |-> epoch,
   challengeId |-> challenge, proposal |-> "p1", issued |-> issued,
   notBefore |-> start, expires |-> expires, sequence |-> seq,
   ticketId |-> id, stateDigest |-> digest, confidence |-> 1,
   modality |-> "audio", duration |-> length]

\* A ticket's expiry is a uint64, as the clock is.
InRange(S) == {t \in S : t.expires =< MaxUs}

\* One modality, one time unit per millisecond.
OneDuration   == [m \in {"audio"} |-> 2]
OneCooldown   == [m \in {"audio"} |-> 1]
OneCumulative == [m \in {"audio"} |-> 3]

\* Gate runs: tickets of one boot, any start and a one or two unit window.
Unsound == [Ticket("k1", 1, 1, 0, 1, 0, 0, 0, 1, 1) EXCEPT !.sound = FALSE]
UnsoundTickets == {Unsound}

GateTickets ==
  {Unsound} \cup
  InRange({Ticket("k1", 1, 1, 0, 1, digest, 0, start, start + 2, length) :
             digest \in 0..1, start \in 0..4, length \in 1..2})

\* Dose run: three challenges, two boots, cues that start at once or one unit
\* after they are issued.
FreshTickets ==
  {t \in {Ticket(answer[1], answer[2], answer[2], boot, 1, 0, issued, start,
                 start + length, length) :
            answer \in {<<"k1", 1>>, <<"k2", 2>>, <<"k3", 3>>},
            boot \in 0..1, issued \in 0..4, start \in 0..4, length \in 1..2} :
     t.notBefore \in {t.issued, t.issued + 1}}

\* Answers to challenge 2 under the identity or the sequence number of the
\* ticket for challenge 1.
ReplayTickets ==
  {Ticket(answer[1], answer[2], 2, boot, 1, 0, start, start, start + 1, 1) :
     answer \in {<<"k1", 2>>, <<"k2", 1>>}, boot \in 0..1, start \in 0..4}

DoseTickets == InRange(FreshTickets \cup ReplayTickets)

\* The dose run feeds the controller as the fixture's refresh does, a
\* clean snapshot and a heartbeat at one instant, and leaves disposal and muting,
\* after which no cue is accepted before an acknowledgement, to the other runs.
Refreshed ==
  /\ heartbeat # Null => sensor # Null /\ sensor.observed = heartbeat.at
  /\ sensor # Null => sensor.clean
  /\ ~disposed /\ armState # "MUTED"

DoseDuration   == [m \in {"audio"} |-> 2]
DoseCooldown   == [m \in {"audio"} |-> 1]
DoseCumulative == [m \in {"audio"} |-> 3]

\* Receipts are output only: no guard reads them, so the runs whose properties
\* do not mention them identify states that differ in receipts alone.
WithoutReceipts ==
  <<now, armState, virtualGateOpen, pending, health, replay, consent, store, cues>>
=============================================================================
