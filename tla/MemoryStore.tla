------------------------------ MODULE MemoryStore ------------------------------
(***************************************************************************)
(* What the research memory promises to whoever reads it later: every      *)
(* write changes one record and nothing else, and a write that was         *)
(* acknowledged survives any later crash or power failure until the next   *)
(* write of the same record.  ResearchMemory implements this               *)
(* specification; processes, locks, queues and indexes are not visible.    *)
(***************************************************************************)
CONSTANTS Null, Ids, Texts

VARIABLES
  value,                (* what a reader finds                             *)
  recoverable,          (* what a power failure may leave                  *)
  owed                  (* per record: the text acknowledged as written    *)

vars == <<value, recoverable, owed>>

Empty == [id \in Ids |-> Null]

Init == value = Empty /\ recoverable = {Empty} /\ owed = Empty

Put(id, text) ==
  /\ value' = [value EXCEPT ![id] = text]
  /\ recoverable' = recoverable \cup {value'}
  /\ owed' = [owed EXCEPT ![id] = Null]

Acknowledge(id) ==
  /\ recoverable' = {value}
  /\ owed' = [owed EXCEPT ![id] = value[id]]
  /\ UNCHANGED value

PowerFailure ==
  /\ value' \in recoverable
  /\ recoverable' = {value'}
  /\ UNCHANGED owed

Next ==
  \/ \E id \in Ids : Acknowledge(id) \/ \E text \in Texts : Put(id, text)
  \/ PowerFailure

Spec == Init /\ [][Next]_vars

\* An acknowledged write is found by every later reader, also after a power
\* failure, until the record is written again.
AcknowledgedSurvives ==
  \A id \in Ids, store \in recoverable \cup {value} :
    owed[id] # Null => store[id] = owed[id]
=============================================================================
