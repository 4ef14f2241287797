----------------------------- MODULE ResearchMemory -----------------------------
(***************************************************************************)
(* The research memory of scripts/research/memory.mjs: records.json, the   *)
(* lock beside it, and the handles processes open on it.  Each handle runs *)
(* its operations one after the other from a promise queue, keeps the      *)
(* records in memory and, when the native module loads, an index over them *)
(* that is rebuilt rather than trusted.                                    *)
(*                                                                         *)
(* Between two awaits a handle is uninterrupted; at an await callers may   *)
(* add operations or close the handle, the process may be killed, and the  *)
(* machine may lose power, which may undo renames whose directory was not  *)
(* yet synchronised.  Native calls and file operations may fail at any     *)
(* time.  A record's text stands for the whole record; ranking is left     *)
(* out, only what it is computed from is kept.                             *)
(***************************************************************************)
EXTENDS Naturals, Sequences, FiniteSets

CONSTANTS
  Null,
  NoIndex,              (* db is undefined                                 *)
  Handles,              (* processes that may open the memory              *)
  Ids, Texts,
  Backends,             (* values of the backend option in use             *)
  MaxRecords,           (* LIMITS.records                                  *)
  MaxQueue,             (* bound: operations submitted and not yet settled *)
  PowerFails            (* whether the machine may lose power              *)

ASSUME MemoryAssumption ==
  /\ Null \notin Texts /\ Null \notin Ids /\ Null \notin Handles
  /\ NoIndex \notin [Ids -> Texts \cup {Null}]
  /\ Backends \subseteq {"auto", "ruvector", "lexical"}
  /\ MaxRecords \in Nat /\ MaxQueue \in Nat /\ PowerFails \in BOOLEAN

Records == [Ids -> Texts \cup {Null}]
Empty == [id \in Ids |-> Null]
Size(records) == Cardinality({id \in Ids : records[id] # Null})

Upserts == [id : Ids, text : Texts]
Search == [id |-> Null, text |-> Null]
Ops == Upserts \cup {Search}

Handle == [phase : {"closed", "locked", "loaded", "open", "closing", "dead"},
           backend : Backends,
           records : Records,
           native : BOOLEAN,                (* NativeDb is defined         *)
           index : Records \cup {NoIndex},  (* what db holds               *)
           dirty : BOOLEAN,                 (* nativeDirty                 *)
           poisoned : BOOLEAN,
           queue : Seq(Ops),
           step : {"idle", "index", "write", "sync", "query"}]

VARIABLES
  lock,                 (* owner of .memory.lock, or Null                  *)
  disk,                 (* records.json                                    *)
  recoverable,          (* what records.json may be after a power failure  *)
  handle,
  written,              (* history: text acknowledged after a write, until *)
                        (* the record is written again                     *)
  acked                 (* history: the same, with upserts acknowledged as *)
                        (* unchanged                                       *)

vars == <<lock, disk, recoverable, handle, written, acked>>

store == <<disk, recoverable, written, acked>>

Becomes(h, m) == handle' = [handle EXCEPT ![h] = m]

Op(m) == Head(m.queue)
\* The records once the upsert at the head of the queue is done.
Replaced(m) == [m.records EXCEPT ![Op(m).id] = Op(m).text]

\* The operation at the head of the queue is resolved or rejected.
Settled(m) == [m EXCEPT !.queue = Tail(@), !.step = "idle"]

\* A handle not opened, or closed.
Fresh(b) == [phase |-> "closed", backend |-> b, records |-> Empty,
             native |-> FALSE, index |-> NoIndex, dirty |-> FALSE,
             poisoned |-> FALSE, queue |-> <<>>, step |-> "idle"]

-----------------------------------------------------------------------------
(* Opening and closing.                                                    *)

LockFree == lock = Null

Acquire(h, b) ==
  /\ handle[h].phase = "closed" /\ LockFree
  /\ lock' = h
  /\ Becomes(h, [Fresh(b) EXCEPT !.phase = "locked"])
  /\ UNCHANGED store

Load(h) ==
  /\ handle[h].phase = "locked" /\ Size(disk) =< MaxRecords
  /\ Becomes(h, [handle[h] EXCEPT !.phase = "loaded", !.records = disk])
  /\ UNCHANGED <<lock, store>>

\* The native module loads and its index is built, or the handle does without;
\* a required index that fails is an OpenFails.
Opened(h) ==
  /\ handle[h].phase = "loaded"
  /\ \/ /\ handle[h].backend # "lexical"
        /\ Becomes(h, [handle[h] EXCEPT !.phase = "open", !.native = TRUE,
                                        !.index = handle[h].records])
     \/ /\ handle[h].backend # "ruvector"
        /\ Becomes(h, [handle[h] EXCEPT !.phase = "open"])
  /\ UNCHANGED <<lock, store>>

\* Closed and gone from the disk, but for the records.
Unlock(h) ==
  /\ lock' = Null
  /\ Becomes(h, Fresh(handle[h].backend))
  /\ UNCHANGED store

\* The lock cannot be written, records.json is unreadable or too long, or the
\* required index fails.
OpenFails(h) ==
  /\ \/ handle[h].phase = "locked"
     \/ handle[h].phase = "loaded" /\ handle[h].backend = "ruvector"
  /\ Unlock(h)

Close(h) ==
  /\ handle[h].phase = "open"
  /\ Becomes(h, [handle[h] EXCEPT !.phase = "closing"])
  /\ UNCHANGED <<lock, store>>

\* Slip: close refuses a handle that must be reopened, as other calls do.
DrainedSound(m) == m.queue = <<>> /\ ~m.poisoned
Drained(m) == m.queue = <<>>

Release(h) ==
  /\ handle[h].phase = "closing" /\ Drained(handle[h])
  /\ Unlock(h)

-----------------------------------------------------------------------------
(* The queue.                                                              *)

Enqueue(h, op) ==
  /\ handle[h].phase = "open" /\ ~handle[h].poisoned
  /\ Len(handle[h].queue) < MaxQueue
  /\ Becomes(h, [handle[h] EXCEPT !.queue = Append(@, op)])
  /\ UNCHANGED <<lock, store>>

Live(h) == handle[h].phase \in {"open", "closing"} /\ handle[h].queue # <<>>

\* Slip: the check is made when an operation is submitted, not again when it
\* comes to run.
MayRunPoisoned(m) == TRUE
MayRun(m) == ~m.poisoned

Ready(h) == Live(h) /\ handle[h].step = "idle" /\ MayRun(handle[h])

RejectPoisoned(h) ==
  /\ Live(h) /\ handle[h].step = "idle" /\ ~MayRun(handle[h])
  /\ Becomes(h, Settled(handle[h]))
  /\ UNCHANGED <<lock, store>>

-----------------------------------------------------------------------------
(* The native index.                                                       *)

\* What a failed insert or rebuild towards records may leave behind.
Partial(m, records) ==
  {NoIndex, m.index} \cup
  {[id \in Ids |-> IF id \in S THEN records[id] ELSE Null] : S \in SUBSET Ids}

\* nativeFailure: without a required index the operation goes on to the given
\* step without any; with one it is rejected and the index left dirty.
NativeFailure(h, records, step) ==
  \/ /\ handle[h].backend # "ruvector"
     /\ Becomes(h, [handle[h] EXCEPT !.native = FALSE, !.index = NoIndex,
                                     !.dirty = FALSE, !.step = step])
  \/ /\ handle[h].backend = "ruvector"
     /\ \E i \in Partial(handle[h], records) :
          Becomes(h, Settled([handle[h] EXCEPT !.index = i, !.dirty = TRUE]))

\* ensureIndex: a dirty index is rebuilt from the records in memory.
EnsureIndex(h, step) ==
  IF handle[h].native /\ handle[h].dirty
    THEN \/ Becomes(h, [handle[h] EXCEPT !.index = handle[h].records,
                                         !.dirty = FALSE, !.step = step])
         \/ NativeFailure(h, handle[h].records, step)
    ELSE Becomes(h, [handle[h] EXCEPT !.step = step])

-----------------------------------------------------------------------------
(* upsert.                                                                 *)

Fits(records) == Size(records) =< MaxRecords

Unchanged(h) ==
  /\ Ready(h) /\ Op(handle[h]) \in Upserts
  /\ handle[h].records[Op(handle[h]).id] = Op(handle[h]).text
  /\ acked' = [acked EXCEPT ![Op(handle[h]).id] = Op(handle[h]).text]
  /\ Becomes(h, Settled(handle[h]))
  /\ UNCHANGED <<lock, disk, recoverable, written>>

BeginUpsert(h) ==
  /\ Ready(h) /\ Op(handle[h]) \in Upserts
  /\ handle[h].records[Op(handle[h]).id] # Op(handle[h]).text
  /\ IF Fits(Replaced(handle[h])) THEN EnsureIndex(h, "index")
                                  ELSE Becomes(h, Settled(handle[h]))
  /\ UNCHANGED <<lock, store>>

\* A changed record means a rebuild, a new one an insert.
Inserted(m) ==
  IF m.records[Op(m).id] # Null THEN Replaced(m)
                                ELSE [m.index EXCEPT ![Op(m).id] = Op(m).text]

\* Slip: the rebuilt index is taken for clean although the write is to come.
IndexedClean(m) == [m EXCEPT !.index = Inserted(m), !.dirty = FALSE, !.step = "write"]
\* The index holds the new record, which is not yet committed.
Indexed(m) == [m EXCEPT !.index = Inserted(m), !.dirty = TRUE, !.step = "write"]

UpdateIndex(h) ==
  /\ Live(h) /\ handle[h].step = "index"
  /\ IF handle[h].index # NoIndex
       THEN \/ /\ Size(Inserted(handle[h])) = Size(Replaced(handle[h]))
               /\ Becomes(h, Indexed(handle[h]))
            \/ NativeFailure(h, Replaced(handle[h]), "write")
       ELSE Becomes(h, [handle[h] EXCEPT !.step = "write"])
  /\ UNCHANGED <<lock, store>>

\* atomicWrite up to the rename.
Write(h) ==
  /\ Live(h) /\ handle[h].step = "write"
  /\ disk' = Replaced(handle[h])
  /\ recoverable' = recoverable \cup {disk'}
  /\ written' = [written EXCEPT ![Op(handle[h]).id] = Null]
  /\ acked' = [acked EXCEPT ![Op(handle[h]).id] = Null]
  /\ Becomes(h, [handle[h] EXCEPT !.step = "sync"])
  /\ UNCHANGED lock

\* Slip: the records are published before they are written.
WriteRefusedPublished(m) == [Settled(m) EXCEPT !.records = Replaced(m)]
WriteRefused(m) == Settled(m)

WriteFails(h) ==
  /\ Live(h) /\ handle[h].step = "write"
  /\ Becomes(h, WriteRefused(handle[h]))
  /\ UNCHANGED <<lock, store>>

\* Slip: the directory is not synchronised.
SyncedNever == recoverable
\* What a power failure may leave once the directory is synchronised.
Synced == {disk}

\* The directory is synchronised; only now are the new records published.
Commit(h) ==
  /\ Live(h) /\ handle[h].step = "sync"
  /\ recoverable' = Synced
  /\ written' = [written EXCEPT ![Op(handle[h]).id] = Op(handle[h]).text]
  /\ acked' = [acked EXCEPT ![Op(handle[h]).id] = Op(handle[h]).text]
  /\ Becomes(h, Settled([handle[h] EXCEPT !.records = Replaced(handle[h]),
                                          !.dirty = FALSE]))
  /\ UNCHANGED <<lock, disk>>

CommitUncertain(h) ==
  /\ Live(h) /\ handle[h].step = "sync"
  /\ Becomes(h, Settled([handle[h] EXCEPT !.poisoned = TRUE]))
  /\ UNCHANGED <<lock, store>>

-----------------------------------------------------------------------------
(* search.                                                                 *)

\* A blank query and an empty memory are answered at once.
BeginSearch(h) ==
  /\ Ready(h) /\ Op(handle[h]) = Search
  /\ \/ Becomes(h, Settled(handle[h]))
     \/ handle[h].records # Empty /\ EnsureIndex(h, "query")
  /\ UNCHANGED <<lock, store>>

\* Answered from the index or, without one, from the records; an index that
\* answers nonsense is given up and, unless it is required, the records asked.
Query(h) ==
  /\ Live(h) /\ handle[h].step = "query"
  /\ \/ Becomes(h, Settled(handle[h]))
     \/ handle[h].index # NoIndex /\ NativeFailure(h, handle[h].records, "query")
  /\ UNCHANGED <<lock, store>>

-----------------------------------------------------------------------------
(* The world.                                                              *)

Dead(m) == IF m.phase = "closed" THEN m ELSE [Fresh(m.backend) EXCEPT !.phase = "dead"]

Kill(h) ==
  /\ handle[h].phase \notin {"closed", "dead"}
  /\ Becomes(h, Dead(handle[h]))
  /\ UNCHANGED <<lock, store>>

PowerFailure ==
  /\ PowerFails
  /\ disk' \in recoverable
  /\ recoverable' = {disk'}
  /\ handle' = [h \in Handles |-> Dead(handle[h])]
  /\ UNCHANGED <<lock, written, acked>>

RemoveStaleLock(h) ==
  /\ handle[h].phase = "dead"
  /\ Unlock(h)

-----------------------------------------------------------------------------
Init ==
  /\ lock = Null /\ disk = Empty /\ recoverable = {Empty}
  /\ handle \in [Handles -> {Fresh(b) : b \in Backends}]
  /\ written = Empty /\ acked = Empty

\* The next step of the operation that is running.
Step(h) ==
  \/ RejectPoisoned(h) \/ Unchanged(h) \/ BeginUpsert(h) \/ UpdateIndex(h)
  \/ Write(h) \/ WriteFails(h) \/ Commit(h) \/ CommitUncertain(h)
  \/ BeginSearch(h) \/ Query(h)

Next ==
  \/ \E h \in Handles :
       \/ \E b \in Backends : Acquire(h, b)
       \/ Load(h) \/ Opened(h) \/ OpenFails(h) \/ Close(h) \/ Release(h)
       \/ \E op \in Ops : Enqueue(h, op)
       \/ Step(h) \/ Kill(h) \/ RemoveStaleLock(h)
  \/ PowerFailure

Spec == Init /\ [][Next]_vars

\* An opened handle and a running operation take their next step, a closed
\* handle is released, and the lock of a dead process is removed.
FairSpec ==
  /\ Spec
  /\ \A h \in Handles :
       /\ WF_vars(Step(h)) /\ WF_vars(Release(h)) /\ WF_vars(RemoveStaleLock(h))
       /\ WF_vars(Load(h) \/ Opened(h) \/ OpenFails(h))

-----------------------------------------------------------------------------
(* Properties.                                                             *)

\* Every variable has its type, and an operation in progress is the one at the
\* head of the queue.
TypeOK ==
  /\ lock \in Handles \cup {Null}
  /\ disk \in Records /\ recoverable \subseteq Records
  /\ handle \in [Handles -> Handle]
  /\ written \in Records /\ acked \in Records
  /\ \A h \in Handles :
       handle[h].step # "idle" =>
         handle[h].queue # <<>> /\ handle[h].phase \in {"open", "closing"}

\* Every process that has or had the memory open owns the lock, so there is one.
OneWriter == \A h \in Handles : handle[h].phase # "closed" => lock = h

\* What a handle answers from is what is on disk: between operations its
\* records are those of records.json, and in the middle of one they differ by
\* that operation's record.  Only a handle that must be reopened may differ.
RecordsCurrent ==
  \A h \in Handles :
    handle[h].phase \in {"open", "closing"} /\ ~handle[h].poisoned =>
      disk = IF handle[h].step = "sync" THEN Replaced(handle[h])
                                        ELSE handle[h].records

\* A query put to the native index is put to exactly the records in memory,
\* never to a record whose write failed or is still to come.
IndexCurrent ==
  \A h \in Handles :
    handle[h].step = "query" /\ handle[h].index # NoIndex =>
      handle[h].index = handle[h].records

\* Stated by the message of an uncertain commit, which asks to close and reopen
\* before retrying: a retry that is acknowledged is durable.
AckedDurable ==
  \A id \in Ids, records \in recoverable :
    acked[id] # Null => records[id] = acked[id]

\* close gives the lock back, whatever is queued and whatever fails.
CloseReleases ==
  \A h \in Handles : handle[h].phase = "closing" ~> handle[h].phase = "closed"

\* The memory implements the promise of MemoryStore.
Store == INSTANCE MemoryStore WITH value <- disk, owed <- written
StoreSpec == Store!Spec

\* What an upsert wrote and acknowledged is found by every later open, through
\* kills, power failures and other processes, until the record is written again.
WrittenSurvives == Store!AcknowledgedSurvives
=============================================================================
