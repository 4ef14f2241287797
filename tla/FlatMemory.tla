------------------------------- MODULE FlatMemory -------------------------------
(***************************************************************************)
(* The dream memory of packages/memory/src/index.ts: the flat file of      *)
(* remembered nights, the handles one process has open on it, and the      *)
(* queue their calls share.  The queue is found in a map by the file's     *)
(* path, made by the first call that finds none and dropped from the map   *)
(* when it runs empty.  A handle that keeps its nights in memory shares    *)
(* nothing with any other and is left out.                                 *)
(*                                                                         *)
(* A call reads the file again before anything else.  Between two awaits   *)
(* it is uninterrupted; at an await other calls may be submitted and other *)
(* queues may run, a file operation may fail, the process may be killed    *)
(* and the machine may lose power, which may undo renames not yet          *)
(* synchronised.  What a handle derives from its nights for searching is   *)
(* left out: it is assigned together with them.                            *)
(***************************************************************************)
EXTENDS Naturals, Sequences, FiniteSets

CONSTANTS
  Null,
  Handles,              (* DreamMemory objects open on the one path        *)
  Queues,               (* OperationQueue objects made for the path        *)
  Nights,
  MaxRecords,           (* MEMORY_LIMITS.records                           *)
  MaxPending,           (* MEMORY_LIMITS.pendingOperations                 *)
  MaxDoubts             (* bound: appends whose caller was not told        *)

ASSUME FlatAssumption ==
  /\ Null \notin Queues /\ Null \notin Nights
  /\ MaxRecords \in Nat /\ MaxPending \in Nat /\ MaxDoubts \in Nat

\* An append of a night, or a recall or a listing of all nights.
Calls == [handle : Handles, night : Nights \cup {Null}]

VARIABLES
  file,                 (* the nights in the store                         *)
  durable,              (* how many of them no power failure can undo      *)
  nights,               (* per handle: this.nights                         *)
  slot,                 (* the queue diskQueues holds for the path         *)
  queue,                (* per queue: calls not settled, the first running *)
  step,                 (* per queue: where the running call is            *)
  next,                 (* per queue: the list the running call will write *)
  acked,                (* history: appends that resolved, per night       *)
  doubts                (* history: appends that renamed and did not       *)

store == <<file, durable>>
history == <<acked, doubts>>
vars == <<store, nights, slot, queue, step, next, history>>

Occurrences(night, list) == Cardinality({i \in 1 .. Len(list) : list[i] = night})

Call(q) == Head(queue[q])
Running(q, s) == queue[q] # <<>> /\ step[q] = s

-----------------------------------------------------------------------------
(* The queue.                                                              *)

\* The queues a new call may be put in.
QueueFor == IF slot # Null THEN {slot} ELSE {q \in Queues : queue[q] = <<>>}

\* Refused at once when the queue is full.
Submit(h, night) ==
  \E q \in QueueFor :
    /\ Len(queue[q]) < MaxPending
    /\ queue' = [queue EXCEPT ![q] = Append(@, [handle |-> h, night |-> night])]
    /\ slot' = q
    /\ UNCHANGED <<store, nights, step, next, history>>

\* The map once the call is settled: an empty queue is dropped from it.
SlotAfter(q) == IF slot = q /\ Len(queue[q]) = 1 THEN Null ELSE slot

Settle(q) ==
  /\ queue' = [queue EXCEPT ![q] = Tail(@)]
  /\ step' = [step EXCEPT ![q] = "idle"]
  /\ slot' = SlotAfter(q)

\* Slip: a call that failed waits for another try behind the others.
RejectRetries(q) ==
  /\ queue' = [queue EXCEPT ![q] = Append(Tail(@), Head(@))]
  /\ step' = [step EXCEPT ![q] = "idle"]
  /\ UNCHANGED slot
Reject(q) == Settle(q)

-----------------------------------------------------------------------------
(* Loading and reading.                                                    *)

\* Slip: the file is read by the first call only.
LoadedOnce(q) ==
  IF nights[Call(q).handle] = <<>> THEN file ELSE nights[Call(q).handle]
Loaded(q) == file

Load(q) ==
  /\ Running(q, "idle")
  /\ nights' = [nights EXCEPT ![Call(q).handle] = Loaded(q)]
  /\ step' = [step EXCEPT ![q] = "loaded"]
  /\ UNCHANGED <<store, slot, queue, next, history>>

LoadFails(q) ==
  /\ Running(q, "idle")
  /\ Reject(q)
  /\ UNCHANGED <<store, nights, next, history>>

\* recall and all.
Answer(q) ==
  /\ Running(q, "loaded") /\ Call(q).night = Null
  /\ Settle(q)
  /\ UNCHANGED <<store, nights, next, history>>

-----------------------------------------------------------------------------
(* remember.                                                               *)

Full(list) == Len(list) >= MaxRecords

\* Slip: the newest night comes first.
AppendedFirst(q) == <<Call(q).night>> \o nights[Call(q).handle]
Appended(q) == Append(nights[Call(q).handle], Call(q).night)

RefuseFull(q) ==
  /\ Running(q, "loaded") /\ Call(q).night # Null
  /\ Full(nights[Call(q).handle])
  /\ Reject(q)
  /\ UNCHANGED <<store, nights, next, history>>

Prepare(q) ==
  /\ Running(q, "loaded") /\ Call(q).night # Null
  /\ ~Full(nights[Call(q).handle])
  /\ next' = [next EXCEPT ![q] = Appended(q)]
  /\ step' = [step EXCEPT ![q] = "write"]
  /\ UNCHANGED <<store, nights, slot, queue, history>>

\* The temporary file is written, flushed and renamed over the store.
Rename(q) ==
  /\ Running(q, "write")
  /\ file' = next[q]
  /\ step' = [step EXCEPT ![q] = "sync"]
  /\ UNCHANGED <<durable, nights, slot, queue, next, history>>

\* A failure before the rename; the temporary file is discarded.
WriteFails(q) ==
  /\ Running(q, "write")
  /\ Reject(q)
  /\ UNCHANGED <<store, nights, next, history>>

\* Slip: the directory is not flushed.
DurableUnsynced == durable
\* What is safe once the directory has been flushed.
DurableNow == Len(file)

Commit(q) ==
  /\ Running(q, "sync")
  /\ durable' = DurableNow
  /\ nights' = [nights EXCEPT ![Call(q).handle] = next[q]]
  /\ acked' = [acked EXCEPT ![Call(q).night] = @ + 1]
  /\ Settle(q)
  /\ UNCHANGED <<file, next, doubts>>

\* Appends renamed whose callers have not been answered.
Unanswered(night) ==
  Cardinality({q \in Queues : Running(q, "sync") /\ Call(q).night = night})

Uncertain(q) ==
  /\ Running(q, "sync") /\ doubts[Call(q).night] < MaxDoubts
  /\ Reject(q)
  /\ doubts' = [doubts EXCEPT ![Call(q).night] = @ + 1]
  /\ UNCHANGED <<store, nights, next, acked>>

-----------------------------------------------------------------------------
(* The world.                                                              *)

\* The process ends; a new one opens the handles again.
Restart ==
  /\ nights' = [h \in Handles |-> <<>>]
  /\ slot' = Null
  /\ queue' = [q \in Queues |-> <<>>]
  /\ step' = [q \in Queues |-> "idle"]
  /\ next' = [q \in Queues |-> <<>>]
  /\ \A night \in Nights : doubts[night] + Unanswered(night) =< MaxDoubts
  /\ doubts' = [night \in Nights |-> doubts[night] + Unanswered(night)]
  /\ UNCHANGED acked

Kill == Restart /\ UNCHANGED store

PowerFailure ==
  /\ \E n \in durable .. Len(file) : file' = SubSeq(file, 1, n) /\ durable' = n
  /\ Restart

-----------------------------------------------------------------------------
Init ==
  /\ file = <<>> /\ durable = 0
  /\ nights = [h \in Handles |-> <<>>]
  /\ slot = Null
  /\ queue = [q \in Queues |-> <<>>]
  /\ step = [q \in Queues |-> "idle"]
  /\ next = [q \in Queues |-> <<>>]
  /\ acked = [night \in Nights |-> 0] /\ doubts = [night \in Nights |-> 0]

\* The next step of the call that is running.
Run(q) ==
  \/ Load(q) \/ LoadFails(q) \/ Answer(q) \/ RefuseFull(q) \/ Prepare(q)
  \/ Rename(q) \/ WriteFails(q) \/ Commit(q) \/ Uncertain(q)

Next ==
  \/ \E h \in Handles, night \in Nights \cup {Null} : Submit(h, night)
  \/ \E q \in Queues : Run(q)
  \/ Kill \/ PowerFailure

Spec == Init /\ [][Next]_vars

\* A running call goes on, one way or another.
FairSpec == Spec /\ \A q \in Queues : WF_vars(Run(q))

-----------------------------------------------------------------------------
(* Properties.                                                             *)

\* Every variable has its type.
TypeOK ==
  /\ file \in Seq(Nights) /\ durable \in 0 .. Len(file)
  /\ nights \in [Handles -> Seq(Nights)]
  /\ slot \in Queues \cup {Null}
  /\ queue \in [Queues -> Seq(Calls)]
  /\ step \in [Queues -> {"idle", "loaded", "write", "sync"}]
  /\ next \in [Queues -> Seq(Nights)]
  /\ acked \in [Nights -> Nat] /\ doubts \in [Nights -> Nat]

\* The calls waiting for the file are in one queue, the one the map holds, and
\* the map holds no queue that is empty.
OneQueue ==
  /\ \A q \in Queues : queue[q] # <<>> => slot = q
  /\ slot # Null => queue[slot] # <<>>

\* What a call answers from, or adds its night to, is the file as it is then:
\* no other handle has written between its reading and its use.
AnswersCurrent ==
  \A q \in Queues : Running(q, "loaded") => nights[Call(q).handle] = file

\* An append that resolved is in the file once, one that was rejected is not,
\* and one whose sync failed is there at most once, whatever is killed or lost.
EachOnce ==
  \A night \in Nights :
    LET copies == Occurrences(night, file)
    IN  /\ acked[night] =< copies
        /\ copies =< acked[night] + doubts[night] + Unanswered(night)

\* The store never holds more nights than a load accepts.
Reopenable == Len(file) =< MaxRecords

\* A queue that is full takes calls again, whatever fails.
CapacityReturns ==
  \A q \in Queues : Len(queue[q]) = MaxPending ~> Len(queue[q]) < MaxPending

\* The memory implements the promise of NightLog.
Log == INSTANCE NightLog WITH log <- file
LogSpec == Log!Spec
=============================================================================
