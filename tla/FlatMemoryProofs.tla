---------------------------- MODULE FlatMemoryProofs ----------------------------
(***************************************************************************)
(* Proofs about FlatMemory: the calls of all handles of a path wait in one *)
(* queue, a call works on the file as it is, the store stays within its    *)
(* limit, every append is in it once, and it implements NightLog.          *)
(*                                                                         *)
(* The inductive invariant adds to these what the running call has read    *)
(* and what the list to be written is at each of its steps (FlatInv), and  *)
(* how many copies of a night are safe and how many there are (Counted).   *)
(***************************************************************************)
EXTENDS FlatMemory, SequenceTheorems, FiniteSetTheorems, TLAPS

\* Where the running call of a queue is, and what it works on.
Progress(q) ==
  /\ step[q] # "idle" => queue[q] # <<>>
  /\ step[q] = "loaded" => nights[Call(q).handle] = file
  /\ step[q] \in {"write", "sync"} => Call(q).night # Null
  /\ step[q] = "write" => /\ next[q] = Append(file, Call(q).night)
                          /\ Len(file) < MaxRecords
  /\ step[q] = "sync" => next[q] = file

FlatInv ==
  /\ TypeOK /\ OneQueue /\ Reopenable
  /\ \A q \in Queues : Progress(q)

-----------------------------------------------------------------------------
(* Queues.                                                                 *)

\* The running call of a queue.
LEMMA RunningCall ==
  ASSUME FlatInv, NEW q \in Queues, queue[q] # <<>>
  PROVE  /\ queue[q] \in Seq(Calls) /\ Call(q) \in Calls
         /\ Call(q).handle \in Handles /\ Call(q).night \in Nights \cup {Null}
         /\ slot = q /\ \A p \in Queues : p # q => queue[p] = <<>>
<1>1. queue[q] \in Seq(Calls)
  BY DEF FlatInv, TypeOK
<1>2. Len(queue[q]) > 0 /\ Call(q) = queue[q][1] /\ Call(q) \in Calls
  BY <1>1, HeadTailProperties, EmptySeq DEF Call
<1> QED
  BY <1>1, <1>2 DEF FlatInv, OneQueue, Calls

\* Settling a call keeps what is known of queues and of the map.
LEMMA SettleQueue ==
  ASSUME FlatInv, NEW q \in Queues, queue[q] # <<>>, Settle(q)
  PROVE  /\ queue' \in [Queues -> Seq(Calls)]
         /\ step' \in [Queues -> {"idle", "loaded", "write", "sync"}]
         /\ slot' \in Queues \cup {Null}
         /\ OneQueue'
         /\ step'[q] = "idle"
         /\ \A p \in Queues : p # q => queue'[p] = queue[p] /\ step'[p] = step[p]
<1>1. /\ Tail(queue[q]) \in Seq(Calls) /\ queue \in [Queues -> Seq(Calls)]
      /\ Len(Tail(queue[q])) = Len(queue[q]) - 1 /\ Len(queue[q]) \in Nat
      /\ \A i \in 1 .. Len(Tail(queue[q])) : Tail(queue[q])[i] = queue[q][i + 1]
  BY HeadTailProperties DEF FlatInv, TypeOK
<1>2. /\ queue' = [queue EXCEPT ![q] = Tail(@)]
      /\ step' = [step EXCEPT ![q] = "idle"]
      /\ slot' = SlotAfter(q)
  BY DEF Settle
<1>3. /\ queue' \in [Queues -> Seq(Calls)] /\ queue'[q] = Tail(queue[q])
      /\ \A p \in Queues : p # q => queue'[p] = queue[p]
  BY <1>1, <1>2
<1>4. /\ step' \in [Queues -> {"idle", "loaded", "write", "sync"}]
      /\ step'[q] = "idle" /\ \A p \in Queues : p # q => step'[p] = step[p]
  BY <1>2 DEF FlatInv, TypeOK
<1>5. slot' \in Queues \cup {Null}
  BY <1>2 DEF SlotAfter, FlatInv, TypeOK
<1>6. OneQueue'
  <2>1. Len(queue[q]) = 1 <=> queue'[q] = <<>>
    <3>1. Len(Tail(queue[q])) = 0 <=> Tail(queue[q]) = <<>>
      BY <1>1, EmptySeq
    <3> QED
      BY <1>1, <1>3, <3>1
  <2>2. slot = q /\ \A p \in Queues : p # q => queue[p] = <<>>
    BY RunningCall
  <2> QED
    BY <1>2, <1>3, <2>1, <2>2, FlatAssumption DEF OneQueue, SlotAfter
<1> QED
  BY <1>3, <1>4, <1>5, <1>6

\* A call that settles without writing keeps the invariant.
LEMMA EndInv ==
  ASSUME FlatInv, NEW q \in Queues, queue[q] # <<>>, Settle(q),
         UNCHANGED <<file, durable, nights, next, acked>>, doubts' \in [Nights -> Nat]
  PROVE  FlatInv'
<1>1. TypeOK' /\ Reopenable'
  BY SettleQueue DEF FlatInv, TypeOK, Reopenable
<1>2. ASSUME NEW p \in Queues PROVE Progress(p)'
  BY <1>2, SettleQueue DEF FlatInv, Progress, Call
<1> QED
  BY <1>1, <1>2, SettleQueue DEF FlatInv

\* Queueing a call behind others leaves the running one alone.
LEMMA SubmitInv ==
  ASSUME FlatInv, NEW h \in Handles, NEW night \in Nights \cup {Null},
         Submit(h, night)
  PROVE  FlatInv'
<1> DEFINE call == [handle |-> h, night |-> night]
<1>1. PICK q \in QueueFor :
        /\ queue' = [queue EXCEPT ![q] = Append(@, call)]
        /\ slot' = q
        /\ UNCHANGED <<store, nights, step, next, history>>
  BY DEF Submit
<1>2. call \in Calls /\ queue \in [Queues -> Seq(Calls)]
  BY DEF Calls, FlatInv, TypeOK
<1>3. q \in Queues /\ (slot # Null => slot = q)
  BY DEF QueueFor, FlatInv, TypeOK
<1> HIDE DEF call
<1>4. /\ queue' \in [Queues -> Seq(Calls)]
      /\ queue'[q] = Append(queue[q], call) /\ queue'[q] # <<>>
      /\ \A p \in Queues : p # q => queue'[p] = queue[p]
  BY <1>1, <1>2, <1>3, AppendProperties
<1>5. queue[q] # <<>> => Head(queue'[q]) = Head(queue[q])
  BY <1>2, <1>3, <1>4, HeadTailAppend
<1>6. TypeOK' /\ Reopenable'
  BY <1>1, <1>3, <1>4 DEF FlatInv, TypeOK, Reopenable, store, history
<1>7. OneQueue'
  <2>1. \A p \in Queues : p # q => queue[p] = <<>>
    BY <1>3, FlatAssumption DEF FlatInv, OneQueue
  <2> QED
    BY <1>1, <1>3, <1>4, <2>1 DEF OneQueue
<1>8. ASSUME NEW p \in Queues PROVE Progress(p)'
  <2>1. Progress(p) /\ UNCHANGED <<file, nights, step, next>>
    BY <1>1 DEF FlatInv, store
  <2>2. queue[p] # <<>> => queue'[p] # <<>> /\ Call(p)' = Call(p)
    BY <1>4, <1>5 DEF Call
  <2> QED
    BY <2>1, <2>2 DEF Progress
<1> QED
  BY <1>6, <1>7, <1>8 DEF FlatInv

-----------------------------------------------------------------------------
(* The steps of a call.                                                    *)

\* Reading the file.
LEMMA LoadInv == ASSUME FlatInv, NEW q \in Queues, Load(q) PROVE FlatInv'
<1> DEFINE h == Call(q).handle
<1>1. /\ queue[q] # <<>> /\ step[q] = "idle"
      /\ nights' = [nights EXCEPT ![h] = Loaded(q)]
      /\ step' = [step EXCEPT ![q] = "loaded"]
      /\ UNCHANGED <<file, durable, slot, queue, next, acked, doubts>>
  BY DEF Load, Running, store, history
<1>2. h \in Handles /\ \A p \in Queues : p # q => queue[p] = <<>>
  BY <1>1, RunningCall
<1>3. nights' \in [Handles -> Seq(Nights)] /\ nights'[h] = file
  BY <1>1, <1>2 DEF Loaded, FlatInv, TypeOK
<1>4. /\ step' \in [Queues -> {"idle", "loaded", "write", "sync"}]
      /\ step'[q] = "loaded" /\ \A p \in Queues : p # q => step'[p] = step[p]
  BY <1>1 DEF FlatInv, TypeOK
<1>5. TypeOK' /\ Reopenable' /\ OneQueue'
  BY <1>1, <1>3, <1>4 DEF FlatInv, TypeOK, Reopenable, OneQueue
<1>6. ASSUME NEW p \in Queues PROVE Progress(p)'
  <2>1. Call(p)' = Call(p)
    BY <1>1 DEF Call
  <2>2. CASE p = q
    BY <1>1, <1>3, <1>4, <2>1, <2>2 DEF Progress
  <2>3. CASE p # q
    BY <1>1, <1>2, <1>4, <2>1, <2>3 DEF FlatInv, Progress
  <2> QED
    BY <2>2, <2>3
<1> QED
  BY <1>5, <1>6 DEF FlatInv

\* Computing the list to write.
LEMMA PrepareInv == ASSUME FlatInv, NEW q \in Queues, Prepare(q) PROVE FlatInv'
<1>1. /\ queue[q] # <<>> /\ step[q] = "loaded"
      /\ Call(q).night # Null /\ ~Full(nights[Call(q).handle])
      /\ next' = [next EXCEPT ![q] = Appended(q)]
      /\ step' = [step EXCEPT ![q] = "write"]
      /\ UNCHANGED <<file, durable, nights, slot, queue, acked, doubts>>
  BY DEF Prepare, Running, store, history
<1>2. Call(q).night \in Nights /\ nights[Call(q).handle] = file
  BY <1>1, RunningCall DEF FlatInv, Progress
<1>3. /\ Appended(q) = Append(file, Call(q).night) /\ Appended(q) \in Seq(Nights)
      /\ Len(file) < MaxRecords
  BY <1>1, <1>2, AppendProperties, FlatAssumption DEF Appended, Full, FlatInv, TypeOK
<1>4. /\ next' \in [Queues -> Seq(Nights)] /\ next'[q] = Appended(q)
      /\ step' \in [Queues -> {"idle", "loaded", "write", "sync"}]
      /\ step'[q] = "write"
      /\ \A p \in Queues : p # q => step'[p] = step[p] /\ next'[p] = next[p]
  BY <1>1, <1>3 DEF FlatInv, TypeOK
<1>5. TypeOK' /\ Reopenable' /\ OneQueue'
  BY <1>1, <1>4 DEF FlatInv, TypeOK, Reopenable, OneQueue
<1>6. ASSUME NEW p \in Queues PROVE Progress(p)'
  <2>1. Call(p)' = Call(p)
    BY <1>1 DEF Call
  <2>2. CASE p = q
    BY <1>1, <1>2, <1>3, <1>4, <2>1, <2>2 DEF Progress
  <2>3. CASE p # q
    BY <1>1, <1>4, <2>1, <2>3 DEF FlatInv, Progress
  <2> QED
    BY <2>2, <2>3
<1> QED
  BY <1>5, <1>6 DEF FlatInv

\* The rename puts the prepared list in the place of the file it extends.
LEMMA RenameInv == ASSUME FlatInv, NEW q \in Queues, Rename(q) PROVE FlatInv'
<1>1. /\ queue[q] # <<>> /\ step[q] = "write" /\ file' = next[q]
      /\ step' = [step EXCEPT ![q] = "sync"]
      /\ UNCHANGED <<durable, nights, slot, queue, next, acked, doubts>>
  BY DEF Rename, Running, history
<1>3. /\ Call(q).night \in Nights
      /\ next[q] = Append(file, Call(q).night) /\ Len(file) < MaxRecords
      /\ \A p \in Queues : p # q => queue[p] = <<>>
  BY <1>1, RunningCall DEF FlatInv, Progress
<1>4. /\ file' \in Seq(Nights) /\ Len(file') = Len(file) + 1
      /\ durable \in 0 .. Len(file) /\ Len(file) \in Nat
  BY <1>1, <1>3, AppendProperties DEF FlatInv, TypeOK
<1>5. /\ step' \in [Queues -> {"idle", "loaded", "write", "sync"}]
      /\ step'[q] = "sync" /\ \A p \in Queues : p # q => step'[p] = step[p]
  BY <1>1 DEF FlatInv, TypeOK
<1>6. TypeOK' /\ Reopenable' /\ OneQueue'
  BY <1>1, <1>3, <1>4, <1>5, FlatAssumption
     DEF FlatInv, TypeOK, Reopenable, OneQueue
<1>7. ASSUME NEW p \in Queues PROVE Progress(p)'
  <2>1. Call(p)' = Call(p)
    BY <1>1 DEF Call
  <2>2. CASE p = q
    BY <1>1, <1>3, <1>5, <2>1, <2>2 DEF FlatInv, Progress
  <2>3. CASE p # q
    <3>1. step[p] = "idle"
      BY <1>3, <2>3 DEF FlatInv, Progress
    <3> QED
      BY <1>5, <2>3, <3>1 DEF Progress
  <2> QED
    BY <2>2, <2>3
<1> QED
  BY <1>6, <1>7 DEF FlatInv

\* Publishing the list that is on disk.
LEMMA CommitInv == ASSUME FlatInv, NEW q \in Queues, Commit(q) PROVE FlatInv'
<1>1. /\ queue[q] # <<>> /\ step[q] = "sync" /\ durable' = Len(file) /\ Settle(q)
      /\ nights' = [nights EXCEPT ![Call(q).handle] = next[q]]
      /\ acked' = [acked EXCEPT ![Call(q).night] = @ + 1]
      /\ UNCHANGED <<file, next, doubts>>
  BY DEF Commit, DurableNow, Running
<1>3. /\ Call(q).night \in Nights /\ Call(q).handle \in Handles
      /\ \A p \in Queues : p # q => queue[p] = <<>>
  BY <1>1, RunningCall DEF FlatInv, Progress
<1>4. /\ nights' \in [Handles -> Seq(Nights)] /\ acked' \in [Nights -> Nat]
      /\ durable' \in 0 .. Len(file)
  BY <1>1, <1>3, LenProperties DEF FlatInv, TypeOK
<1>5. TypeOK' /\ Reopenable'
  BY <1>1, <1>4, SettleQueue DEF FlatInv, TypeOK, Reopenable
<1>6. ASSUME NEW p \in Queues PROVE Progress(p)'
  <2>1. CASE p = q
    BY <1>1, <2>1, SettleQueue DEF Progress
  <2>2. CASE p # q
    <3>1. step'[p] = "idle"
      BY <1>1, <1>3, <2>2, SettleQueue DEF FlatInv, Progress
    <3> QED
      BY <3>1 DEF Progress
  <2> QED
    BY <2>1, <2>2
<1> QED
  BY <1>1, <1>5, <1>6, SettleQueue DEF FlatInv

-----------------------------------------------------------------------------
(* The invariant.                                                          *)

LEMMA RunInv == ASSUME FlatInv, NEW q \in Queues, Run(q) PROVE FlatInv'
<1>1. CASE LoadFails(q) \/ Answer(q) \/ RefuseFull(q) \/ WriteFails(q)
  <2>1. /\ queue[q] # <<>> /\ Settle(q)
        /\ UNCHANGED <<file, durable, nights, next, acked, doubts>>
    BY <1>1 DEF LoadFails, Answer, RefuseFull, WriteFails, Reject, Running, store,
       history
  <2>2. doubts' \in [Nights -> Nat]
    BY <2>1 DEF FlatInv, TypeOK
  <2> QED
    BY <2>1, <2>2, EndInv
<1>2. CASE Uncertain(q)
  <2>1. /\ queue[q] # <<>> /\ Settle(q)
        /\ UNCHANGED <<file, durable, nights, next, acked>>
        /\ doubts' = [doubts EXCEPT ![Call(q).night] = @ + 1]
    BY <1>2 DEF Uncertain, Reject, Running, store
  <2>2. doubts' \in [Nights -> Nat]
    <3>1. doubts \in [Nights -> Nat]
      BY DEF FlatInv, TypeOK
    <3> DEFINE night == Call(q).night
    <3>2. night \in Nights => doubts[night] + 1 \in Nat
      BY <3>1
    <3>3. doubts' = [doubts EXCEPT ![night] = doubts[night] + 1]
      BY <2>1
    <3> HIDE DEF night
    <3> QED
      BY <3>1, <3>2, <3>3
  <2> QED
    BY <2>1, <2>2, EndInv
<1> QED
  BY <1>1, <1>2, LoadInv, PrepareInv, RenameInv, CommitInv DEF Run

\* At most the one running call is unanswered.
LEMMA UnansweredCount ==
  ASSUME FlatInv, NEW night \in Nights PROVE Unanswered(night) \in Nat
<1> DEFINE S == {q \in Queues : Running(q, "sync") /\ Call(q).night = night}
<1>1. S \subseteq {slot}
  BY DEF FlatInv, OneQueue, Running
<1>2. IsFiniteSet(S)
  BY <1>1, FS_Singleton, FS_Subset
<1> QED
  BY <1>2, FS_CardinalityType DEF Unanswered

\* A restarted process has nothing to be wrong about; the file may be any of
\* those that could survive.
LEMMA RestartInv ==
  ASSUME FlatInv, Restart, file' \in Seq(Nights), durable' \in 0 .. Len(file'),
         Len(file') =< MaxRecords
  PROVE  FlatInv'
<1>1. /\ nights' = [h \in Handles |-> <<>>] /\ slot' = Null
      /\ queue' = [q \in Queues |-> <<>>]
      /\ step' = [q \in Queues |-> "idle"]
      /\ next' = [q \in Queues |-> <<>>]
      /\ doubts' = [night \in Nights |-> doubts[night] + Unanswered(night)]
      /\ acked' = acked
  BY DEF Restart
<1>2. /\ <<>> \in Seq(Nights) /\ <<>> \in Seq(Calls) /\ Len(<<>>) = 0
  BY EmptySeq
<1>3. doubts' \in [Nights -> Nat]
  <2>1. ASSUME NEW night \in Nights PROVE Unanswered(night) \in Nat
    BY <2>1, UnansweredCount
  <2> QED
    BY <1>1, <2>1 DEF FlatInv, TypeOK
<1>4. TypeOK'
  BY <1>1, <1>2, <1>3 DEF FlatInv, TypeOK
<1>5. OneQueue' /\ Reopenable'
  BY <1>1 DEF OneQueue, Reopenable
<1>6. \A q \in Queues : Progress(q)'
  BY <1>1 DEF Progress
<1> QED
  BY <1>4, <1>5, <1>6 DEF FlatInv

LEMMA WorldInv == ASSUME FlatInv, Kill \/ PowerFailure PROVE FlatInv'
<1>1. /\ file \in Seq(Nights) /\ durable \in 0 .. Len(file)
      /\ Len(file) =< MaxRecords /\ Len(file) \in Nat /\ MaxRecords \in Nat
  BY LenProperties, FlatAssumption DEF FlatInv, TypeOK, Reopenable
<1>2. CASE Kill
  BY <1>1, <1>2, RestartInv DEF Kill, store
<1>3. CASE PowerFailure
  <2>1. PICK n \in durable .. Len(file) : file' = SubSeq(file, 1, n) /\ durable' = n
    BY <1>3 DEF PowerFailure
  <2>2. n \in 0 .. Len(file)
    BY <1>1
  <2>3. file' \in Seq(Nights) /\ Len(file') = n
    BY <1>1, <2>1, <2>2, SubSeqProperties
  <2>4. durable' \in 0 .. Len(file') /\ Len(file') =< MaxRecords
    BY <1>1, <2>1, <2>2, <2>3
  <2> QED
    BY <1>3, <2>3, <2>4, RestartInv DEF PowerFailure
<1> QED
  BY <1>2, <1>3

LEMMA FlatInit == Init => FlatInv
<1> SUFFICES ASSUME Init PROVE FlatInv
  OBVIOUS
<1>1. /\ <<>> \in Seq(Nights) /\ <<>> \in Seq(Calls) /\ Len(<<>>) = 0
      /\ MaxRecords \in Nat
  BY EmptySeq, FlatAssumption
<1>2. TypeOK /\ Reopenable
  BY <1>1 DEF Init, TypeOK, Reopenable
<1>3. \A q \in Queues : queue[q] = <<>> /\ step[q] = "idle"
  BY DEF Init
<1>4. OneQueue
  BY <1>3 DEF Init, OneQueue
<1> QED
  BY <1>2, <1>3, <1>4 DEF FlatInv, Progress

LEMMA FlatStep == FlatInv /\ [Next]_vars => FlatInv'
<1> SUFFICES ASSUME FlatInv, [Next]_vars PROVE FlatInv'
  OBVIOUS
<1>1. CASE UNCHANGED vars
  BY <1>1 DEF vars, store, history, FlatInv, TypeOK, OneQueue, Reopenable,
     Progress, Call
<1> QED
  BY <1>1, SubmitInv, RunInv, WorldInv DEF Next

\* Every variable keeps its type.
THEOREM TypeCorrect == Spec => []TypeOK
<1>1. FlatInv => TypeOK
  BY DEF FlatInv
<1> QED
  BY <1>1, FlatInit, FlatStep, PTL DEF Spec

\* However many handles call at once, their calls wait in one queue, and an
\* empty queue leaves the map.
THEOREM OneQueueCorrect == Spec => []OneQueue
<1>1. FlatInv => OneQueue
  BY DEF FlatInv
<1> QED
  BY <1>1, FlatInit, FlatStep, PTL DEF Spec

\* A call answers from, and extends, the file as it is.
THEOREM AnswersCurrentCorrect == Spec => []AnswersCurrent
<1>1. FlatInv => AnswersCurrent
  BY DEF FlatInv, AnswersCurrent, Running, Progress
<1> QED
  BY <1>1, FlatInit, FlatStep, PTL DEF Spec

\* No sequence of calls makes a store that a later load refuses.
THEOREM ReopenableCorrect == Spec => []Reopenable
<1>1. FlatInv => Reopenable
  BY DEF FlatInv
<1> QED
  BY <1>1, FlatInit, FlatStep, PTL DEF Spec

-----------------------------------------------------------------------------
(* Each night once.                                                        *)

\* The running call whose append of a night has been renamed.
Answering(night) == {q \in Queues : Running(q, "sync") /\ Call(q).night = night}

\* No power failure can undo a copy that was acknowledged, and one that was
\* renamed is there to be acknowledged.
Counted ==
  \A night \in Nights :
    LET copies == Occurrences(night, file)
    IN  /\ acked[night] =< Occurrences(night, SubSeq(file, 1, durable))
        /\ acked[night] + Unanswered(night) =< copies
        /\ copies =< acked[night] + doubts[night] + Unanswered(night)

\* A prefix has no more copies than the whole.
LEMMA PrefixCopies ==
  ASSUME NEW list \in Seq(Nights), NEW night, NEW m \in 0 .. Len(list), NEW n \in m .. Len(list)
  PROVE  /\ Occurrences(night, SubSeq(list, 1, m)) \in Nat
         /\ Occurrences(night, SubSeq(list, 1, n)) \in Nat
         /\ Occurrences(night, SubSeq(list, 1, m)) =< Occurrences(night, SubSeq(list, 1, n))
         /\ SubSeq(list, 1, Len(list)) = list
<1> DEFINE copies(k) == {i \in 1 .. k : list[i] = night}
<1>1. Len(list) \in Nat /\ \A i \in 1 .. Len(list) : list[i] \in Nights
  BY ElementOfSeq
<1>2. ASSUME NEW k \in 0 .. Len(list)
      PROVE  /\ Occurrences(night, SubSeq(list, 1, k)) = Cardinality(copies(k))
             /\ IsFiniteSet(copies(k))
  <2>1. /\ Len(SubSeq(list, 1, k)) = k
        /\ \A i \in 1 .. k : SubSeq(list, 1, k)[i] = list[i]
    BY <1>1, SubSeqProperties
  <2>2. {i \in 1 .. Len(SubSeq(list, 1, k)) : SubSeq(list, 1, k)[i] = night} = copies(k)
    BY <2>1
  <2>3. IsFiniteSet(1 .. k)
    <3>1. 1 \in Int /\ k \in Int
      BY <1>1
    <3> QED
      BY <3>1, FS_Interval
  <2> QED
    BY <2>2, <2>3, FS_Subset DEF Occurrences
<1>3. m \in 0 .. Len(list) /\ n \in 0 .. Len(list) /\ copies(m) \subseteq copies(n)
  BY <1>1
<1> HIDE DEF copies
<1>4. SubSeq(list, 1, Len(list)) = list
  BY <1>1, SubSeqProperties, SeqEqual
<1> QED
  BY <1>2, <1>3, <1>4, FS_Subset, FS_CardinalityType

\* An append adds one copy of its night and none of another.
LEMMA AppendCopies ==
  ASSUME NEW list \in Seq(Nights), NEW x \in Nights, NEW night
  PROVE  /\ Occurrences(night, list) \in Nat
         /\ Occurrences(night, Append(list, x)) =
              Occurrences(night, list) + (IF x = night THEN 1 ELSE 0)
<1> DEFINE longer == Append(list, x)
           old == {i \in 1 .. Len(list) : list[i] = night}
           new == {i \in 1 .. Len(longer) : longer[i] = night}
<1>1. /\ Len(list) \in Nat /\ Len(longer) = Len(list) + 1
      /\ longer[Len(list) + 1] = x
      /\ \A i \in 1 .. Len(list) : longer[i] = list[i]
  BY AppendProperties, LenProperties
<1> HIDE DEF longer
<1>2. IsFiniteSet(old) /\ Len(list) + 1 \notin old
  <2>1. IsFiniteSet(1 .. Len(list))
    <3>1. 1 \in Int /\ Len(list) \in Int
      BY <1>1
    <3> QED
      BY <3>1, FS_Interval
  <2>2. Len(list) + 1 \notin 1 .. Len(list)
    BY <1>1
  <2> QED
    BY <2>1, <2>2, FS_Subset
<1>3. new = IF x = night THEN old \cup {Len(list) + 1} ELSE old
  <2>1. 1 .. Len(longer) = (1 .. Len(list)) \cup {Len(list) + 1}
    BY <1>1
  <2> QED
    BY <1>1, <2>1
<1>4. Occurrences(night, list) = Cardinality(old) /\ Occurrences(night, longer) = Cardinality(new)
  BY DEF Occurrences
<1> HIDE DEF old, new
<1> QED
  BY <1>2, <1>3, <1>4, FS_AddElement, FS_CardinalityType DEF longer

\* Nights whose copies, appends and unanswered calls stay as they are.
LEMMA CountedSame ==
  ASSUME Counted, UNCHANGED <<file, durable, acked, doubts>>,
         \A night \in Nights : Answering(night)' = Answering(night)
  PROVE  Counted'
<1>1. \A night \in Nights : Unanswered(night)' = Unanswered(night)
  BY DEF Unanswered, Answering
<1> QED
  BY <1>1 DEF Counted, Occurrences

\* Who is answering, by the step alone.
LEMMA AnsweringIs ==
  ASSUME FlatInv, NEW night \in Nights
  PROVE  Answering(night) = {q \in Queues : step[q] = "sync" /\ Call(q).night = night}
BY DEF Answering, Running, FlatInv, Progress

LEMMA SubmitCounted ==
  ASSUME FlatInv, Counted, NEW h \in Handles, NEW night \in Nights \cup {Null},
         Submit(h, night)
  PROVE  Counted'
<1> DEFINE call == [handle |-> h, night |-> night]
<1>1. PICK q \in QueueFor :
        /\ queue' = [queue EXCEPT ![q] = Append(@, call)]
        /\ UNCHANGED <<file, durable, step, acked, doubts>>
  BY DEF Submit, store, history
<1>2. /\ call \in Calls /\ queue \in [Queues -> Seq(Calls)] /\ q \in Queues
  BY <1>1 DEF Calls, FlatInv, TypeOK, QueueFor
<1> HIDE DEF call
<1>3. queue'[q] = Append(queue[q], call) /\ queue'[q] # <<>>
      /\ \A p \in Queues : p # q => queue'[p] = queue[p]
  BY <1>1, <1>2, AppendProperties
<1>4. queue[q] # <<>> => Head(queue'[q]) = Head(queue[q])
  BY <1>2, <1>3, HeadTailAppend
<1>5. ASSUME NEW p \in Queues, NEW x \in Nights
      PROVE  (Running(p, "sync") /\ Call(p).night = x)' <=> Running(p, "sync") /\ Call(p).night = x
  <2>1. step[p] = "sync" => queue[p] # <<>>
    BY DEF FlatInv, Progress
  <2> QED
    BY <1>1, <1>3, <1>4, <2>1 DEF Running, Call
<1>6. \A x \in Nights : Answering(x)' = Answering(x)
  BY <1>5 DEF Answering
<1> QED
  BY <1>1, <1>6, CountedSame

\* Steps of a call that has renamed nothing.
LEMMA CallCounted ==
  ASSUME FlatInv, Counted, NEW q \in Queues,
         \/ Load(q) \/ LoadFails(q) \/ Answer(q) \/ RefuseFull(q) \/ Prepare(q)
         \/ WriteFails(q)
  PROVE  Counted'
<1>1. /\ queue[q] # <<>> /\ step[q] # "sync" /\ UNCHANGED <<file, durable, acked, doubts>>
  BY Zenon DEF Load, LoadFails, Answer, RefuseFull, Prepare, WriteFails, Running, store, history
<1>2. /\ step'[q] # "sync" /\ \A p \in Queues : p # q => step'[p] = step[p] /\ queue'[p] = queue[p]
  <2>1. CASE LoadFails(q) \/ Answer(q) \/ RefuseFull(q) \/ WriteFails(q)
    <3>1. Settle(q)
      BY <2>1 DEF LoadFails, Answer, RefuseFull, WriteFails, Reject
    <3> QED
      BY <1>1, <3>1, SettleQueue
  <2>2. CASE Load(q) \/ Prepare(q)
    BY <2>2 DEF Load, Prepare, FlatInv, TypeOK
  <2> QED
    BY <2>1, <2>2
<1>3. ASSUME NEW p \in Queues, NEW x \in Nights
      PROVE  (Running(p, "sync") /\ Call(p).night = x)' <=> Running(p, "sync") /\ Call(p).night = x
  BY <1>1, <1>2 DEF Running, Call
<1>4. \A x \in Nights : Answering(x)' = Answering(x)
  BY <1>3 DEF Answering
<1> QED
  BY <1>1, <1>4, CountedSame

\* Nobody else has renamed while a call of one queue runs.
LEMMA OneAnswering ==
  ASSUME FlatInv, NEW q \in Queues, queue[q] # <<>>, NEW night \in Nights
  PROVE  Answering(night) = IF step[q] = "sync" /\ Call(q).night = night THEN {q} ELSE {}
BY RunningCall DEF Answering, Running

LEMMA RenameCounted ==
  ASSUME FlatInv, Counted, NEW q \in Queues, Rename(q) PROVE Counted'
<1> DEFINE x == Call(q).night
<1>1. /\ queue[q] # <<>> /\ step[q] = "write" /\ file' = next[q]
      /\ step' = [step EXCEPT ![q] = "sync"]
      /\ UNCHANGED <<durable, queue, acked, doubts>>
  BY DEF Rename, Running, history
<1>2. x \in Nights /\ file' = Append(file, x) /\ \A p \in Queues : p # q => queue[p] = <<>>
  BY <1>1, RunningCall DEF FlatInv, Progress
<1>3. /\ file \in Seq(Nights) /\ durable \in 0 .. Len(file) /\ Len(file) \in Nat
      /\ acked \in [Nights -> Nat] /\ doubts \in [Nights -> Nat]
  BY LenProperties DEF FlatInv, TypeOK
<1>4. step'[q] = "sync" /\ Call(q)' = Call(q)
  BY <1>1 DEF FlatInv, TypeOK, Call
<1> HIDE DEF x
<1>5. SubSeq(file', 1, durable) = SubSeq(file, 1, durable)
  <2>1. /\ file' \in Seq(Nights) /\ Len(file') = Len(file) + 1
        /\ \A i \in 1 .. Len(file) : file'[i] = file[i]
    BY <1>2, <1>3, AppendProperties
  <2>2. /\ SubSeq(file', 1, durable) \in Seq(Nights) /\ Len(SubSeq(file', 1, durable)) = durable
        /\ \A i \in 1 .. durable : SubSeq(file', 1, durable)[i] = file'[i]
    <3>1. durable \in Int /\ 0 =< durable /\ durable =< Len(file')
      BY <1>3, <2>1
    <3>2. \A i \in 1 .. durable : file'[i] \in Nights
      BY <1>3, <2>1, <3>1, ElementOfSeq
    <3> QED
      BY <2>1, <3>1, <3>2, SubSeqProperties
  <2>3. /\ SubSeq(file, 1, durable) \in Seq(Nights) /\ Len(SubSeq(file, 1, durable)) = durable
        /\ \A i \in 1 .. durable : SubSeq(file, 1, durable)[i] = file[i]
    <3>1. \A i \in 1 .. durable : file[i] \in Nights
      BY <1>3, ElementOfSeq
    <3> QED
      BY <1>3, <3>1, SubSeqProperties
  <2> QED
    BY <1>3, <2>1, <2>2, <2>3, SeqEqual
<1>6. ASSUME NEW night \in Nights
      PROVE  /\ Unanswered(night) = 0
             /\ Unanswered(night)' = IF x = night THEN 1 ELSE 0
  <2>1. Answering(night) = {}
    BY <1>1, OneAnswering
  <2>2. Answering(night)' = IF x = night THEN {q} ELSE {}
    BY <1>1, <1>2, <1>4 DEF Answering, Running, x
  <2> QED
    BY <2>1, <2>2, FS_EmptySet, FS_Singleton DEF Unanswered, Answering
<1>7. ASSUME NEW night \in Nights
      PROVE  /\ acked'[night] =< Occurrences(night, SubSeq(file, 1, durable))'
             /\ acked'[night] + Unanswered(night)' =< Occurrences(night, file)'
             /\ Occurrences(night, file)' =< acked'[night] + doubts'[night] + Unanswered(night)'
  <2>1. /\ Occurrences(night, file) \in Nat
        /\ Occurrences(night, file)' = Occurrences(night, file) + (IF x = night THEN 1 ELSE 0)
    <3>1. Occurrences(night, file)' = Occurrences(night, file')
      BY DEF Occurrences
    <3> QED
      BY <1>2, <1>3, <3>1, AppendCopies
  <2>2. Occurrences(night, SubSeq(file, 1, durable))' = Occurrences(night, SubSeq(file, 1, durable))
    BY <1>1, <1>5 DEF Occurrences
  <2>3. /\ acked[night] =< Occurrences(night, SubSeq(file, 1, durable))
        /\ acked[night] + 0 =< Occurrences(night, file)
        /\ Occurrences(night, file) =< acked[night] + doubts[night] + 0
    BY <1>6 DEF Counted
  <2>4. acked[night] \in Nat /\ doubts[night] \in Nat
    BY <1>3
  <2> QED
    BY <1>1, <1>6, <2>1, <2>2, <2>3, <2>4
<1> QED
  BY <1>7 DEF Counted

\* An answered call leaves nobody answering.
LEMMA SettledAnswering ==
  ASSUME FlatInv, NEW q \in Queues, Running(q, "sync"), Settle(q), NEW night \in Nights
  PROVE  /\ Unanswered(night) = IF Call(q).night = night THEN 1 ELSE 0
         /\ Unanswered(night)' = 0
<1>1. queue[q] # <<>> /\ step[q] = "sync"
  BY DEF Running
<1>2. Answering(night) = IF Call(q).night = night THEN {q} ELSE {}
  BY <1>1, OneAnswering
<1>3. Answering(night)' = {}
  <2>1. \A p \in Queues : p # q => queue'[p] = <<>>
    BY <1>1, RunningCall, SettleQueue
  <2>2. step'[q] = "idle"
    BY <1>1, SettleQueue
  <2> QED
    BY <2>1, <2>2 DEF Answering, Running
<1> QED
  BY <1>2, <1>3, FS_EmptySet, FS_Singleton DEF Unanswered, Answering

LEMMA AnsweredCounted ==
  ASSUME FlatInv, Counted, NEW q \in Queues, Commit(q) \/ Uncertain(q) PROVE Counted'
<1> DEFINE x == Call(q).night
<1>1. /\ Running(q, "sync") /\ Settle(q) /\ file' = file /\ durable' \in {durable, Len(file)}
      /\ \/ /\ durable' = Len(file) /\ acked' = [acked EXCEPT ![x] = acked[x] + 1]
            /\ doubts' = doubts
         \/ /\ durable' = durable /\ acked' = acked
            /\ doubts' = [doubts EXCEPT ![x] = doubts[x] + 1]
  BY DEF Commit, Uncertain, DurableNow, Reject, store
<1>2. x \in Nights
  BY <1>1, RunningCall DEF FlatInv, Progress, Running
<1>3. /\ file \in Seq(Nights) /\ durable \in 0 .. Len(file) /\ Len(file) \in Nat
      /\ acked \in [Nights -> Nat] /\ doubts \in [Nights -> Nat]
  BY LenProperties DEF FlatInv, TypeOK
<1>4. \A night \in Nights : /\ Unanswered(night) = IF x = night THEN 1 ELSE 0
                            /\ Unanswered(night)' = 0
  BY <1>1, SettledAnswering
<1> HIDE DEF x
<1>5. ASSUME NEW night \in Nights
      PROVE  /\ acked'[night] =< Occurrences(night, SubSeq(file, 1, durable))'
             /\ acked'[night] + Unanswered(night)' =< Occurrences(night, file)'
             /\ Occurrences(night, file)' =< acked'[night] + doubts'[night] + Unanswered(night)'
  <2>1. /\ Occurrences(night, SubSeq(file, 1, durable)) \in Nat
        /\ Occurrences(night, SubSeq(file, 1, Len(file))) = Occurrences(night, file)
        /\ Occurrences(night, file) \in Nat
    <3>1. Len(file) \in durable .. Len(file)
      BY <1>3
    <3> QED
      BY <1>3, <3>1, PrefixCopies
  <2>2. /\ Occurrences(night, file)' = Occurrences(night, file)
        /\ Occurrences(night, SubSeq(file, 1, durable))' = Occurrences(night, SubSeq(file, 1, durable'))
    BY <1>1 DEF Occurrences
  <2>3. /\ acked[night] =< Occurrences(night, SubSeq(file, 1, durable))
        /\ acked[night] + Unanswered(night) =< Occurrences(night, file)
        /\ Occurrences(night, file) =< acked[night] + doubts[night] + Unanswered(night)
    BY DEF Counted
  <2>4. acked[night] \in Nat /\ doubts[night] \in Nat
    BY <1>3
  <2>5. CASE durable' = Len(file) /\ acked' = [acked EXCEPT ![x] = acked[x] + 1] /\ doubts' = doubts
    <3>1. acked'[night] = acked[night] + (IF x = night THEN 1 ELSE 0)
      BY <1>2, <1>3, <2>5
    <3>2. /\ doubts'[night] = doubts[night]
          /\ Occurrences(night, SubSeq(file, 1, durable))' = Occurrences(night, file)
      BY <2>1, <2>2, <2>5
    <3> QED
      BY <1>4, <2>1, <2>2, <2>3, <2>4, <3>1, <3>2
  <2>6. CASE durable' = durable /\ acked' = acked /\ doubts' = [doubts EXCEPT ![x] = doubts[x] + 1]
    <3>1. doubts'[night] = doubts[night] + (IF x = night THEN 1 ELSE 0)
      BY <1>2, <1>3, <2>6
    <3>2. /\ acked'[night] = acked[night]
          /\ Occurrences(night, SubSeq(file, 1, durable))' = Occurrences(night, SubSeq(file, 1, durable))
      BY <2>2, <2>6
    <3> QED
      BY <1>4, <2>1, <2>2, <2>3, <2>4, <3>1, <3>2
  <2> QED
    BY <1>1, <2>5, <2>6
<1> QED
  BY <1>5 DEF Counted

\* A restart doubts whatever was not answered; what a power failure undoes was
\* not acknowledged.
LEMMA WorldCounted == ASSUME FlatInv, Counted, Kill \/ PowerFailure PROVE Counted'
<1>1. /\ file \in Seq(Nights) /\ durable \in 0 .. Len(file) /\ Len(file) \in Nat
      /\ acked \in [Nights -> Nat] /\ doubts \in [Nights -> Nat]
  BY LenProperties DEF FlatInv, TypeOK
<1>2. /\ acked' = acked /\ doubts' = [night \in Nights |-> doubts[night] + Unanswered(night)]
      /\ queue' = [q \in Queues |-> <<>>]
  BY DEF Kill, PowerFailure, Restart
<1> DEFINE Cut == \E n \in durable .. Len(file) :
                    /\ file' = SubSeq(file, 1, n)
                    /\ durable' = n \/ (n = Len(file) /\ durable' = durable)
<1>0. Cut
  <2>1. CASE Kill
    <3>1. Len(file) \in durable .. Len(file) /\ file = SubSeq(file, 1, Len(file))
      <4>1. /\ Len(file) \in durable .. Len(file) /\ Len(file) \in 0 .. Len(file)
            /\ Len(file) \in Len(file) .. Len(file)
        BY <1>1
      <4> QED
        BY <1>1, <4>1, PrefixCopies, Zenon
    <3> QED
      BY <2>1, <3>1 DEF Kill, store
  <2>2. CASE PowerFailure
    <3>1. PICK m \in durable .. Len(file) : file' = SubSeq(file, 1, m) /\ durable' = m
      BY <2>2, Zenon DEF PowerFailure
    <3> QED
      BY <3>1, Zenon
  <2> HIDE DEF Cut
  <2> QED
    BY <2>1, <2>2
<1>3. PICK n \in durable .. Len(file) : /\ file' = SubSeq(file, 1, n)
                                        /\ durable' = n \/ (n = Len(file) /\ durable' = durable)
  BY <1>0
<1>4. ASSUME NEW night \in Nights
      PROVE  /\ acked'[night] =< Occurrences(night, SubSeq(file, 1, durable))'
             /\ acked'[night] + Unanswered(night)' =< Occurrences(night, file)'
             /\ Occurrences(night, file)' =< acked'[night] + doubts'[night] + Unanswered(night)'
  <2>1. Unanswered(night)' = 0
    <3>1. Answering(night)' = {}
      BY <1>2 DEF Answering, Running
    <3> QED
      BY <3>1, FS_EmptySet DEF Unanswered, Answering
  <2>2. /\ n \in 0 .. Len(file) /\ Len(file) \in n .. Len(file)
        /\ file' \in Seq(Nights) /\ Len(file') = n
    <3>1. n \in 0 .. Len(file) /\ Len(file) \in n .. Len(file)
      BY <1>1
    <3>2. \A i \in 1 .. n : file[i] \in Nights
      BY <1>1, <3>1, ElementOfSeq
    <3>3. SubSeq(file, 1, n) \in Seq(Nights) /\ Len(SubSeq(file, 1, n)) = n
      <4>1. 1 \in Int /\ n \in Int /\ n =< Len(file) /\ 1 =< n + 1
        BY <1>1, <3>1
      <4> QED
        BY <1>1, <3>1, <3>2, <4>1, SubSeqProperties
    <3> QED
      BY <1>3, <3>1, <3>3
  <2>3. /\ Occurrences(night, SubSeq(file, 1, durable)) =< Occurrences(night, file')
        /\ Occurrences(night, file') =< Occurrences(night, file)
        /\ Occurrences(night, SubSeq(file, 1, durable)) \in Nat
        /\ Occurrences(night, file') \in Nat /\ Occurrences(night, file) \in Nat
    BY <1>1, <1>3, <2>2, PrefixCopies
  <2>4. \/ Occurrences(night, SubSeq(file', 1, durable')) = Occurrences(night, file')
        \/ Occurrences(night, SubSeq(file', 1, durable')) = Occurrences(night, SubSeq(file, 1, durable))
    <3>1. CASE durable' = n
      <4>1. SubSeq(file', 1, Len(file')) = file'
        <5>1. Len(file') \in 0 .. Len(file') /\ Len(file') \in Len(file') .. Len(file')
          BY <2>2
        <5> QED
          BY <2>2, <5>1, PrefixCopies
      <4> QED
        BY <2>2, <3>1, <4>1
    <3>2. CASE n = Len(file) /\ durable' = durable
      <4>1. file' = file
        BY <1>1, <1>3, <2>2, <3>2, PrefixCopies
      <4> QED
        BY <3>2, <4>1
    <3> QED
      BY <1>3, <3>1, <3>2
  <2>5. /\ Occurrences(night, file)' = Occurrences(night, file')
        /\ Occurrences(night, SubSeq(file, 1, durable))' = Occurrences(night, SubSeq(file', 1, durable'))
    BY DEF Occurrences
  <2>6. /\ acked[night] =< Occurrences(night, SubSeq(file, 1, durable))
        /\ acked[night] + Unanswered(night) =< Occurrences(night, file)
        /\ Occurrences(night, file) =< acked[night] + doubts[night] + Unanswered(night)
    BY DEF Counted
  <2>7. acked[night] \in Nat /\ doubts[night] \in Nat /\ Unanswered(night) \in Nat
    BY <1>1, UnansweredCount
  <2>8. acked'[night] = acked[night] /\ doubts'[night] = doubts[night] + Unanswered(night)
    BY <1>2
  <2> QED
    BY <2>1, <2>3, <2>4, <2>5, <2>6, <2>7, <2>8
<1> QED
  BY <1>4 DEF Counted

\* An append that resolved is in the file once, one that was rejected is not,
\* and one whose sync failed is there at most once, through kills and power
\* failures (remember and saveFile).
THEOREM EachOnceCorrect == Spec => []EachOnce
<1>1. Init => Counted
  <2> SUFFICES ASSUME Init, NEW night \in Nights
               PROVE  /\ acked[night] =< Occurrences(night, SubSeq(file, 1, durable))
                      /\ acked[night] + Unanswered(night) =< Occurrences(night, file)
                      /\ Occurrences(night, file) =< acked[night] + doubts[night] + Unanswered(night)
    BY DEF Counted
  <2>1. file = <<>> /\ durable = 0 /\ acked[night] = 0 /\ doubts[night] = 0
        /\ \A q \in Queues : queue[q] = <<>>
    BY DEF Init
  <2>2. Unanswered(night) = 0
    <3>1. Answering(night) = {}
      BY <2>1 DEF Answering, Running
    <3> QED
      BY <3>1, FS_EmptySet DEF Unanswered, Answering
  <2>3. <<>> \in Seq(Nights) /\ Len(<<>>) = 0
    BY EmptySeq
  <2>4. SubSeq(<<>>, 1, 0) = <<>> /\ Occurrences(night, <<>>) = 0
    <3>1. 0 \in 0 .. Len(<<>>)
      BY <2>3
    <3>2. SubSeq(<<>>, 1, 0) = <<>>
      BY <2>3, <3>1, PrefixCopies
    <3>3. {i \in 1 .. Len(<<>>) : <<>>[i] = night} = {}
      BY <2>3
    <3> QED
      BY <3>2, <3>3, FS_EmptySet DEF Occurrences
  <2>5. Occurrences(night, SubSeq(file, 1, durable)) = 0 /\ Occurrences(night, file) = 0
    BY <2>1, <2>4, Zenon
  <2> QED
    BY <2>1, <2>2, <2>5
<1>2. FlatInv /\ Counted /\ [Next]_vars => Counted'
  <2> SUFFICES ASSUME FlatInv, Counted, [Next]_vars PROVE Counted'
    OBVIOUS
  <2>1. CASE UNCHANGED vars
    <3>1. UNCHANGED <<file, durable, acked, doubts, queue, step>>
      BY <2>1 DEF vars, store, history
    <3>2. \A night \in Nights : Answering(night)' = Answering(night)
      BY <3>1 DEF Answering, Running, Call
    <3> QED
      BY <3>1, <3>2, CountedSame
  <2> QED
    BY <2>1, SubmitCounted, CallCounted, RenameCounted, AnsweredCounted, WorldCounted DEF Next, Run
<1>3. FlatInv /\ Counted => EachOnce
  <2> SUFFICES ASSUME FlatInv, Counted, NEW night \in Nights
               PROVE  /\ acked[night] =< Occurrences(night, file)
                      /\ Occurrences(night, file) =< acked[night] + doubts[night] + Unanswered(night)
    BY DEF EachOnce
  <2>1. /\ acked[night] + Unanswered(night) =< Occurrences(night, file)
        /\ Occurrences(night, file) =< acked[night] + doubts[night] + Unanswered(night)
    BY DEF Counted
  <2>2. /\ acked[night] \in Nat /\ Unanswered(night) \in Nat /\ Occurrences(night, file) \in Nat
    <3>1. /\ file \in Seq(Nights) /\ durable \in 0 .. Len(file) /\ acked \in [Nights -> Nat]
      BY DEF FlatInv, TypeOK
    <3>2. Len(file) \in durable .. Len(file) /\ Len(file) \in Nat
      BY <3>1, LenProperties
    <3> QED
      BY <3>1, <3>2, PrefixCopies, UnansweredCount
  <2> QED
    BY <2>1, <2>2
<1> QED
  BY <1>1, <1>2, <1>3, FlatInit, FlatStep, PTL DEF Spec

-----------------------------------------------------------------------------
(* The log.                                                                *)

\* A rename appends one night, a commit confirms the log, and nothing else
\* touches it but a power failure.
LEMMA StepImplements == FlatInv /\ [Next]_vars => [Log!Next]_(Log!vars)
<1> SUFFICES ASSUME FlatInv, [Next]_vars PROVE [Log!Next]_(Log!vars)
  OBVIOUS
<1>1. CASE UNCHANGED store
  BY <1>1 DEF store, Log!vars
<1>2. ASSUME NEW q \in Queues, Rename(q) PROVE Log!Next
  <2>1. /\ queue[q] # <<>> /\ step[q] = "write" /\ file' = next[q]
        /\ durable' = durable
    BY <1>2 DEF Rename, Running
  <2>3. Call(q).night \in Nights /\ next[q] = Append(file, Call(q).night)
    BY <2>1, RunningCall DEF FlatInv, Progress
  <2>4. Log!Append1(Call(q).night)
    BY <2>1, <2>3 DEF Log!Append1
  <2> QED
    BY <2>3, <2>4 DEF Log!Next
<1>3. ASSUME NEW q \in Queues, Commit(q) PROVE Log!Next
  BY <1>3 DEF Commit, DurableNow, Log!Confirm, Log!Next
<1>4. CASE PowerFailure
  BY <1>4 DEF PowerFailure, Log!PowerFailure, Log!Next
<1>5. ASSUME NEW h \in Handles, NEW night \in Nights \cup {Null}, Submit(h, night)
      PROVE  UNCHANGED store
  BY <1>5 DEF Submit, store
<1>6. ASSUME NEW q \in Queues,
             \/ Load(q) \/ LoadFails(q) \/ Answer(q) \/ RefuseFull(q) \/ Prepare(q)
             \/ WriteFails(q) \/ Uncertain(q)
      PROVE  UNCHANGED store
  <2>1. CASE Load(q) \/ LoadFails(q) \/ Answer(q) \/ RefuseFull(q)
    BY <2>1 DEF Load, LoadFails, Answer, RefuseFull
  <2>2. CASE Prepare(q) \/ WriteFails(q) \/ Uncertain(q)
    BY <2>2, Zenon DEF Prepare, WriteFails, Uncertain
  <2> QED
    BY <1>6, <2>1, <2>2
<1>7. CASE Kill \/ UNCHANGED vars
  BY <1>1, <1>7 DEF Kill, vars
<1> QED
  BY <1>1, <1>2, <1>3, <1>4, <1>5, <1>6, <1>7 DEF Next, Run

\* The store is the append-only log that NightLog describes.
THEOREM ImplementsLog == Spec => LogSpec
<1>1. Init => Log!Init
  BY DEF Init, Log!Init
<1> QED
  BY <1>1, FlatInit, FlatStep, StepImplements, PTL DEF Spec, LogSpec, Log!Spec
=============================================================================
