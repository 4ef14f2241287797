-------------------------- MODULE ResearchMemoryProofs --------------------------
(***************************************************************************)
(* Proofs about ResearchMemory: the lock admits one process, a handle      *)
(* answers from what is on disk, the native index never holds an           *)
(* uncommitted record, and the memory implements MemoryStore.              *)
(*                                                                         *)
(* The inductive invariant adds to these what a handle knows at each step  *)
(* of an operation: what the head of its queue is, and how its index, its  *)
(* records and the disk differ from one another.                           *)
(***************************************************************************)
EXTENDS ResearchMemory, SequenceTheorems, TLAPS

\* What holds of one handle at each step.
Sound(m) ==
  /\ m.step # "idle" => /\ m.queue # <<>> /\ m.phase \in {"open", "closing"}
                        /\ ~m.poisoned
  /\ m.step \in {"index", "write", "sync"} => Op(m) \in Upserts
  /\ m.index # NoIndex => m.native /\ m.phase \in {"open", "closing"}
  /\ m.index # NoIndex /\ ~m.dirty => m.index = m.records
  /\ m.index # NoIndex /\ m.step \in {"index", "query"} => ~m.dirty
  /\ m.index # NoIndex /\ m.step \in {"write", "sync"} =>
       m.dirty /\ m.index = Replaced(m)

\* How the records of a handle and those on disk differ.
Current(m, records) ==
  /\ m.phase = "loaded" => m.records = records
  /\ m.phase \in {"open", "closing"} /\ ~m.poisoned =>
       records = IF m.step = "sync" THEN Replaced(m) ELSE m.records

MemoryInv ==
  /\ TypeOK
  /\ OneWriter
  /\ \A h \in Handles : Sound(handle[h]) /\ Current(handle[h], disk)

-----------------------------------------------------------------------------
(* Handles.                                                                *)

\* A handle that is not open has nothing to be wrong about.
LEMMA FreshHandle ==
  ASSUME NEW b \in Backends, NEW p \in {"closed", "locked", "dead"}
  PROVE  /\ [Fresh(b) EXCEPT !.phase = p] \in Handle
         /\ Fresh(b) \in Handle
         /\ \A records : /\ Sound([Fresh(b) EXCEPT !.phase = p])
                         /\ Current([Fresh(b) EXCEPT !.phase = p], records)
                         /\ Sound(Fresh(b)) /\ Current(Fresh(b), records)
<1>1. Empty \in Records
  BY DEF Empty, Records
<1>2. <<>> \in Seq(Ops)
  OBVIOUS
<1> QED
  BY <1>1, <1>2 DEF Fresh, Handle, Sound, Current

\* Settling an operation keeps the handle's type and changes nothing else.
LEMMA SettledHandle ==
  ASSUME NEW m \in Handle, m.queue # <<>>
  PROVE  /\ Settled(m) \in Handle
         /\ Settled(m).step = "idle"
         /\ Settled(m).phase = m.phase /\ Settled(m).backend = m.backend
         /\ Settled(m).records = m.records /\ Settled(m).native = m.native
         /\ Settled(m).index = m.index /\ Settled(m).dirty = m.dirty
         /\ Settled(m).poisoned = m.poisoned
<1>1. Tail(m.queue) \in Seq(Ops)
  BY DEF Handle
<1> QED
  BY <1>1 DEF Settled, Handle

\* The head of a queue is an operation, and an upsert keeps the records' type.
LEMMA HeadOp ==
  ASSUME NEW m \in Handle, m.queue # <<>>
  PROVE  /\ Op(m) \in Ops
         /\ Op(m) \in Upserts => /\ Op(m).id \in Ids /\ Op(m).text \in Texts
                                 /\ Replaced(m) \in Records
<1>1. Op(m) \in Ops
  BY DEF Op, Handle
<1>2. ASSUME Op(m) \in Upserts
      PROVE  Op(m).id \in Ids /\ Op(m).text \in Texts /\ Replaced(m) \in Records
  BY <1>2 DEF Upserts, Replaced, Records, Handle
<1> QED
  BY <1>1, <1>2

\* The invariant is kept when one handle changes into one that is sound and
\* agrees with the disk, and no other handle is bothered.
LEMMA OneChanges ==
  ASSUME MemoryInv, NEW h \in Handles, NEW m \in Handle, Becomes(h, m),
         Sound(m), Current(m, disk'),
         disk' \in Records, recoverable' \in SUBSET Records,
         written' \in Records, acked' \in Records,
         disk' = disk \/ lock = h,
         \/ lock' = lock /\ (m.phase # "closed" => lock = h)
         \/ lock' = h /\ lock = Null
         \/ lock' = Null /\ lock = h /\ m.phase = "closed"
  PROVE  MemoryInv'
<1>1. /\ handle' \in [Handles -> Handle] /\ handle'[h] = m
      /\ \A g \in Handles : g # h => handle'[g] = handle[g]
  BY DEF MemoryInv, TypeOK, Becomes
<1>2. \A g \in Handles : g # h /\ lock = h => handle[g].phase = "closed"
  BY DEF MemoryInv, OneWriter
<1>3. \A g \in Handles : g # h /\ lock = Null => handle[g].phase = "closed"
  BY MemoryAssumption DEF MemoryInv, OneWriter
<1>4. TypeOK'
  <2>1. lock' \in Handles \cup {Null}
    BY DEF MemoryInv, TypeOK
  <2>2. \A g \in Handles : handle'[g].step # "idle" =>
          handle'[g].queue # <<>> /\ handle'[g].phase \in {"open", "closing"}
    BY <1>1 DEF MemoryInv, TypeOK, Sound
  <2> QED
    BY <1>1, <2>1, <2>2 DEF TypeOK
<1>5. OneWriter'
  BY <1>1, <1>2, <1>3 DEF MemoryInv, OneWriter
<1>6. \A g \in Handles : Sound(handle'[g])
  BY <1>1 DEF MemoryInv
<1>7. \A g \in Handles : Current(handle'[g], disk')
  <2> TAKE g \in Handles
  <2>1. CASE g = h
    BY <1>1, <2>1
  <2>2. CASE g # h /\ disk' = disk
    BY <1>1, <2>2 DEF MemoryInv
  <2>3. CASE g # h /\ lock = h
    BY <1>1, <1>2, <2>3 DEF Current
  <2> QED
    BY <2>1, <2>2, <2>3
<1> QED
  BY <1>4, <1>5, <1>6, <1>7 DEF MemoryInv, Sound, Current, Op, Replaced

-----------------------------------------------------------------------------
(* Opening, closing and dying.                                             *)

\* What the invariant says of a handle and the disk before a step of it.
LEMMA Before ==
  ASSUME MemoryInv, NEW h \in Handles
  PROVE  /\ handle[h] \in Handle /\ Sound(handle[h]) /\ Current(handle[h], disk)
         /\ handle[h].phase # "closed" => lock = h
         /\ disk \in Records /\ recoverable \in SUBSET Records
         /\ written \in Records /\ acked \in Records
BY DEF MemoryInv, TypeOK, OneWriter

\* Unlocking leaves a fresh handle.
LEMMA UnlockInv ==
  ASSUME MemoryInv, NEW h \in Handles, lock = h, Unlock(h) PROVE MemoryInv'
<1> DEFINE m == Fresh(handle[h].backend)
<1>1. handle[h].backend \in Backends
  BY Before DEF Handle
<1>2. m \in Handle /\ Sound(m) /\ Current(m, disk') /\ m.phase = "closed"
  BY <1>1, FreshHandle DEF Fresh
<1> HIDE DEF m
<1>3. Becomes(h, m) /\ UNCHANGED store /\ lock' = Null
  BY DEF Unlock, m
<1> QED
  BY <1>2, <1>3, Before, OneChanges DEF store

LEMMA LifeInv ==
  ASSUME MemoryInv, NEW h \in Handles,
         \/ \E b \in Backends : Acquire(h, b)
         \/ Load(h) \/ Opened(h) \/ OpenFails(h) \/ Close(h) \/ Release(h)
         \/ Kill(h) \/ RemoveStaleLock(h)
  PROVE  MemoryInv'
<1>1. ASSUME NEW b \in Backends, Acquire(h, b) PROVE MemoryInv'
  <2> DEFINE m == [Fresh(b) EXCEPT !.phase = "locked"]
  <2>1. m \in Handle /\ Sound(m) /\ Current(m, disk')
    BY FreshHandle
  <2>2. m.phase = "locked"
    BY DEF Fresh
  <2> HIDE DEF m
  <2>3. Becomes(h, m) /\ lock = Null /\ lock' = h /\ UNCHANGED store
    BY <1>1 DEF Acquire, LockFree, m
  <2> QED
    BY <2>1, <2>2, <2>3, Before, OneChanges DEF store
<1>2. CASE Load(h)
  <2> DEFINE m == [handle[h] EXCEPT !.phase = "loaded", !.records = disk]
  <2>1. /\ handle[h] \in Handle /\ handle[h].phase = "locked"
        /\ handle[h].step = "idle" /\ handle[h].index = NoIndex /\ lock = h
    BY <1>2, Before DEF Load, Sound
  <2>2. /\ m \in Handle /\ m.phase = "loaded" /\ m.records = disk
        /\ m.step = "idle" /\ m.index = NoIndex
    BY <2>1, Before DEF Handle
  <2>3. Becomes(h, m) /\ UNCHANGED <<lock, store>>
    BY <1>2 DEF Load
  <2> HIDE DEF m
  <2>4. Sound(m) /\ Current(m, disk)
    BY <2>2 DEF Sound, Current
  <2> QED
    BY <2>1, <2>2, <2>3, <2>4, Before, OneChanges DEF store
<1>3. CASE Opened(h)
  <2>1. /\ handle[h] \in Handle /\ handle[h].phase = "loaded" /\ lock = h
        /\ handle[h].step = "idle" /\ handle[h].index = NoIndex
        /\ handle[h].records = disk
    BY <1>3, Before DEF Opened, Sound, Current
  <2>2. PICK m \in Handle : /\ Becomes(h, m)
                             /\ m.phase = "open" /\ m.step = "idle"
                             /\ m.records = disk
                             /\ (m.index # NoIndex => m.native /\ m.index = disk)
    <3> DEFINE with == [handle[h] EXCEPT !.phase = "open", !.native = TRUE,
                                         !.index = handle[h].records]
               without == [handle[h] EXCEPT !.phase = "open"]
    <3>1. /\ with \in Handle /\ with.phase = "open" /\ with.step = "idle"
          /\ with.records = disk /\ with.native /\ with.index = disk
      BY <2>1 DEF Handle
    <3>2. /\ without \in Handle /\ without.phase = "open" /\ without.step = "idle"
          /\ without.records = disk /\ without.index = NoIndex
      BY <2>1 DEF Handle
    <3>3. Becomes(h, with) \/ Becomes(h, without)
      BY <1>3 DEF Opened
    <3> HIDE DEF with, without
    <3> QED
      BY <3>1, <3>2, <3>3
  <2>3. Sound(m) /\ Current(m, disk)
    BY <2>2 DEF Sound, Current
  <2>4. UNCHANGED <<lock, store>>
    BY <1>3 DEF Opened
  <2> QED
    BY <2>1, <2>2, <2>3, <2>4, Before, OneChanges DEF store
<1>4. CASE OpenFails(h) \/ Release(h) \/ RemoveStaleLock(h)
  <2>1. handle[h].phase # "closed" /\ Unlock(h)
    BY <1>4 DEF OpenFails, Release, RemoveStaleLock
  <2> QED
    BY <2>1, Before, UnlockInv
<1>5. CASE Close(h)
  <2> DEFINE m == [handle[h] EXCEPT !.phase = "closing"]
  <2>1. /\ handle[h] \in Handle /\ Sound(handle[h]) /\ Current(handle[h], disk)
        /\ handle[h].phase = "open" /\ lock = h
    BY <1>5, Before DEF Close
  <2>2. /\ m \in Handle /\ Sound(m) /\ Current(m, disk)
    BY <2>1 DEF Handle, Sound, Current, Op, Replaced
  <2>3. Becomes(h, m) /\ UNCHANGED <<lock, store>>
    BY <1>5 DEF Close
  <2> HIDE DEF m
  <2> QED
    BY <2>1, <2>2, <2>3, Before, OneChanges DEF store
<1>6. CASE Kill(h)
  <2> DEFINE m == [Fresh(handle[h].backend) EXCEPT !.phase = "dead"]
  <2>1. /\ handle[h] \in Handle /\ handle[h].backend \in Backends
        /\ handle[h].phase # "closed" /\ lock = h
    BY <1>6, Before DEF Kill, Handle
  <2>2. m \in Handle /\ Sound(m) /\ Current(m, disk)
    BY <2>1, FreshHandle
  <2>3. Becomes(h, m) /\ UNCHANGED <<lock, store>>
    BY <1>6, <2>1 DEF Kill, Dead
  <2> HIDE DEF m
  <2> QED
    BY <2>1, <2>2, <2>3, Before, OneChanges DEF store
<1> QED
  BY <1>1, <1>2, <1>3, <1>4, <1>5, <1>6

-----------------------------------------------------------------------------
(* Operations.                                                             *)

\* An operation that changes neither lock nor disk keeps the invariant when the
\* handle it leaves is sound and agrees with the disk.
LEMMA StaysInv ==
  ASSUME MemoryInv, NEW h \in Handles, handle[h].phase # "closed",
         UNCHANGED <<lock, disk, recoverable>>,
         written' \in Records, acked' \in Records,
         \E m \in Handle : Becomes(h, m) /\ Sound(m) /\ Current(m, disk)
  PROVE  MemoryInv'
BY Before, OneChanges

\* What a live handle is.
LEMMA LiveBefore ==
  ASSUME MemoryInv, NEW h \in Handles, Live(h)
  PROVE  /\ handle[h] \in Handle /\ Sound(handle[h]) /\ Current(handle[h], disk)
         /\ handle[h].phase \in {"open", "closing"} /\ handle[h].queue # <<>>
         /\ handle[h].phase # "closed" /\ lock = h
         /\ handle[h].step # "idle" => ~handle[h].poisoned
         /\ Op(handle[h]) \in Ops
         /\ Op(handle[h]) \in Upserts =>
              /\ Op(handle[h]).id \in Ids /\ Op(handle[h]).text \in Texts
              /\ Replaced(handle[h]) \in Records
         /\ written \in Records /\ acked \in Records /\ disk \in Records
BY Before, HeadOp DEF Live, Sound

\* Settling keeps soundness when the index is clean and current, or dirty.
LEMMA SettledSound ==
  ASSUME NEW m \in Handle, m.queue # <<>>, m.phase \in {"open", "closing"},
         m.index # NoIndex => m.native /\ (m.dirty \/ m.index = m.records),
         NEW records, m.poisoned \/ m.records = records
  PROVE  /\ Settled(m) \in Handle
         /\ Sound(Settled(m)) /\ Current(Settled(m), records)
<1> DEFINE s == Settled(m)
<1>1. /\ s \in Handle /\ s.step = "idle" /\ s.phase = m.phase
      /\ s.records = m.records /\ s.native = m.native /\ s.index = m.index
      /\ s.dirty = m.dirty /\ s.poisoned = m.poisoned
  BY SettledHandle
<1> HIDE DEF s
<1>2. Sound(s) /\ Current(s, records)
  BY <1>1 DEF Sound, Current
<1> QED
  BY <1>1, <1>2 DEF s

\* nativeFailure leaves a sound handle, from any step at which the records are
\* still those on disk.
LEMMA FailureSound ==
  ASSUME MemoryInv, NEW h \in Handles, Live(h), ~handle[h].poisoned,
         handle[h].step \in {"idle", "index", "query"}, handle[h].native,
         NEW records \in Records, NEW step \in {"index", "query", "write"},
         step # "query" => Op(handle[h]) \in Upserts,
         NativeFailure(h, records, step)
  PROVE  \E m \in Handle : Becomes(h, m) /\ Sound(m) /\ Current(m, disk)
<1> DEFINE a == handle[h]
<1>1. /\ a \in Handle /\ Sound(a) /\ Current(a, disk) /\ a.queue # <<>>
      /\ a.phase \in {"open", "closing"} /\ a.records = disk
  BY LiveBefore DEF Current
<1>2. CASE a.backend # "ruvector"
  <2> DEFINE m == [a EXCEPT !.native = FALSE, !.index = NoIndex,
                            !.dirty = FALSE, !.step = step]
  <2>1. /\ m \in Handle /\ m.index = NoIndex /\ m.step = step
        /\ m.queue = a.queue /\ m.phase = a.phase /\ m.poisoned = a.poisoned
        /\ m.records = a.records
    BY <1>1 DEF Handle
  <2>2. Becomes(h, m)
    BY <1>2 DEF NativeFailure
  <2> HIDE DEF m
  <2>3. Sound(m) /\ Current(m, disk)
    BY <1>1, <2>1 DEF Sound, Current, Op
  <2> QED
    BY <2>1, <2>2, <2>3
<1>3. CASE a.backend = "ruvector"
  <2>1. PICK i \in Partial(a, records) :
          Becomes(h, Settled([a EXCEPT !.index = i, !.dirty = TRUE]))
    BY <1>3 DEF NativeFailure
  <2>2. i \in Records \cup {NoIndex}
    BY <1>1 DEF Partial, Records, Handle
  <2> DEFINE m == [a EXCEPT !.index = i, !.dirty = TRUE]
  <2>3. /\ m \in Handle /\ m.queue = a.queue /\ m.phase = a.phase
        /\ m.native = a.native /\ m.dirty = TRUE /\ m.records = a.records
    BY <1>1, <2>2 DEF Handle
  <2>4. Becomes(h, Settled(m))
    BY <2>1
  <2> HIDE DEF m
  <2>5. Settled(m) \in Handle /\ Sound(Settled(m)) /\ Current(Settled(m), disk)
    BY <1>1, <2>3, SettledSound
  <2> QED
    BY <2>4, <2>5
<1> QED
  BY <1>2, <1>3

\* ensureIndex leaves a handle whose index, if any, is clean and current.
LEMMA EnsureSound ==
  ASSUME MemoryInv, NEW h \in Handles, Ready(h), NEW step \in {"index", "query"},
         step = "index" => Op(handle[h]) \in Upserts,
         EnsureIndex(h, step)
  PROVE  \E m \in Handle : Becomes(h, m) /\ Sound(m) /\ Current(m, disk)
<1> DEFINE a == handle[h]
<1>1. /\ Live(h) /\ ~a.poisoned /\ a.step = "idle"
      /\ a \in Handle /\ Sound(a) /\ Current(a, disk) /\ a.queue # <<>>
      /\ a.phase \in {"open", "closing"} /\ a.records = disk
  BY LiveBefore DEF Current, Ready, MayRun
<1>2. CASE a.native /\ a.dirty /\ NativeFailure(h, a.records, step)
  <2>1. a.records \in Records /\ step \in {"index", "query", "write"}
    BY <1>1 DEF Handle
  <2> QED
    BY <1>1, <1>2, <2>1, FailureSound
<1>3. CASE \/ a.native /\ a.dirty /\ Becomes(h, [a EXCEPT !.index = a.records,
                                                !.dirty = FALSE, !.step = step])
           \/ ~(a.native /\ a.dirty) /\ Becomes(h, [a EXCEPT !.step = step])
  <2>1. PICK m \in Handle :
          /\ Becomes(h, m) /\ m.step = step /\ m.queue = a.queue
          /\ m.phase = a.phase /\ m.poisoned = a.poisoned
          /\ m.records = a.records
          /\ (m.index # NoIndex => m.native /\ ~m.dirty /\ m.index = m.records)
    <3> DEFINE rebuilt == [a EXCEPT !.index = a.records, !.dirty = FALSE,
                                    !.step = step]
               kept == [a EXCEPT !.step = step]
    <3>1. ASSUME a.native
          PROVE  /\ rebuilt \in Handle /\ rebuilt.step = step
                 /\ rebuilt.queue = a.queue /\ rebuilt.phase = a.phase
                 /\ rebuilt.poisoned = a.poisoned /\ rebuilt.records = a.records
                 /\ rebuilt.native /\ ~rebuilt.dirty /\ rebuilt.index = a.records
      BY <1>1, <3>1 DEF Handle
    <3>2. ASSUME ~(a.native /\ a.dirty)
          PROVE  /\ kept \in Handle /\ kept.step = step
                 /\ kept.queue = a.queue /\ kept.phase = a.phase
                 /\ kept.poisoned = a.poisoned /\ kept.records = a.records
                 /\ kept.native = a.native /\ kept.dirty = a.dirty
                 /\ kept.index = a.index
      BY <1>1 DEF Handle
    <3>3. a.index # NoIndex /\ ~(a.native /\ a.dirty) =>
            a.native /\ ~a.dirty /\ a.index = a.records
      BY <1>1 DEF Sound
    <3> HIDE DEF rebuilt, kept
    <3>4. CASE a.native /\ a.dirty /\ Becomes(h, rebuilt)
      BY <3>1, <3>4
    <3>5. CASE ~(a.native /\ a.dirty) /\ Becomes(h, kept)
      BY <3>2, <3>3, <3>5
    <3> QED
      BY <1>3, <3>4, <3>5 DEF rebuilt, kept
  <2>2. Sound(m) /\ Current(m, disk)
    BY <1>1, <2>1 DEF Sound, Current, Op
  <2> QED
    BY <2>1, <2>2
<1> QED
  BY <1>2, <1>3 DEF EnsureIndex

\* Queueing an operation behind others changes neither the head nor the rest.
LEMMA EnqueueInv ==
  ASSUME MemoryInv, NEW h \in Handles, NEW op \in Ops, Enqueue(h, op)
  PROVE  MemoryInv'
<1> DEFINE a == handle[h]
           m == [a EXCEPT !.queue = Append(@, op)]
<1>1. /\ a \in Handle /\ Sound(a) /\ Current(a, disk) /\ a.phase = "open"
      /\ a.queue \in Seq(Ops) /\ lock = h
  BY Before DEF Enqueue, Handle
<1>2. /\ m \in Handle /\ m.queue = Append(a.queue, op) /\ m.phase = a.phase
      /\ m.step = a.step /\ m.poisoned = a.poisoned /\ m.records = a.records
      /\ m.native = a.native /\ m.dirty = a.dirty /\ m.index = a.index
  <2>1. Append(a.queue, op) \in Seq(Ops)
    BY <1>1, AppendProperties
  <2> QED
    BY <1>1, <2>1 DEF Handle
<1>3. m.queue # <<>> /\ (a.queue # <<>> => Op(m) = Op(a))
  BY <1>1, <1>2, AppendProperties, HeadTailAppend DEF Op
<1>4. Becomes(h, m) /\ UNCHANGED <<lock, store>>
  BY DEF Enqueue
<1> HIDE DEF m
<1>5. a.step # "idle" => Replaced(m) = Replaced(a)
  BY <1>1, <1>2, <1>3 DEF Replaced, Sound
<1>6. Sound(m) /\ Current(m, disk)
  BY <1>1, <1>2, <1>3, <1>5 DEF Sound, Current
<1> QED
  BY <1>1, <1>2, <1>4, <1>6, Before, StaysInv DEF store

\* The steps that end an operation without a write.
LEMMA EndInv ==
  ASSUME MemoryInv, NEW h \in Handles,
         \/ RejectPoisoned(h) \/ Unchanged(h) \/ WriteFails(h)
         \/ CommitUncertain(h)
  PROVE  MemoryInv'
<1> DEFINE a == handle[h]
<1>1. /\ Live(h) /\ a \in Handle /\ Sound(a) /\ Current(a, disk)
      /\ a.phase \in {"open", "closing"} /\ a.queue # <<>> /\ a.phase # "closed"
      /\ UNCHANGED <<lock, disk, recoverable, written>>
  BY LiveBefore DEF RejectPoisoned, Unchanged, WriteFails, CommitUncertain, Ready,
     store
<1>2. acked' \in Records
  <2>1. CASE Unchanged(h)
    <3>1. acked' = [acked EXCEPT ![Op(a).id] = Op(a).text] /\ Op(a) \in Upserts
      BY <2>1 DEF Unchanged
    <3>2. Op(a).text \in Texts /\ acked \in Records
      BY <1>1, <3>1, LiveBefore
    <3> HIDE DEF a
    <3> QED
      BY <3>1, <3>2 DEF Records
  <2>2. CASE RejectPoisoned(h) \/ WriteFails(h) \/ CommitUncertain(h)
    BY <1>1, <2>2, LiveBefore DEF RejectPoisoned, WriteFails, CommitUncertain, store
  <2> QED
    BY <2>1, <2>2
<1>3. CASE RejectPoisoned(h) \/ Unchanged(h) \/ WriteFails(h)
  <2>1. Becomes(h, Settled(a)) /\ (a.poisoned \/ a.records = disk)
    BY <1>1, <1>3 DEF RejectPoisoned, Unchanged, WriteFails, WriteRefused, Ready,
       MayRun, Current
  <2>2. a.index # NoIndex => a.native /\ (a.dirty \/ a.index = a.records)
    BY <1>1 DEF Sound
  <2> QED
    BY <1>1, <1>2, <2>1, <2>2, SettledSound, StaysInv, LiveBefore
<1>4. CASE CommitUncertain(h)
  <2> DEFINE m == [a EXCEPT !.poisoned = TRUE]
  <2>1. /\ m \in Handle /\ m.queue = a.queue /\ m.phase = a.phase /\ m.poisoned
        /\ m.native = a.native /\ m.dirty = a.dirty /\ m.index = a.index
        /\ m.records = a.records
    BY <1>1 DEF Handle
  <2>2. Becomes(h, Settled(m))
    BY <1>4 DEF CommitUncertain
  <2> HIDE DEF m
  <2>3. m.index # NoIndex => m.native /\ (m.dirty \/ m.index = m.records)
    BY <1>1, <2>1 DEF Sound
  <2> QED
    BY <1>1, <1>2, <2>1, <2>2, <2>3, SettledSound, StaysInv, LiveBefore
<1> QED
  BY <1>3, <1>4

\* Beginning an upsert or a search.
LEMMA BeginInv ==
  ASSUME MemoryInv, NEW h \in Handles, BeginUpsert(h) \/ BeginSearch(h)
  PROVE  MemoryInv'
<1> DEFINE a == handle[h]
<1>1. /\ Live(h) /\ Ready(h) /\ ~a.poisoned /\ a \in Handle /\ Sound(a)
      /\ Current(a, disk) /\ a.step = "idle" /\ a.queue # <<>>
      /\ a.phase \in {"open", "closing"} /\ a.phase # "closed"
      /\ UNCHANGED <<lock, disk, recoverable, written, acked>>
  BY LiveBefore DEF BeginUpsert, BeginSearch, Ready, MayRun, store
<1>2. written' \in Records /\ acked' \in Records
  BY <1>1, LiveBefore
<1>3. CASE Becomes(h, Settled(a))
  <2>1. /\ a.index # NoIndex => a.native /\ (a.dirty \/ a.index = a.records)
        /\ a.records = disk
    BY <1>1 DEF Sound, Current
  <2> QED
    BY <1>1, <1>2, <1>3, <2>1, SettledSound, StaysInv
<1>4. CASE Op(a) \in Upserts /\ EnsureIndex(h, "index")
  BY <1>1, <1>2, <1>4, EnsureSound, StaysInv
<1>5. CASE EnsureIndex(h, "query")
  BY <1>1, <1>2, <1>5, EnsureSound, StaysInv
<1> QED
  BY <1>3, <1>4, <1>5 DEF BeginUpsert, BeginSearch

\* Updating the index: it then holds the new record and is dirty until the
\* commit.
LEMMA UpdateIndexInv ==
  ASSUME MemoryInv, NEW h \in Handles, UpdateIndex(h)
  PROVE  MemoryInv'
<1> DEFINE a == handle[h]
<1>1. /\ Live(h) /\ ~a.poisoned /\ a \in Handle /\ Sound(a)
      /\ Current(a, disk) /\ a.step = "index" /\ a.queue # <<>>
      /\ a.phase \in {"open", "closing"} /\ a.phase # "closed"
      /\ Op(a) \in Upserts /\ Replaced(a) \in Records /\ a.records = disk
      /\ UNCHANGED <<lock, disk, recoverable, written, acked>>
  BY LiveBefore DEF UpdateIndex, Sound, Current, store
<1>2. written' \in Records /\ acked' \in Records
  BY <1>1, LiveBefore
<1>3. CASE a.index # NoIndex /\ Becomes(h, Indexed(a))
  <2>1. a.native /\ a.index = a.records
    BY <1>1, <1>3 DEF Sound
  <2>2. Inserted(a) = Replaced(a)
    BY <2>1 DEF Inserted, Replaced
  <2> DEFINE m == Indexed(a)
  <2>3. /\ m \in Handle /\ m.index = Replaced(a) /\ m.dirty /\ m.step = "write"
        /\ m.queue = a.queue /\ m.phase = a.phase /\ m.native
        /\ m.poisoned = a.poisoned /\ m.records = a.records
    BY <1>1, <2>1, <2>2 DEF Indexed, Handle
  <2>4. Becomes(h, m)
    BY <1>3
  <2> HIDE DEF m
  <2>5. Sound(m) /\ Current(m, disk)
    BY <1>1, <2>3 DEF Sound, Current, Op, Replaced
  <2> QED
    BY <1>1, <1>2, <2>3, <2>4, <2>5, StaysInv
<1>4. CASE a.index # NoIndex /\ NativeFailure(h, Replaced(a), "write")
  <2>1. a.native
    BY <1>1, <1>4 DEF Sound
  <2> QED
    BY <1>1, <1>2, <1>4, <2>1, FailureSound, StaysInv
<1>5. CASE a.index = NoIndex /\ Becomes(h, [a EXCEPT !.step = "write"])
  <2> DEFINE m == [a EXCEPT !.step = "write"]
  <2>1. /\ m \in Handle /\ m.index = NoIndex /\ m.step = "write"
        /\ m.queue = a.queue /\ m.phase = a.phase
        /\ m.poisoned = a.poisoned /\ m.records = a.records
    BY <1>1, <1>5 DEF Handle
  <2>2. Becomes(h, m)
    BY <1>5
  <2> HIDE DEF m
  <2>3. Sound(m) /\ Current(m, disk)
    BY <1>1, <2>1 DEF Sound, Current, Op
  <2> QED
    BY <1>1, <1>2, <2>1, <2>2, <2>3, StaysInv
<1> QED
  BY <1>3, <1>4, <1>5 DEF UpdateIndex

\* The rename puts on disk exactly the records the operation will publish.
LEMMA WriteInv ==
  ASSUME MemoryInv, NEW h \in Handles, Write(h)
  PROVE  MemoryInv'
<1> DEFINE a == handle[h]
           m == [a EXCEPT !.step = "sync"]
<1>1. /\ ~a.poisoned /\ a \in Handle /\ Sound(a) /\ a.step = "write"
      /\ a.phase \in {"open", "closing"} /\ lock = h
      /\ Op(a) \in Upserts /\ Op(a).id \in Ids /\ Replaced(a) \in Records
  BY LiveBefore DEF Write, Sound
<1>2. /\ m \in Handle /\ m.step = "sync" /\ m.index = a.index
      /\ m.dirty = a.dirty /\ m.native = a.native
      /\ m.queue = a.queue /\ m.phase = a.phase
      /\ m.poisoned = a.poisoned /\ m.records = a.records
  BY <1>1 DEF Handle
<1>3. /\ Becomes(h, m) /\ disk' = Replaced(a) /\ lock' = lock
      /\ recoverable' = recoverable \cup {disk'}
      /\ written' = [written EXCEPT ![Op(a).id] = Null]
      /\ acked' = [acked EXCEPT ![Op(a).id] = Null]
  BY DEF Write
<1> HIDE DEF m
<1>4. Op(m) = Op(a) /\ Replaced(m) = Replaced(a)
  BY <1>2 DEF Op, Replaced
<1>5. Sound(m) /\ Current(m, disk')
  BY <1>1, <1>2, <1>3, <1>4 DEF Sound, Current
<1>6. /\ disk' \in Records /\ recoverable' \in SUBSET Records
      /\ written' \in Records /\ acked' \in Records
  BY <1>1, <1>3, Before DEF Records
<1> QED
  BY <1>1, <1>2, <1>3, <1>5, <1>6, OneChanges

\* The commit publishes what is on disk.
LEMMA CommitInv ==
  ASSUME MemoryInv, NEW h \in Handles, Commit(h)
  PROVE  MemoryInv'
<1> DEFINE a == handle[h]
           m == [a EXCEPT !.records = Replaced(a), !.dirty = FALSE]
<1>1. /\ ~a.poisoned /\ a \in Handle /\ Sound(a) /\ a.step = "sync"
      /\ a.phase \in {"open", "closing"} /\ lock = h /\ a.queue # <<>>
      /\ Op(a) \in Upserts /\ Op(a).id \in Ids /\ Op(a).text \in Texts
      /\ Replaced(a) \in Records /\ disk = Replaced(a)
  BY LiveBefore DEF Commit, Sound, Current
<1>2. /\ m \in Handle /\ m.records = Replaced(a) /\ ~m.dirty
      /\ m.index = a.index /\ m.native = a.native
      /\ m.queue = a.queue /\ m.phase = a.phase
  BY <1>1 DEF Handle
<1>3. /\ Becomes(h, Settled(m)) /\ UNCHANGED <<lock, disk>>
      /\ recoverable' = {disk}
      /\ written' = [written EXCEPT ![Op(a).id] = Op(a).text]
      /\ acked' = [acked EXCEPT ![Op(a).id] = Op(a).text]
  BY DEF Commit, Synced
<1> HIDE DEF m
<1>4. m.index # NoIndex => m.native /\ (m.dirty \/ m.index = m.records)
  BY <1>1, <1>2 DEF Sound
<1>5. /\ Settled(m) \in Handle
      /\ Sound(Settled(m)) /\ Current(Settled(m), disk')
  BY <1>1, <1>2, <1>3, <1>4, SettledSound
<1>6. /\ disk' \in Records /\ recoverable' \in SUBSET Records
      /\ written' \in Records /\ acked' \in Records
  BY <1>1, <1>3, Before DEF Records
<1> QED
  BY <1>1, <1>3, <1>5, <1>6, OneChanges

\* Answering a query.
LEMMA QueryInv ==
  ASSUME MemoryInv, NEW h \in Handles, Query(h)
  PROVE  MemoryInv'
<1> DEFINE a == handle[h]
<1>1. /\ Live(h) /\ ~a.poisoned /\ a \in Handle /\ Sound(a)
      /\ Current(a, disk) /\ a.step = "query" /\ a.queue # <<>>
      /\ a.phase \in {"open", "closing"} /\ a.phase # "closed"
      /\ a.records \in Records /\ a.records = disk
      /\ UNCHANGED <<lock, disk, recoverable, written, acked>>
  BY LiveBefore DEF Query, Sound, Current, Handle, store
<1>2. written' \in Records /\ acked' \in Records
  BY <1>1, LiveBefore
<1>3. a.index # NoIndex => a.native /\ a.index = a.records
  BY <1>1 DEF Sound
<1>4. CASE Becomes(h, Settled(a))
  BY <1>1, <1>2, <1>3, <1>4, SettledSound, StaysInv
<1>5. CASE a.index # NoIndex /\ NativeFailure(h, a.records, "query")
  BY <1>1, <1>2, <1>3, <1>5, FailureSound, StaysInv
<1> QED
  BY <1>4, <1>5 DEF Query

\* A power failure leaves no handle open.
LEMMA PowerFailureInv == ASSUME MemoryInv, PowerFailure PROVE MemoryInv'
<1>1. /\ disk' \in Records /\ recoverable' \in SUBSET Records
      /\ lock' = lock /\ written' = written /\ acked' = acked
  BY DEF PowerFailure, MemoryInv, TypeOK
<1>2. handle' = [h \in Handles |-> Dead(handle[h])]
  BY DEF PowerFailure
<1>3. ASSUME NEW h \in Handles
      PROVE  /\ handle'[h] \in Handle
             /\ Sound(handle'[h]) /\ Current(handle'[h], disk')
             /\ handle'[h].phase # "closed" => handle[h].phase # "closed"
             /\ handle'[h].step = "idle"
  <2> DEFINE m == [Fresh(handle[h].backend) EXCEPT !.phase = "dead"]
  <2>1. handle[h] \in Handle /\ Sound(handle[h]) /\ handle[h].backend \in Backends
    BY Before DEF Handle
  <2>2. m \in Handle /\ Sound(m) /\ Current(m, disk') /\ m.phase = "dead"
        /\ m.step = "idle"
    BY <2>1, FreshHandle DEF Fresh
  <2>3. CASE handle[h].phase = "closed"
    BY <1>2, <2>1, <2>3 DEF Dead, Sound, Current
  <2>4. CASE handle[h].phase # "closed"
    <3>1. handle'[h] = m
      BY <1>2, <2>4 DEF Dead
    <3> QED
      BY <2>2, <2>4, <3>1
  <2> QED
    BY <2>3, <2>4
<1>4. TypeOK'
  BY <1>1, <1>2, <1>3 DEF TypeOK, MemoryInv
<1>5. OneWriter'
  BY <1>1, <1>3 DEF OneWriter, MemoryInv
<1> QED
  BY <1>3, <1>4, <1>5 DEF MemoryInv

-----------------------------------------------------------------------------
(* The invariant.                                                          *)

LEMMA MemoryInit == Init => MemoryInv
<1> SUFFICES ASSUME Init PROVE MemoryInv
  OBVIOUS
<1>1. Empty \in Records
  BY DEF Empty, Records
<1>2. ASSUME NEW h \in Handles
      PROVE  /\ handle[h] \in Handle /\ Sound(handle[h])
             /\ Current(handle[h], disk)
             /\ handle[h].phase = "closed" /\ handle[h].step = "idle"
  <2>1. PICK b \in Backends : handle[h] = Fresh(b)
    BY DEF Init
  <2>2. Fresh(b) \in Handle /\ Sound(Fresh(b)) /\ Current(Fresh(b), disk)
    BY FreshHandle
  <2>3. Fresh(b).phase = "closed" /\ Fresh(b).step = "idle"
    BY DEF Fresh
  <2> QED
    BY <2>1, <2>2, <2>3
<1>3. handle \in [Handles -> Handle]
  <2>1. handle \in [Handles -> {Fresh(b) : b \in Backends}]
    BY DEF Init
  <2> QED
    BY <1>2, <2>1
<1> QED
  BY <1>1, <1>2, <1>3 DEF Init, MemoryInv, TypeOK, OneWriter

LEMMA MemoryStep == MemoryInv /\ [Next]_vars => MemoryInv'
<1> SUFFICES ASSUME MemoryInv, [Next]_vars PROVE MemoryInv'
  OBVIOUS
<1>1. CASE UNCHANGED vars
  BY <1>1 DEF vars, MemoryInv, TypeOK, OneWriter
<1>2. CASE PowerFailure
  BY <1>2, PowerFailureInv
<1>3. ASSUME NEW h \in Handles,
             \/ \E b \in Backends : Acquire(h, b)
             \/ Load(h) \/ Opened(h) \/ OpenFails(h) \/ Close(h) \/ Release(h)
             \/ Kill(h) \/ RemoveStaleLock(h)
      PROVE  MemoryInv'
  BY <1>3, LifeInv
<1>4. ASSUME NEW h \in Handles, NEW op \in Ops, Enqueue(h, op)
      PROVE  MemoryInv'
  BY <1>4, EnqueueInv
<1>5. ASSUME NEW h \in Handles, Step(h)
      PROVE  MemoryInv'
  BY <1>5, EndInv, BeginInv, UpdateIndexInv, WriteInv, CommitInv, QueryInv DEF Step
<1> QED
  BY <1>1, <1>2, <1>3, <1>4, <1>5 DEF Next

\* Every variable keeps its type, whatever is killed, fails or loses power.
THEOREM TypeCorrect == Spec => []TypeOK
<1>1. MemoryInv => TypeOK
  BY DEF MemoryInv
<1> QED
  BY <1>1, MemoryInit, MemoryStep, PTL DEF Spec

\* The exclusive creation of the lock file admits one process to the memory.
THEOREM OneWriterCorrect == Spec => []OneWriter
<1>1. MemoryInv => OneWriter
  BY DEF MemoryInv
<1> QED
  BY <1>1, MemoryInit, MemoryStep, PTL DEF Spec

\* Between operations a handle's records are those on disk, and during a commit
\* they differ by the record it commits.
THEOREM RecordsCurrentCorrect == Spec => []RecordsCurrent
<1>1. MemoryInv => RecordsCurrent
  BY DEF MemoryInv, RecordsCurrent, Current
<1> QED
  BY <1>1, MemoryInit, MemoryStep, PTL DEF Spec

\* The native index that a query is put to holds the committed records only.
THEOREM IndexCurrentCorrect == Spec => []IndexCurrent
<1>1. MemoryInv => IndexCurrent
  BY DEF MemoryInv, IndexCurrent, Sound
<1> QED
  BY <1>1, MemoryInit, MemoryStep, PTL DEF Spec

-----------------------------------------------------------------------------
(* Implementing MemoryStore.                                               *)

\* A write is a Put of its record, a commit acknowledges it, and every other
\* step leaves the promise alone.
LEMMA StepImplements ==
  MemoryInv /\ [Next]_vars => [Store!Next]_(Store!vars)
<1> SUFFICES ASSUME MemoryInv, [Next]_vars PROVE [Store!Next]_(Store!vars)
  OBVIOUS
<1>1. CASE UNCHANGED vars
  BY <1>1 DEF vars, Store!vars
<1>2. CASE PowerFailure
  BY <1>2 DEF PowerFailure, Store!PowerFailure, Store!Next
<1>3. ASSUME NEW h \in Handles, Write(h) PROVE Store!Next
  <2> DEFINE a == handle[h]
  <2>1. /\ Op(a).id \in Ids /\ Op(a).text \in Texts /\ a.records = disk
    BY <1>3, LiveBefore DEF Write, Sound, Current
  <2>2. Store!Put(Op(a).id, Op(a).text)
    BY <1>3, <2>1 DEF Write, Replaced, Store!Put
  <2> QED
    BY <2>1, <2>2 DEF Store!Next
<1>4. ASSUME NEW h \in Handles, Commit(h) PROVE Store!Next
  <2> DEFINE a == handle[h]
  <2>1. /\ Op(a).id \in Ids /\ disk = Replaced(a) /\ a.records \in Records
    BY <1>4, LiveBefore DEF Commit, Sound, Current, Handle
  <2>2. disk[Op(a).id] = Op(a).text
    BY <2>1 DEF Replaced, Records
  <2>3. Store!Acknowledge(Op(a).id)
    BY <1>4, <2>2 DEF Commit, Synced, Store!Acknowledge
  <2> QED
    BY <2>1, <2>3 DEF Store!Next
<1>5. ASSUME NEW h \in Handles,
             \/ \E b \in Backends : Acquire(h, b)
             \/ Load(h) \/ Opened(h) \/ OpenFails(h) \/ Close(h) \/ Release(h)
             \/ \E op \in Ops : Enqueue(h, op)
             \/ RejectPoisoned(h) \/ Unchanged(h) \/ BeginUpsert(h)
             \/ UpdateIndex(h) \/ WriteFails(h) \/ CommitUncertain(h)
             \/ BeginSearch(h) \/ Query(h) \/ Kill(h) \/ RemoveStaleLock(h)
      PROVE  UNCHANGED Store!vars
  BY <1>5 DEF Acquire, Load, Opened, OpenFails, Close, Release, Unlock, Enqueue,
     RejectPoisoned, Unchanged, BeginUpsert, UpdateIndex, WriteFails,
     CommitUncertain, BeginSearch, Query, Kill, RemoveStaleLock, store, Store!vars
<1> QED
  BY <1>1, <1>2, <1>3, <1>4, <1>5 DEF Next, Step

\* The memory does no more than MemoryStore allows.
THEOREM ImplementsStore == Spec => StoreSpec
<1>1. Init => Store!Init
  BY DEF Init, Store!Init, Empty, Store!Empty
<1> QED
  BY <1>1, MemoryInit, MemoryStep, StepImplements, PTL DEF Spec, StoreSpec, Store!Spec

\* The promise itself is inductive once the records have their type.
LEMMA SurvivesStep ==
  MemoryInv /\ WrittenSurvives /\ [Store!Next]_(Store!vars) => WrittenSurvives'
<1> SUFFICES ASSUME MemoryInv, WrittenSurvives, [Store!Next]_(Store!vars)
             PROVE  WrittenSurvives'
  OBVIOUS
<1>1. /\ \A r \in recoverable \cup {disk} : r \in Records
      /\ written \in Records
  BY DEF MemoryInv, TypeOK
<1>2. CASE UNCHANGED Store!vars
  BY <1>2 DEF Store!vars, WrittenSurvives, Store!AcknowledgedSurvives
<1>3. ASSUME NEW id \in Ids, NEW text \in Texts, Store!Put(id, text)
      PROVE  WrittenSurvives'
  <2>1. ASSUME NEW i \in Ids, written'[i] # Null
        PROVE  i # id /\ written'[i] = written[i] /\ disk'[i] = disk[i]
    BY <1>1, <1>3, <2>1 DEF Store!Put, Records
  <2> QED
    BY <1>3, <2>1 DEF Store!Put, WrittenSurvives, Store!AcknowledgedSurvives
<1>4. ASSUME NEW id \in Ids, Store!Acknowledge(id)
      PROVE  WrittenSurvives'
  BY <1>1, <1>4 DEF Store!Acknowledge, WrittenSurvives, Store!AcknowledgedSurvives,
     Records
<1>5. CASE Store!PowerFailure
  BY <1>5 DEF Store!PowerFailure, WrittenSurvives, Store!AcknowledgedSurvives
<1> QED
  BY <1>2, <1>3, <1>4, <1>5 DEF Store!Next

\* What an upsert wrote and acknowledged is found by every later open until the
\* record is written again.
THEOREM WrittenSurvivesCorrect == Spec => []WrittenSurvives
<1>1. Init => WrittenSurvives
  BY DEF Init, WrittenSurvives, Store!AcknowledgedSurvives, Empty
<1> QED
  BY <1>1, MemoryInit, MemoryStep, StepImplements, SurvivesStep, PTL DEF Spec
=============================================================================
