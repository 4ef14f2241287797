------------------------------- MODULE ToolsProofs -------------------------------
(***************************************************************************)
(* Proofs about the tools around a candidate, one part per component.      *)
(***************************************************************************)
EXTENDS Ledger, Freshness, AutomergeGuard, Mission, EvidenceGates, Discovery, Schedule,
        SequenceTheorems, DataInduction

-----------------------------------------------------------------------------
(* Freshness, for every set of paths and contents and any number of        *)
(* writes: a FRESH receipt means that every declared path held what was    *)
(* stamped, and an untouched candidate is FRESH.                           *)
(*                                                                         *)
(* The strengthening says what each digest in flight knows of the history: *)
(* what a command has noted, the path has held since the command began     *)
(* (StampKnows, VerifyKnows), and what a policy file is anchored to, its   *)
(* paths held during the stamp that wrote it (FileKnows).                  *)

\* Digests that were read from their paths, in a history.
ReadFrom(digests, history) ==
  /\ DOMAIN digests \subseteq Paths
  /\ \A p \in DOMAIN digests : digests[p] \in history[p] /\ digests[p] # Absent

Covers(history) == \A p \in Paths : content[p] \in history[p]

IsPolicy(noted) ==
  /\ noted = [paths |-> noted.paths, digests |-> noted.digests, base |-> noted.base,
              maxAge |-> noted.maxAge, evaluated |-> noted.evaluated]
  /\ noted.paths \in Seq(Paths)
  /\ Range(noted.paths) = DOMAIN noted.digests

StampKnows ==
  stamping # Missing =>
    /\ stamping = [paths |-> stamping.paths, left |-> stamping.left,
                   digests |-> stamping.digests, base |-> stamping.base,
                   maxAge |-> stamping.maxAge]
    /\ stamping.paths \in Seq(Paths) /\ stamping.left \in Seq(Paths)
    /\ Range(stamping.left) \cup DOMAIN stamping.digests = Range(stamping.paths)
    /\ ReadFrom(stamping.digests, held.stamp)
    /\ Covers(held.stamp)

FileKnows ==
  policyFile # Missing =>
    /\ policyFile = [policy |-> policyFile.policy, policyDigest |-> policyFile.policyDigest]
    /\ IsPolicy(policyFile.policy)
    /\ ReadFrom(policyFile.policyDigest.dependencies, held.policy)

VerifyKnows ==
  verifying # Missing =>
    /\ verifying = [policy |-> verifying.policy, left |-> verifying.left,
                    digests |-> verifying.digests, head |-> verifying.head]
    /\ verifying.left \in Seq(Paths)
    /\ Range(verifying.left) \subseteq DOMAIN verifying.policy.digests
    /\ DOMAIN verifying.digests \subseteq DOMAIN verifying.policy.digests
    /\ \A p \in DOMAIN verifying.policy.digests :
         p \in Range(verifying.left) \cup DOMAIN verifying.digests \/ Absent \in held.verify[p]
    /\ ReadFrom(verifying.policy.digests, held.anchor)
    /\ ReadFrom(verifying.digests, held.verify)
    /\ Covers(held.verify)
    /\ receipt = Missing

FreshInv ==
  /\ FreshTypeOK
  /\ StampKnows /\ FileKnows /\ VerifyKnows
  /\ FreshMeansUnchanged /\ UntouchedIsFresh

-----------------------------------------------------------------------------
(* What the operators return.                                              *)

LEMMA HeadAndTail ==
  ASSUME NEW s \in Seq(Paths), s # <<>>
  PROVE  /\ Head(s) \in Paths /\ Tail(s) \in Seq(Paths)
         /\ Range(s) = {Head(s)} \cup Range(Tail(s))
<1>1. Head(s) \in Paths /\ Tail(s) \in Seq(Paths)
  BY HeadTailProperties
<1>2. Len(s) \in Nat \ {0} /\ DOMAIN s = 1 .. Len(s) /\ Len(Tail(s)) = Len(s) - 1
  BY HeadTailProperties, LenProperties, EmptySeq
<1>3. Head(s) = s[1] /\ \A i \in 1 .. Len(s) - 1 : Tail(s)[i] = s[i + 1]
  BY <1>2, HeadTailProperties
<1>4. DOMAIN Tail(s) = 1 .. Len(s) - 1
  BY <1>1, <1>2, LenProperties
<1>5. Range(s) \subseteq {Head(s)} \cup Range(Tail(s))
  <2> SUFFICES ASSUME NEW i \in 1 .. Len(s)
               PROVE  s[i] = Head(s) \/ \E j \in 1 .. Len(s) - 1 : s[i] = Tail(s)[j]
    BY <1>2, <1>4 DEF Range
  <2>1. CASE i = 1
    BY <2>1, <1>3
  <2>2. CASE i # 1
    <3>1. i - 1 \in 1 .. Len(s) - 1 /\ (i - 1) + 1 = i
      BY <2>2, <1>2
    <3>2. Tail(s)[i - 1] = s[i]
      BY <3>1, <1>3
    <3> QED BY <3>1, <3>2
  <2> QED BY <2>1, <2>2
<1>6. {Head(s)} \cup Range(Tail(s)) \subseteq Range(s)
  <2>1. Head(s) \in Range(s)
    <3>1. 1 \in DOMAIN s
      BY <1>2
    <3> QED BY <3>1, <1>3 DEF Range
  <2>2. ASSUME NEW i \in 1 .. Len(s) - 1
        PROVE  Tail(s)[i] \in Range(s)
    <3>1. i + 1 \in DOMAIN s
      BY <1>2
    <3> QED BY <3>1, <1>3 DEF Range
  <2> QED BY <2>1, <2>2, <1>4 DEF Range
<1> QED BY <1>1, <1>5, <1>6

LEMMA EmptyRange == Range(<<>>) = {}
BY DEF Range

\* Noting what a path holds now keeps a reading a reading.
LEMMA NotedIsRead ==
  ASSUME NEW digests, NEW history, ReadFrom(digests, history), Covers(history),
         NEW path \in Paths, content[path] # Absent
  PROVE  ReadFrom(Noted(digests, path, content[path]), history)
<1> DEFINE noted == Noted(digests, path, content[path])
<1>1. DOMAIN noted = DOMAIN digests \cup {path}
  BY DEF Noted
<1>2. noted[path] = content[path] /\ content[path] \in history[path]
  BY DEF Covers, Noted
<1>3. \A p \in DOMAIN digests \ {path} : noted[p] = digests[p]
  BY DEF Noted
<1> HIDE DEF noted
<1>4. ReadFrom(noted, history)
  BY <1>1, <1>2, <1>3 DEF ReadFrom
<1> QED BY <1>4 DEF noted

\* A history that grows keeps what was read from it.
LEMMA ReadStays ==
  ASSUME NEW digests, NEW before, NEW after, ReadFrom(digests, before),
         \A p \in Paths : before[p] \subseteq after[p]
  PROVE  ReadFrom(digests, after)
BY DEF ReadFrom

\* What a write adds to the histories.
LEMMA HeldAfterIs ==
  ASSUME FreshTypeOK, NEW path \in Paths, NEW text \in Texts \cup {Absent}
  PROVE  LET after == HeldAfter(path, text)
         IN  /\ after \in [{"stamp", "policy", "anchor", "verify"} ->
                             [Paths -> SUBSET (Texts \cup {Absent})]]
             /\ after.policy = held.policy /\ after.anchor = held.anchor
             /\ \A p \in Paths : /\ held.stamp[p] \subseteq after.stamp[p]
                                 /\ held.verify[p] \subseteq after.verify[p]
             /\ stamping # Missing => text \in after.stamp[path]
             /\ verifying # Missing => text \in after.verify[path]
             /\ verifying = Missing => after.verify = held.verify
<1> DEFINE Histories == [Paths -> SUBSET (Texts \cup {Absent})]
           Grown(history, command) ==
             [history EXCEPT ![path] = IF command = Missing THEN @ ELSE @ \cup {text}]
           stamp == Grown(held.stamp, stamping)
           verify == Grown(held.verify, verifying)
<1>1. HeldAfter(path, text) = [held EXCEPT !.stamp = stamp, !.verify = verify]
  BY DEF HeldAfter, FreshTypeOK
<1>2. \A history \in Histories : \A command :
        /\ Grown(history, command) \in Histories
        /\ \A p \in Paths : history[p] \subseteq Grown(history, command)[p]
        /\ command # Missing => text \in Grown(history, command)[path]
        /\ command = Missing => Grown(history, command) = history
  OBVIOUS
<1>3. held.stamp \in Histories /\ held.verify \in Histories
  BY DEF FreshTypeOK
<1> HIDE DEF Histories, Grown
<1>4. /\ stamp \in Histories /\ verify \in Histories
      /\ \A p \in Paths : held.stamp[p] \subseteq stamp[p] /\ held.verify[p] \subseteq verify[p]
      /\ stamping # Missing => text \in stamp[path]
      /\ verifying # Missing => text \in verify[path]
      /\ verifying = Missing => verify = held.verify
  BY <1>2, <1>3
<1> HIDE DEF stamp, verify
<1>5. [held EXCEPT !.stamp = stamp, !.verify = verify]
        \in [{"stamp", "policy", "anchor", "verify"} -> Histories]
  BY <1>4 DEF FreshTypeOK, Histories
<1>6. LET after == [held EXCEPT !.stamp = stamp, !.verify = verify]
      IN  /\ after.stamp = stamp /\ after.verify = verify
          /\ after.policy = held.policy /\ after.anchor = held.anchor
  BY DEF FreshTypeOK
<1> QED BY <1>1, <1>4, <1>5, <1>6 DEF Histories

-----------------------------------------------------------------------------
(* The receipt.                                                            *)

LEMMA EvaluateIs ==
  ASSUME NEW noted, NEW observed, NEW commit, NEW day
  PROVE  LET result   == Evaluate(noted, PolicyDigest(noted), observed, commit, day)
             declared == DOMAIN noted.digests
         IN  /\ result.policyDigest # Missing =>
                  result.policyDigest = PolicyDigest(noted)
             /\ result.status = "FRESH" =>
                  /\ result.policyDigest = PolicyDigest(noted)
                  /\ declared # {} /\ DOMAIN observed = declared
                  /\ \A p \in declared : observed[p] = noted.digests[p]
             /\ /\ result.policyDigest # Missing /\ ~result.ageExceeded
                /\ DOMAIN observed = declared
                /\ \A p \in declared : observed[p] = noted.digests[p]
                => result.status = "FRESH"
BY DEF Evaluate, StatusOf, InvalidReceipt

-----------------------------------------------------------------------------
(* What each step leaves alone.                                            *)

LEMMA StampFrame ==
  ASSUME StampKnows, UNCHANGED <<content, stamping>>, held'.stamp = held.stamp
  PROVE  StampKnows'
BY DEF StampKnows, ReadFrom, Covers

LEMMA FileFrame ==
  ASSUME FileKnows, UNCHANGED policyFile, held'.policy = held.policy
  PROVE  FileKnows'
BY DEF FileKnows, IsPolicy, ReadFrom

LEMMA VerifyFrame ==
  ASSUME VerifyKnows, UNCHANGED <<content, verifying, receipt>>,
         held'.verify = held.verify, held'.anchor = held.anchor
  PROVE  VerifyKnows'
BY DEF VerifyKnows, ReadFrom, Covers

LEMMA ReceiptFrame ==
  ASSUME FreshMeansUnchanged, UntouchedIsFresh, UNCHANGED receipt,
         held'.verify = held.verify, held'.anchor = held.anchor
  PROVE  FreshMeansUnchanged' /\ UntouchedIsFresh'
BY DEF FreshMeansUnchanged, UntouchedIsFresh

LEMMA NoReceipt ==
  ASSUME receipt' = Missing
  PROVE  FreshMeansUnchanged' /\ UntouchedIsFresh'
BY DEF FreshMeansUnchanged, UntouchedIsFresh

-----------------------------------------------------------------------------
(* The steps.                                                              *)

LEMMA StampBeginStep ==
  ASSUME FreshInv, StampBegin
  PROVE  FreshInv'
<1> USE DEF FreshInv
<1>1. held' = [held EXCEPT !.stamp = HeldNow] /\ UNCHANGED <<content, writes, policyFile, verifying>>
      /\ receipt' = Missing /\ verifying = Missing
  BY DEF StampBegin, freshTree
<1>2. HeldNow \in [Paths -> SUBSET (Texts \cup {Absent})]
      /\ \A p \in Paths : content[p] \in HeldNow[p]
  BY DEF HeldNow, FreshTypeOK
<1> HIDE DEF HeldNow
<1>3. /\ held'.stamp = HeldNow /\ held'.policy = held.policy
      /\ held'.anchor = held.anchor /\ held'.verify = held.verify
  BY <1>1 DEF FreshTypeOK
<1>4. FreshTypeOK'
  BY <1>1, <1>2 DEF FreshTypeOK
<1>5. StampKnows'
  <2>1. PICK paths \in Declarable, commit \in Commits, age \in Ages :
          stamping' = [paths |-> paths, left |-> paths, digests |-> NoDigests,
                       base |-> commit, maxAge |-> age]
    BY DEF StampBegin
  <2>2. paths \in Seq(Paths)
    BY FreshnessAssumption
  <2>3. DOMAIN NoDigests = {}
    BY DEF NoDigests
  <2>4. Covers(held.stamp)'
    BY <1>1, <1>2, <1>3 DEF Covers
  <2>5. ReadFrom(NoDigests, held'.stamp)
    BY <2>3 DEF ReadFrom
  <2> HIDE DEF NoDigests
  <2> QED BY <2>1, <2>2, <2>3, <2>4, <2>5 DEF StampKnows, ReadFrom
<1>6. FileKnows'
  BY <1>1, <1>3, FileFrame
<1>7. VerifyKnows'
  BY <1>1 DEF VerifyKnows
<1> QED BY <1>1, <1>4, <1>5, <1>6, <1>7, NoReceipt

LEMMA StampReadStep ==
  ASSUME FreshInv, StampRead
  PROVE  FreshInv'
<1> USE DEF FreshInv
<1>1. UNCHANGED <<content, writes, policyFile, verifying, receipt, held>>
      /\ stamping # Missing /\ stamping.left # <<>>
  BY DEF StampRead, freshTree
<1>2. FreshTypeOK'
  BY <1>1 DEF FreshTypeOK
<1>3. StampKnows'
  <2> DEFINE path == Head(stamping.left)
  <2>1. path \in Paths /\ Tail(stamping.left) \in Seq(Paths)
        /\ Range(stamping.left) = {path} \cup Range(Tail(stamping.left))
    BY <1>1, HeadAndTail DEF StampKnows
  <2>2. CASE content[path] = Absent
    BY <2>2 DEF StampRead, StampKnows
  <2>3. CASE content[path] # Absent
    <3> DEFINE noted == Noted(stamping.digests, path, content[path])
    <3>1. ReadFrom(noted, held.stamp)
      BY <1>1, <2>1, <2>3, NotedIsRead DEF StampKnows
    <3>2. DOMAIN noted = DOMAIN stamping.digests \cup {path}
      BY DEF Noted
    <3>3. stamping' = [stamping EXCEPT !.left = Tail(@), !.digests = noted]
      BY <2>3 DEF StampRead
    <3> HIDE DEF noted, path
    <3>4. /\ stamping' = [paths |-> stamping.paths, left |-> Tail(stamping.left),
                          digests |-> noted, base |-> stamping.base,
                          maxAge |-> stamping.maxAge]
          /\ Range(Tail(stamping.left)) \cup DOMAIN noted = Range(stamping.paths)
      BY <1>1, <2>1, <3>2, <3>3 DEF StampKnows
    <3>5. Covers(held.stamp)' /\ ReadFrom(noted, held.stamp')
      BY <1>1, <3>1 DEF StampKnows, Covers
    <3> QED BY <1>1, <2>1, <3>4, <3>5 DEF StampKnows, ReadFrom
  <2> QED BY <2>2, <2>3
<1>4. FileKnows' /\ VerifyKnows' /\ FreshMeansUnchanged' /\ UntouchedIsFresh'
  BY <1>1, FileFrame, VerifyFrame, ReceiptFrame
<1> QED BY <1>2, <1>3, <1>4

LEMMA StampWriteStep ==
  ASSUME FreshInv, StampWrite
  PROVE  FreshInv'
<1> USE DEF FreshInv
<1>1. /\ stamping # Missing /\ stamping.left = <<>> /\ stamping' = Missing
      /\ UNCHANGED <<content, writes, verifying, receipt>>
  BY DEF StampWrite, freshTree
<1>2. StampKnows'
  BY <1>1 DEF StampKnows
<1>3. CASE UNCHANGED <<policyFile, held>>
  <2>1. FreshTypeOK'
    BY <1>1, <1>3 DEF FreshTypeOK
  <2> QED BY <1>1, <1>2, <1>3, <2>1, FileFrame, VerifyFrame, ReceiptFrame
<1>4. ASSUME NEW day \in Days, held' = [held EXCEPT !.policy = held.stamp, !.stamp = NothingHeld],
             \/ policyFile' = [policy |-> Stamped(day), policyDigest |-> PolicyDigest(Stamped(day))]
             \/ policyFile' = Missing
      PROVE  FreshInv'
  <2>1. NothingHeld \in [Paths -> SUBSET (Texts \cup {Absent})]
    BY DEF NothingHeld
  <2> HIDE DEF NothingHeld
  <2>2. /\ held'.policy = held.stamp
        /\ held'.anchor = held.anchor /\ held'.verify = held.verify
    BY <1>4 DEF FreshTypeOK
  <2>3. FreshTypeOK'
    BY <1>1, <1>4, <2>1 DEF FreshTypeOK
  <2>4. IsPolicy(Stamped(day))
    BY <1>1, EmptyRange DEF Stamped, IsPolicy, StampKnows
  <2>5. ReadFrom(PolicyDigest(Stamped(day)).dependencies, held'.policy)
    BY <1>1, <2>2 DEF PolicyDigest, Stamped, StampKnows
  <2> HIDE DEF Stamped, PolicyDigest
  <2>6. FileKnows'
    BY <1>4, <2>4, <2>5 DEF FileKnows, IsPolicy, ReadFrom
  <2> QED BY <1>1, <1>2, <2>2, <2>3, <2>6, VerifyFrame, ReceiptFrame
<1> QED BY <1>3, <1>4 DEF StampWrite

LEMMA VerifyBeginStep ==
  ASSUME FreshInv, VerifyBegin
  PROVE  FreshInv'
<1> USE DEF FreshInv
<1>1. /\ policyFile # Missing /\ Anchored(policyFile) /\ receipt' = Missing
      /\ held' = [held EXCEPT !.anchor = held.policy, !.verify = HeldNow]
      /\ UNCHANGED <<content, writes, stamping, policyFile>>
  BY DEF VerifyBegin, freshTree
<1>2. HeldNow \in [Paths -> SUBSET (Texts \cup {Absent})]
      /\ \A p \in Paths : content[p] \in HeldNow[p]
  BY DEF HeldNow, FreshTypeOK
<1> HIDE DEF HeldNow
<1>3. /\ held'.stamp = held.stamp /\ held'.policy = held.policy
      /\ held'.anchor = held.policy /\ held'.verify = HeldNow
  BY <1>1 DEF FreshTypeOK
<1>4. FreshTypeOK'
  BY <1>1, <1>2 DEF FreshTypeOK
<1>5. VerifyKnows'
  <2>1. PICK commit \in Commits :
          verifying' = [policy |-> policyFile.policy, left |-> policyFile.policy.paths,
                        digests |-> NoDigests, head |-> commit]
    BY DEF VerifyBegin
  <2>2. policyFile.policy.digests = policyFile.policyDigest.dependencies
    BY <1>1 DEF Anchored, PolicyDigest
  <2>3. ReadFrom(policyFile.policy.digests, held'.anchor)
    BY <1>1, <1>3, <2>2 DEF FileKnows
  <2>4. DOMAIN NoDigests = {}
    BY DEF NoDigests
  <2>5. Covers(held.verify)' /\ ReadFrom(NoDigests, held'.verify)
    BY <1>1, <1>2, <1>3, <2>4 DEF Covers, ReadFrom
  <2> HIDE DEF NoDigests
  <2>6. /\ policyFile.policy.paths \in Seq(Paths)
        /\ Range(policyFile.policy.paths) = DOMAIN policyFile.policy.digests
    BY <1>1 DEF FileKnows, IsPolicy
  <2> QED BY <1>1, <2>1, <2>3, <2>4, <2>5, <2>6 DEF VerifyKnows, ReadFrom
<1> QED BY <1>1, <1>3, <1>4, <1>5, StampFrame, FileFrame, NoReceipt

LEMMA VerifyReadStep ==
  ASSUME FreshInv, VerifyRead
  PROVE  FreshInv'
<1> USE DEF FreshInv
<1>1. UNCHANGED <<content, writes, stamping, policyFile, receipt, held>>
      /\ verifying # Missing /\ verifying.left # <<>>
  BY DEF VerifyRead, freshTree
<1>2. FreshTypeOK'
  BY <1>1 DEF FreshTypeOK
<1>3. VerifyKnows'
  <2> DEFINE path  == Head(verifying.left)
             rest  == Tail(verifying.left)
             noted == IF content[path] = Absent THEN verifying.digests
                      ELSE Noted(verifying.digests, path, content[path])
  <2>1. path \in Paths /\ rest \in Seq(Paths)
        /\ Range(verifying.left) = {path} \cup Range(rest)
    BY <1>1, HeadAndTail DEF VerifyKnows
  <2>2. ReadFrom(noted, held.verify)
    BY <1>1, <2>1, NotedIsRead DEF VerifyKnows
  <2>3. /\ content[path] = Absent => DOMAIN noted = DOMAIN verifying.digests
        /\ content[path] # Absent => DOMAIN noted = DOMAIN verifying.digests \cup {path}
    BY DEF Noted
  <2>4. content[path] \in held.verify[path]
    BY <1>1, <2>1 DEF VerifyKnows, Covers
  <2>5. verifying' = [verifying EXCEPT !.left = rest, !.digests = noted]
    <3>1. CASE content[path] = Absent
      BY <3>1 DEF VerifyRead
    <3>2. CASE content[path] # Absent
      BY <3>2 DEF VerifyRead
    <3> QED BY <3>1, <3>2
  <2> HIDE DEF path, rest, noted
  <2>6. verifying' = [policy |-> verifying.policy, left |-> rest, digests |-> noted,
                      head |-> verifying.head]
    BY <1>1, <2>5 DEF VerifyKnows
  <2>7. /\ Range(rest) \subseteq DOMAIN verifying.policy.digests
        /\ DOMAIN noted \subseteq DOMAIN verifying.policy.digests
        /\ \A p \in DOMAIN verifying.policy.digests :
             p \in Range(rest) \cup DOMAIN noted \/ Absent \in held.verify[p]
    BY <1>1, <2>1, <2>3, <2>4 DEF VerifyKnows
  <2>8. Covers(held.verify)' /\ ReadFrom(noted, held'.verify)
        /\ ReadFrom(verifying.policy.digests, held'.anchor)
    BY <1>1, <2>2 DEF VerifyKnows, Covers
  <2> QED BY <1>1, <2>1, <2>6, <2>7, <2>8 DEF VerifyKnows, ReadFrom
<1> QED BY <1>1, <1>2, <1>3, StampFrame, FileFrame, ReceiptFrame

LEMMA VerifyJudgeStep ==
  ASSUME FreshInv, VerifyJudge
  PROVE  FreshInv'
<1> USE DEF FreshInv
<1>1. /\ verifying # Missing /\ verifying.left = <<>> /\ verifying' = Missing
      /\ UNCHANGED <<content, writes, stamping, policyFile, held>>
  BY DEF VerifyJudge, freshTree
<1>2. FreshTypeOK' /\ VerifyKnows'
  BY <1>1 DEF FreshTypeOK, VerifyKnows
<1> DEFINE noted   == verifying.policy
           observed == verifying.digests
           declared == DOMAIN noted.digests
<1>3. PICK day \in Days :
        receipt' = Evaluate(noted, PolicyDigest(noted), observed, verifying.head, day)
  BY DEF VerifyJudge
<1>4. /\ receipt'.policyDigest # Missing => receipt'.policyDigest = PolicyDigest(noted)
      /\ receipt'.status = "FRESH" =>
           /\ receipt'.policyDigest = PolicyDigest(noted)
           /\ declared # {} /\ DOMAIN observed = declared
           /\ \A p \in declared : observed[p] = noted.digests[p]
      /\ /\ receipt'.policyDigest # Missing /\ ~receipt'.ageExceeded
         /\ DOMAIN observed = declared
         /\ \A p \in declared : observed[p] = noted.digests[p]
         => receipt'.status = "FRESH"
  BY <1>3, EvaluateIs
<1>5. PolicyDigest(noted).dependencies = noted.digests
  BY DEF PolicyDigest
<1>6. /\ ReadFrom(noted.digests, held.anchor) /\ ReadFrom(observed, held.verify)
      /\ DOMAIN observed \subseteq declared
      /\ \A p \in declared : p \in DOMAIN observed \/ Absent \in held.verify[p]
  BY <1>1, EmptyRange DEF VerifyKnows
<1> HIDE DEF noted, observed
<1>7. FreshMeansUnchanged'
  BY <1>1, <1>4, <1>5, <1>6 DEF FreshMeansUnchanged, ReadFrom
<1>8. UntouchedIsFresh'
  <2> SUFFICES ASSUME receipt'.policyDigest # Missing, ~receipt'.ageExceeded,
                      \A p \in declared : \E text \in Texts :
                        held.anchor[p] = {text} /\ held.verify[p] = {text}
               PROVE  receipt'.status = "FRESH"
    BY <1>1, <1>4, <1>5 DEF UntouchedIsFresh
  <2>1. DOMAIN observed = declared
    BY <1>6, FreshnessAssumption
  <2>2. \A p \in declared : observed[p] = noted.digests[p]
    BY <1>6, <2>1 DEF ReadFrom
  <2> QED BY <1>4, <2>1, <2>2
<1> QED BY <1>1, <1>2, <1>7, <1>8, StampFrame, FileFrame

LEMMA WriteTreeStep ==
  ASSUME FreshInv, WriteTree
  PROVE  FreshInv'
<1> USE DEF FreshInv
<1>1. /\ writes' = writes + 1 /\ UNCHANGED <<stamping, policyFile, verifying, receipt>>
  BY DEF WriteTree
<1>2. PICK path \in Paths, text \in Texts \cup {Absent} :
        content' = [content EXCEPT ![path] = text] /\ held' = HeldAfter(path, text)
  BY DEF WriteTree
<1>3. /\ held' \in [{"stamp", "policy", "anchor", "verify"} ->
                      [Paths -> SUBSET (Texts \cup {Absent})]]
      /\ held'.policy = held.policy /\ held'.anchor = held.anchor
      /\ \A p \in Paths : held.stamp[p] \subseteq held'.stamp[p]
                          /\ held.verify[p] \subseteq held'.verify[p]
      /\ stamping # Missing => text \in held'.stamp[path]
      /\ verifying # Missing => text \in held'.verify[path]
      /\ verifying = Missing => held'.verify = held.verify
  BY <1>2, HeldAfterIs
<1>4. FreshTypeOK'
  BY <1>1, <1>2, <1>3 DEF FreshTypeOK
<1>5. \A p \in Paths : content'[p] = IF p = path THEN text ELSE content[p]
  BY <1>2 DEF FreshTypeOK
<1>6. StampKnows'
  <2>1. CASE stamping = Missing
    BY <1>1, <2>1 DEF StampKnows
  <2>2. CASE stamping # Missing
    <3>1. Covers(held.stamp)'
      BY <1>3, <1>5, <2>2 DEF Covers, StampKnows
    <3>2. ReadFrom(stamping.digests, held'.stamp)
      BY <1>3, <2>2, ReadStays DEF StampKnows
    <3> QED BY <1>1, <2>2, <3>1, <3>2 DEF StampKnows, ReadFrom
  <2> QED BY <2>1, <2>2
<1>7. VerifyKnows'
  <2>1. CASE verifying = Missing
    BY <1>1, <2>1 DEF VerifyKnows
  <2>2. CASE verifying # Missing
    <3>1. Covers(held.verify)'
      BY <1>3, <1>5, <2>2 DEF Covers, VerifyKnows
    <3>2. ReadFrom(verifying.digests, held'.verify)
      BY <1>3, <2>2, ReadStays DEF VerifyKnows
    <3>3. ReadFrom(verifying.policy.digests, held'.anchor)
      BY <1>3, <2>2 DEF VerifyKnows
    <3>4. \A p \in DOMAIN verifying.policy.digests :
            p \in Range(verifying.left) \cup DOMAIN verifying.digests \/ Absent \in held'.verify[p]
      BY <1>3, <2>2 DEF VerifyKnows, ReadFrom
    <3> QED BY <1>1, <2>2, <3>1, <3>2, <3>3, <3>4 DEF VerifyKnows, ReadFrom
  <2> QED BY <2>1, <2>2
<1>8. FreshMeansUnchanged' /\ UntouchedIsFresh'
  <2>1. CASE verifying = Missing
    BY <1>1, <1>3, <2>1, ReceiptFrame
  <2>2. CASE verifying # Missing
    BY <1>1, <2>2, NoReceipt DEF VerifyKnows
  <2> QED BY <2>1, <2>2
<1> QED BY <1>1, <1>3, <1>4, <1>6, <1>7, <1>8, FileFrame

LEMMA EditPolicyStep ==
  ASSUME FreshInv, EditPolicy
  PROVE  FreshInv'
<1> USE DEF FreshInv
<1>1. policyFile # Missing /\ UNCHANGED <<content, writes, stamping, verifying, receipt, held>>
  BY DEF EditPolicy, freshTree
<1>2. PICK path \in DOMAIN policyFile.policy.digests, text \in Texts :
        policyFile' = [policyFile EXCEPT !.policy.digests[path] = text]
  BY DEF EditPolicy
<1>3. FreshTypeOK'
  BY <1>1 DEF FreshTypeOK
<1>4. FileKnows'
  <2> DEFINE digests == [policyFile.policy.digests EXCEPT ![path] = text]
  <2>1. policyFile' = [policyFile EXCEPT !.policy = [policyFile.policy EXCEPT !.digests = digests]]
    BY <1>1, <1>2 DEF FileKnows, IsPolicy
  <2>2. DOMAIN digests = DOMAIN policyFile.policy.digests
    OBVIOUS
  <2> HIDE DEF digests
  <2>3. IsPolicy([policyFile.policy EXCEPT !.digests = digests])
    BY <1>1, <2>2 DEF FileKnows, IsPolicy
  <2> QED BY <1>1, <2>1, <2>3 DEF FileKnows, ReadFrom
<1> QED BY <1>1, <1>3, <1>4, StampFrame, VerifyFrame, ReceiptFrame

-----------------------------------------------------------------------------
(* The theorems.                                                           *)

LEMMA FreshInvHolds == FreshSpec => []FreshInv
<1>1. FreshInit => FreshInv
  BY DEF FreshInit, FreshInv, FreshTypeOK, StampKnows, FileKnows, VerifyKnows,
         FreshMeansUnchanged, UntouchedIsFresh, NothingHeld
<1>2. FreshInv /\ [FreshNext]_freshVars => FreshInv'
  <2> SUFFICES ASSUME FreshInv, [FreshNext]_freshVars PROVE FreshInv'
    OBVIOUS
  <2>1. CASE UNCHANGED freshVars
    BY <2>1, StampFrame, FileFrame, VerifyFrame, ReceiptFrame
       DEF freshVars, freshTree, FreshInv, FreshTypeOK
  <2> QED BY <2>1, StampBeginStep, StampReadStep, StampWriteStep, VerifyBeginStep,
             VerifyReadStep, VerifyJudgeStep, WriteTreeStep, EditPolicyStep DEF FreshNext
<1> QED BY <1>1, <1>2, PTL DEF FreshSpec

\* A receipt says FRESH only of paths that held, at some moment of the
\* verification, what they held at some moment of the stamp (freshness stamp
\* and freshness verify of the CLI).
THEOREM FreshMeansUnchangedCorrect == FreshSpec => []FreshMeansUnchanged
<1>1. FreshInv => FreshMeansUnchanged
  BY DEF FreshInv
<1> QED BY <1>1, FreshInvHolds, PTL

\* A candidate nobody touched is FRESH unless it is too old, however many
\* commits have gone by (freshness verify of the CLI).
THEOREM UntouchedIsFreshCorrect == FreshSpec => []UntouchedIsFresh
<1>1. FreshInv => UntouchedIsFresh
  BY DEF FreshInv
<1> QED BY <1>1, FreshInvHolds, PTL

-----------------------------------------------------------------------------
(* Mission, for every set of commits and trees and any number of changes:  *)
(* evidence verified under the digest its run returned is what was made,   *)
(* and of the tree of the commit it names.                                 *)
(*                                                                         *)
(* The strengthening follows one tree: from the first status reading on,   *)
(* as long as nothing was blurred, the tree of the first commit is among   *)
(* those the check ran on, and being back at it means having never left    *)
(* (Watched).  What the second reading concludes stays with the bundle     *)
(* (CreatedSound) and with whatever a trusted verification reads of it.    *)

IsMap(f) == f = [n \in DOMAIN f |-> f[n]]
IsReading(r) == r = [commit |-> r.commit, dirty |-> r.dirty, lock |-> r.lock]

MissionShape ==
  /\ mission = [at |-> mission.at, reading |-> mission.reading, check |-> mission.check,
                sbom |-> mission.sbom, audit |-> mission.audit]
  /\ mission.reading = [i \in 1 .. 2 |-> mission.reading[i]]
  /\ \A i \in 1 .. 2 : IsReading(mission.reading[i])
  /\ IsMap(files)

FirstTree == TreeOf[mission.reading[1].commit]

\* The readings so far speak of HEAD and of the trees the check runs on.
InRound(n) ==
  /\ mission.at \in {"lock", "revision", "status"}
  /\ n = 1 <=> mission.check = None
Unseen == mission.at = "start" \/ InRound(1)
Watching == mission.at = "check" \/ InRound(2)

Watched ==
  /\ mission.at \in {"start", "check"} => mission.check = None
  /\ Unseen => passedBy = {}
  /\ At("status") /\ ~blurred => headId = mission.reading[Round].commit
  /\ Watching =>
       /\ tree \in passedBy
       /\ ~mission.reading[1].dirty /\ ~blurred =>
            FirstTree \in passedBy /\ (tree = FirstTree => passedBy = {FirstTree})

SourceHolds(first, second) ==
  SourceGate(first, second) = "ACCEPT" /\ ~blurred => passedBy = {TreeOf[second.commit]}

Concluded ==
  mission.at \in {"sbom", "create"} => SourceHolds(mission.reading[1], mission.reading[2])

CreatedSound ==
  /\ IsMap(created.artifacts)
  /\ created.manifest.artifacts = created.artifacts
  /\ created.manifest.gates.source = "ACCEPT" /\ ~blurred =>
       passedBy = {TreeOf[created.manifest.source.commit]}

Made == {"writing", "done", "blocked"}

BundleKnows ==
  /\ mission.at \notin Made => DOMAIN files = {} /\ checking = None /\ verified = None
  /\ mission.at \in {"writing", "done"} \/ DOMAIN files # {} => CreatedSound

CheckingKnows ==
  checking # None =>
    /\ checking = [manifest |-> checking.manifest, trusted |-> checking.trusted,
                   listed |-> checking.listed, read |-> checking.read]
    /\ checking.trusted => CreatedSound /\ checking.manifest = created.manifest
    /\ IsMap(checking.read)
    /\ \A n \in DOMAIN checking.read : checking.read[n] = checking.manifest.artifacts[n]

MissionInv ==
  /\ MissionShape /\ Watched /\ Concluded
  /\ BundleKnows /\ CheckingKnows /\ VerifiedEvidence

-----------------------------------------------------------------------------
(* The steps of a run up to its bundle.                                    *)

\* Before there is a bundle, only the readings are to be kept.
LEMMA NothingMade ==
  ASSUME MissionInv, mission.at \notin Made, OnlyMission,
         mission'.at \notin {"writing", "done"}
  PROVE  BundleKnows' /\ CheckingKnows' /\ VerifiedEvidence'
BY DEF MissionInv, BundleKnows, CheckingKnows, VerifiedEvidence, OnlyMission, Made

LEMMA PreflightStep ==
  ASSUME MissionInv, Preflight
  PROVE  MissionInv'
<1>1. /\ mission.at = "start" /\ OnlyMission /\ UNCHANGED world
      /\ mission' = [mission EXCEPT !.at = "lock"] \/ mission' = [mission EXCEPT !.at = "blocked"]
  BY DEF Preflight, At, Goes
<1>2. /\ mission'.at \in {"lock", "blocked"}
      /\ mission' = [at |-> mission'.at, reading |-> mission.reading, check |-> mission.check,
                     sbom |-> mission.sbom, audit |-> mission.audit]
  BY <1>1 DEF MissionInv, MissionShape
<1>3. MissionShape'
  BY <1>1, <1>2 DEF MissionInv, MissionShape, OnlyMission, IsReading
<1>4. Watched' /\ Concluded'
  BY <1>1, <1>2 DEF MissionInv, Watched, Concluded, Unseen, Watching, InRound, world, At
<1> QED BY <1>1, <1>2, <1>3, <1>4, NothingMade DEF MissionInv, Made

LEMMA ReadLockStep ==
  ASSUME MissionInv, ReadLock
  PROVE  MissionInv'
<1>1. /\ mission.at = "lock" /\ OnlyMission /\ UNCHANGED world
      /\ Round \in 1 .. 2
      /\ mission' = [mission EXCEPT !.at = "revision", !.reading[Round].lock = tree.lock]
  BY DEF ReadLock, At, Round
<1>2. /\ mission' = [at |-> "revision", reading |-> mission'.reading, check |-> mission.check,
                     sbom |-> mission.sbom, audit |-> mission.audit]
      /\ mission'.reading = [mission.reading EXCEPT ![Round].lock = tree.lock]
  BY <1>1 DEF MissionInv, MissionShape
<1>3. /\ mission'.reading = [i \in 1 .. 2 |-> mission'.reading[i]]
      /\ \A i \in 1 .. 2 : /\ IsReading(mission'.reading[i])
                           /\ mission'.reading[i].commit = mission.reading[i].commit
                           /\ mission'.reading[i].dirty = mission.reading[i].dirty
  BY <1>1, <1>2 DEF MissionInv, MissionShape, IsReading
<1>4. MissionShape'
  BY <1>1, <1>2, <1>3 DEF MissionInv, MissionShape, OnlyMission
<1>5. Watched' /\ Concluded'
  BY <1>1, <1>2, <1>3
     DEF MissionInv, Watched, Concluded, Unseen, Watching, InRound, FirstTree, world, At
<1> QED BY <1>1, <1>2, <1>4, <1>5, NothingMade DEF MissionInv, Made

LEMMA ReadRevisionStep ==
  ASSUME MissionInv, ReadRevision
  PROVE  MissionInv'
<1>1. /\ mission.at = "revision" /\ OnlyMission /\ UNCHANGED world
      /\ Round \in 1 .. 2 /\ (Round = 1 <=> mission.check = None)
      /\ mission' = [mission EXCEPT !.at = "status", !.reading[Round].commit = headId]
  BY DEF ReadRevision, At, Round
<1>2. /\ mission' = [at |-> "status", reading |-> mission'.reading, check |-> mission.check,
                     sbom |-> mission.sbom, audit |-> mission.audit]
      /\ mission'.reading = [mission.reading EXCEPT ![Round].commit = headId]
  BY <1>1 DEF MissionInv, MissionShape
<1>3. /\ mission'.reading = [i \in 1 .. 2 |-> mission'.reading[i]]
      /\ mission'.reading[Round].commit = headId
      /\ Round # 1 => mission'.reading[1] = mission.reading[1]
      /\ \A i \in 1 .. 2 : IsReading(mission'.reading[i])
  BY <1>1, <1>2 DEF MissionInv, MissionShape, IsReading
<1>4. MissionShape'
  BY <1>1, <1>2, <1>3 DEF MissionInv, MissionShape, OnlyMission
<1>5. Round' = Round
  BY <1>2 DEF Round
<1>6. Watched' /\ Concluded'
  BY <1>1, <1>2, <1>3, <1>5
     DEF MissionInv, Watched, Concluded, Unseen, Watching, InRound, FirstTree, world, At
<1> QED BY <1>1, <1>2, <1>4, <1>6, NothingMade DEF MissionInv, Made

\* The first status reading begins the watch, the second concludes it.
LEMMA ReadStatusStep ==
  ASSUME MissionInv, ReadStatus
  PROVE  MissionInv'
<1>1. /\ mission.at = "status" /\ OnlyMission /\ UNCHANGED <<tree, headId, blurred, changes>>
      /\ Round \in 1 .. 2 /\ (Round = 1 <=> mission.check = None)
      /\ passedBy' = IF Round = 1 THEN {tree} ELSE passedBy
      /\ mission' = [mission EXCEPT !.at = IF Round = 1 THEN "check" ELSE "sbom",
                       !.reading[Round].dirty = (tree # TreeOf[headId])]
  BY DEF ReadStatus, At, Round
<1>2. /\ mission' = [at |-> IF Round = 1 THEN "check" ELSE "sbom",
                     reading |-> mission'.reading, check |-> mission.check,
                     sbom |-> mission.sbom, audit |-> mission.audit]
      /\ mission'.reading = [mission.reading EXCEPT ![Round].dirty = (tree # TreeOf[headId])]
  BY <1>1 DEF MissionInv, MissionShape
<1>3. /\ mission'.reading = [i \in 1 .. 2 |-> mission'.reading[i]]
      /\ mission'.reading[Round].dirty = (tree # TreeOf[headId])
      /\ Round # 1 => mission'.reading[1] = mission.reading[1]
      /\ \A i \in 1 .. 2 : /\ IsReading(mission'.reading[i])
                           /\ mission'.reading[i].commit = mission.reading[i].commit
  BY <1>1, <1>2 DEF MissionInv, MissionShape, IsReading
<1>4. MissionShape'
  BY <1>1, <1>2, <1>3 DEF MissionInv, MissionShape, OnlyMission
<1>5. ~mission'.reading[Round].dirty /\ ~blurred =>
        tree = TreeOf[mission.reading[Round].commit]
  <2>1. ~blurred => headId = mission.reading[Round].commit
    BY <1>1 DEF MissionInv, Watched, At
  <2>2. ~mission'.reading[Round].dirty => tree = TreeOf[headId]
    BY <1>3, Zenon
  <2> QED BY <2>1, <2>2
<1>6. CASE Round = 1
  <2>1. mission'.at = "check" /\ mission'.check = None /\ passedBy' = {tree}
    BY <1>1, <1>2, <1>6
  <2>2. ~mission'.reading[1].dirty /\ ~blurred => tree = FirstTree'
    BY <1>3, <1>5, <1>6 DEF FirstTree
  <2>3. Watched' /\ Concluded'
    BY <1>1, <2>1, <2>2 DEF Watched, Concluded, Unseen, Watching, InRound, At
  <2> QED BY <1>1, <1>4, <2>1, <2>3, NothingMade DEF MissionInv, Made
<1>7. CASE Round = 2
  <2>1. mission'.at = "sbom" /\ passedBy' = passedBy
    BY <1>1, <1>2, <1>7
  <2>2. ~mission.reading[1].dirty /\ ~blurred /\ tree = FirstTree => passedBy = {FirstTree}
    BY <1>1, <1>7 DEF MissionInv, Watched, Watching, InRound
  <2>3. ASSUME SourceGate(mission'.reading[1], mission'.reading[2]) = "ACCEPT", ~blurred
        PROVE  passedBy = {TreeOf[mission'.reading[2].commit]}
    <3>1. /\ mission'.reading[1].commit = mission'.reading[2].commit
          /\ ~mission'.reading[1].dirty /\ ~mission'.reading[2].dirty
      BY <2>3 DEF SourceGate
    <3>2. tree = FirstTree /\ FirstTree = TreeOf[mission'.reading[2].commit]
      BY <1>3, <1>5, <1>7, <2>3, <3>1 DEF FirstTree
    <3> QED BY <1>3, <1>7, <2>2, <2>3, <3>1, <3>2
  <2>4. Watched' /\ Concluded'
    BY <1>1, <2>1, <2>3
       DEF Watched, Concluded, SourceHolds, SourceGate, Unseen, Watching, InRound, At
  <2> QED BY <1>1, <1>4, <2>1, <2>4, NothingMade DEF MissionInv, Made
<1> QED BY <1>1, <1>6, <1>7

LEMMA CheckStep ==
  ASSUME MissionInv, Check
  PROVE  MissionInv'
<1>1. PICK simulation \in {"ACCEPT", "REJECT"} :
        mission' = [mission EXCEPT !.at = "lock", !.check = simulation]
  BY DEF Check
<1>2. mission.at = "check" /\ OnlyMission /\ UNCHANGED world /\ simulation # None
  BY MissionAssumption DEF Check, At
<1>3. mission' = [at |-> "lock", reading |-> mission.reading, check |-> simulation,
                  sbom |-> mission.sbom, audit |-> mission.audit]
  BY <1>1 DEF MissionInv, MissionShape
<1>4. MissionShape'
  BY <1>2, <1>3 DEF MissionInv, MissionShape, OnlyMission, IsReading
<1>5. Watched' /\ Concluded'
  BY <1>2, <1>3
     DEF MissionInv, Watched, Concluded, Unseen, Watching, InRound, FirstTree, world, At
<1> QED BY <1>2, <1>3, <1>4, <1>5, NothingMade DEF MissionInv, Made

LEMMA ReadSbomStep ==
  ASSUME MissionInv, ReadSbom
  PROVE  MissionInv'
<1>1. PICK audit \in {"ACCEPT", "REJECT", "INCONCLUSIVE"} :
        mission' = [mission EXCEPT !.at = "create", !.sbom = tree.lock, !.audit = audit]
  BY DEF ReadSbom
<1>2. mission.at = "sbom" /\ OnlyMission /\ UNCHANGED world
  BY DEF ReadSbom, At
<1>3. mission' = [at |-> "create", reading |-> mission.reading, check |-> mission.check,
                  sbom |-> tree.lock, audit |-> audit]
  BY <1>1 DEF MissionInv, MissionShape
<1>4. MissionShape'
  BY <1>2, <1>3 DEF MissionInv, MissionShape, OnlyMission, IsReading
<1>5. Watched' /\ Concluded'
  BY <1>2, <1>3
     DEF MissionInv, Watched, Concluded, SourceHolds, SourceGate, Unseen, Watching, InRound,
         world, At
<1> QED BY <1>2, <1>3, <1>4, <1>5, NothingMade DEF MissionInv, Made

LEMMA StepFailsStep ==
  ASSUME MissionInv, StepFails
  PROVE  MissionInv'
<1>1. /\ mission.at \notin Made /\ OnlyMission /\ UNCHANGED world
      /\ mission' = [mission EXCEPT !.at = "blocked"]
  BY DEF StepFails, Blocked, Goes, OnlyMission, Made
<1>2. mission' = [at |-> "blocked", reading |-> mission.reading, check |-> mission.check,
                  sbom |-> mission.sbom, audit |-> mission.audit]
  BY <1>1 DEF MissionInv, MissionShape
<1>3. MissionShape'
  BY <1>1, <1>2 DEF MissionInv, MissionShape, OnlyMission, IsReading
<1>4. Watched' /\ Concluded'
  BY <1>2 DEF Watched, Concluded, Unseen, Watching, InRound, At
<1> QED BY <1>1, <1>2, <1>3, <1>4, NothingMade DEF MissionInv

-----------------------------------------------------------------------------
(* The bundle and its verification.                                        *)

\* Once there is a bundle, the readings and what they concluded stay.
LEMMA RunOver ==
  ASSUME MissionInv, UNCHANGED world, mission.at \in Made \cup {"create"},
         mission'.at \in Made,
         \E stage : mission' = [mission EXCEPT !.at = stage]
  PROVE  /\ mission' = [at |-> mission'.at, reading |-> mission.reading, check |-> mission.check,
                        sbom |-> mission.sbom, audit |-> mission.audit]
         /\ Watched' /\ Concluded'
<1>1. mission' = [at |-> mission'.at, reading |-> mission.reading, check |-> mission.check,
                  sbom |-> mission.sbom, audit |-> mission.audit]
  BY DEF MissionInv, MissionShape
<1> QED BY <1>1 DEF Watched, Concluded, Unseen, Watching, InRound, At, Made

LEMMA WithDomain ==
  ASSUME NEW fs, NEW name, NEW text
  PROVE  /\ DOMAIN With(fs, name, text) = DOMAIN fs \cup {name}
         /\ IsMap(With(fs, name, text))
BY DEF With, IsMap

LEMMA CreateBundleStep ==
  ASSUME MissionInv, CreateBundle
  PROVE  MissionInv'
<1>1. /\ mission.at = "create" /\ mission' = [mission EXCEPT !.at = "writing"]
      /\ created' = [artifacts |-> Artifacts,
                     manifest  |-> [source |-> mission.reading[2], artifacts |-> Artifacts,
                                    gates |-> Gates]]
      /\ UNCHANGED <<world, files, checking, verified>>
  BY DEF CreateBundle, At, Goes
<1>2. mission'.at = "writing"
  BY <1>1 DEF MissionInv, MissionShape
<1>3. MissionShape' /\ Watched' /\ Concluded'
  BY <1>1, <1>2, RunOver DEF MissionInv, MissionShape, IsReading, Made
<1>4. CreatedSound'
  <2>1. /\ created'.artifacts = Artifacts /\ created'.manifest.artifacts = Artifacts
        /\ created'.manifest.source = mission.reading[2]
        /\ created'.manifest.gates.source = SourceGate(mission.reading[1], mission.reading[2])
    BY <1>1 DEF Gates
  <2>2. IsMap(Artifacts)
    BY DEF Artifacts, IsMap
  <2>3. SourceHolds(mission.reading[1], mission.reading[2])
    BY <1>1 DEF MissionInv, Concluded
  <2> QED BY <1>1, <2>1, <2>2, <2>3 DEF CreatedSound, SourceHolds, SourceGate, world
<1>5. checking = None /\ verified = None
  BY <1>1 DEF MissionInv, BundleKnows, Made
<1> QED BY <1>1, <1>2, <1>3, <1>4, <1>5
        DEF MissionInv, BundleKnows, CheckingKnows, VerifiedEvidence, Made

\* While files are written, spoiled or removed, what was made is what was made.
LEMMA FilesChange ==
  ASSUME MissionInv, UNCHANGED <<created, checking, verified, blurred, passedBy>>,
         mission'.at \in Made, mission.at \in Made,
         mission.at = "writing" \/ DOMAIN files # {}
  PROVE  BundleKnows' /\ CheckingKnows' /\ VerifiedEvidence'
<1>1. CreatedSound /\ CreatedSound'
  BY DEF MissionInv, BundleKnows, CreatedSound
<1> QED BY <1>1 DEF MissionInv, BundleKnows, CheckingKnows, VerifiedEvidence

LEMMA WriteArtifactStep ==
  ASSUME MissionInv, WriteArtifact
  PROVE  MissionInv'
<1>0. PICK name \in ArtifactNames : files' = With(files, name, created.artifacts[name])
  BY DEF WriteArtifact
<1>1. /\ mission.at = "writing"
      /\ UNCHANGED <<world, mission, created, checking, verified>>
      /\ IsMap(files')
  BY <1>0, WithDomain DEF WriteArtifact, At
<1>2. MissionShape' /\ Watched' /\ Concluded'
  BY <1>1 DEF MissionInv, MissionShape, Watched, Concluded, SourceHolds, SourceGate, Unseen,
              Watching, InRound, At, IsReading
<1> QED BY <1>1, <1>2, FilesChange DEF MissionInv, Made, world

LEMMA WriteManifestStep ==
  ASSUME MissionInv, WriteManifest
  PROVE  MissionInv'
<1>1. /\ mission.at = "writing" /\ mission' = [mission EXCEPT !.at = "done"]
      /\ UNCHANGED <<world, created, checking, verified>>
      /\ IsMap(files')
  BY WithDomain DEF WriteManifest, At, Goes
<1>2. mission'.at = "done"
  BY <1>1 DEF MissionInv, MissionShape
<1>3. MissionShape' /\ Watched' /\ Concluded'
  BY <1>1, <1>2, RunOver DEF MissionInv, MissionShape, IsReading, Made
<1> QED BY <1>1, <1>2, <1>3, FilesChange DEF MissionInv, Made, world

LEMMA RunKilledStep ==
  ASSUME MissionInv, RunKilled
  PROVE  MissionInv'
<1>1. /\ mission.at = "writing" /\ mission' = [mission EXCEPT !.at = "blocked"]
      /\ UNCHANGED <<world, created, checking, verified>>
      /\ files' = files \/ \E name : files' = With(files, name, Spoiled)
  BY DEF RunKilled, At, Goes
<1>2. mission'.at = "blocked" /\ IsMap(files')
  <2>1. CASE files' = files
    BY <1>1, <2>1 DEF MissionInv, MissionShape, IsMap
  <2>2. CASE \E name : files' = With(files, name, Spoiled)
    <3>1. PICK name : files' = With(files, name, Spoiled)
      BY <2>2
    <3> QED BY <1>1, <3>1, WithDomain DEF MissionInv, MissionShape
  <2> QED BY <1>1, <2>1, <2>2
<1>3. MissionShape' /\ Watched' /\ Concluded'
  BY <1>1, <1>2, RunOver DEF MissionInv, MissionShape, IsReading, Made
<1> QED BY <1>1, <1>2, <1>3, FilesChange DEF MissionInv, Made, world

\* A verification changes neither the run nor the bundle.
LEMMA OnlyVerifies ==
  ASSUME MissionInv, UNCHANGED <<world, mission, files, created>>
  PROVE  /\ MissionShape' /\ Watched' /\ Concluded'
         /\ CreatedSound' <=> CreatedSound
         /\ mission.at \in Made => BundleKnows'
<1>1. MissionShape'
  BY DEF MissionInv, MissionShape, IsReading
<1>2. Watched' /\ Concluded'
  BY DEF MissionInv, Watched, Concluded, SourceHolds, SourceGate, Unseen, Watching, InRound,
         FirstTree, At, Round, world
<1>3. CreatedSound' <=> CreatedSound
  BY DEF CreatedSound, world
<1>4. mission.at \in Made => BundleKnows'
  BY <1>3 DEF MissionInv, BundleKnows
<1> QED BY <1>1, <1>2, <1>3, <1>4

LEMMA VerifyManifestStep ==
  ASSUME MissionInv, VerifyManifest
  PROVE  MissionInv'
<1>1. PICK trusted \in BOOLEAN :
        /\ trusted => files[ManifestName] = created.manifest
        /\ checking' = [manifest |-> files[ManifestName], trusted |-> trusted,
                        listed |-> FALSE, read |-> NoFiles]
  BY DEF VerifyManifest
<1>2. /\ ManifestName \in DOMAIN files /\ verified' = None
      /\ UNCHANGED <<world, mission, files, created>>
  BY DEF VerifyManifest
<1>3. CreatedSound /\ mission.at \in Made
  BY <1>2 DEF MissionInv, BundleKnows
<1>4. CheckingKnows'
  BY <1>1, <1>2, <1>3, OnlyVerifies DEF CheckingKnows, NoFiles, IsMap
<1> QED BY <1>2, <1>3, <1>4, OnlyVerifies DEF MissionInv, VerifiedEvidence

LEMMA VerifyNamesStep ==
  ASSUME MissionInv, VerifyNames
  PROVE  MissionInv'
<1>1. /\ checking # None /\ UNCHANGED <<world, mission, files, created, verified>>
      /\ checking' = None \/ checking' = [checking EXCEPT !.listed = TRUE]
  BY DEF VerifyNames
<1>2. mission.at \in Made
  BY <1>1 DEF MissionInv, BundleKnows
<1>3. CheckingKnows'
  <2>1. CASE checking' = None
    BY <2>1 DEF CheckingKnows
  <2>2. CASE checking' = [checking EXCEPT !.listed = TRUE]
    <3>1. checking' = [manifest |-> checking.manifest, trusted |-> checking.trusted,
                       listed |-> TRUE, read |-> checking.read]
      BY <1>1, <2>2 DEF MissionInv, CheckingKnows
    <3> QED BY <1>1, <3>1, OnlyVerifies DEF MissionInv, CheckingKnows, IsMap
  <2> QED BY <1>1, <2>1, <2>2
<1> QED BY <1>1, <1>2, <1>3, OnlyVerifies DEF MissionInv, VerifiedEvidence, world

LEMMA VerifyArtifactStep ==
  ASSUME MissionInv, VerifyArtifact
  PROVE  MissionInv'
<1>1. /\ checking # None /\ UNCHANGED <<world, mission, files, created, verified>>
      /\ \/ checking' = None
         \/ \E name \in DOMAIN checking.manifest.artifacts :
              /\ files[name] = checking.manifest.artifacts[name]
              /\ checking' = [checking EXCEPT !.read = With(@, name, files[name])]
  BY DEF VerifyArtifact, Matches
<1>2. mission.at \in Made
  BY <1>1 DEF MissionInv, BundleKnows
<1>3. ASSUME NEW name, files[name] = checking.manifest.artifacts[name],
             checking' = [checking EXCEPT !.read = With(@, name, files[name])]
      PROVE  CheckingKnows'
  <2>0. PICK grown : grown = With(checking.read, name, files[name])
    OBVIOUS
  <2>1. checking' = [manifest |-> checking.manifest, trusted |-> checking.trusted,
                     listed |-> checking.listed, read |-> grown]
    BY <1>1, <1>3, <2>0 DEF MissionInv, CheckingKnows
  <2>2. /\ IsMap(grown)
        /\ \A n \in DOMAIN grown : grown[n] = checking.manifest.artifacts[n]
    <3>1. /\ DOMAIN grown = DOMAIN checking.read \cup {name} /\ IsMap(grown)
          /\ grown[name] = files[name]
          /\ \A n \in DOMAIN checking.read : n # name => grown[n] = checking.read[n]
      BY <2>0 DEF With, IsMap
    <3>2. \A n \in DOMAIN checking.read : checking.read[n] = checking.manifest.artifacts[n]
      BY <1>1 DEF MissionInv, CheckingKnows
    <3> QED BY <1>3, <3>1, <3>2
  <2> QED BY <1>1, <2>1, <2>2, OnlyVerifies DEF MissionInv, CheckingKnows
<1>4. CheckingKnows'
  BY <1>1, <1>3 DEF CheckingKnows
<1> QED BY <1>1, <1>2, <1>4, OnlyVerifies DEF MissionInv, VerifiedEvidence, world

LEMMA VerifyDoneStep ==
  ASSUME MissionInv, VerifyDone
  PROVE  MissionInv'
<1>1. /\ checking # None /\ checking' = None
      /\ UNCHANGED <<world, mission, files, created>>
      /\ DOMAIN checking.read = DOMAIN checking.manifest.artifacts
      /\ verified'.integrityVerdict = "ACCEPT" => checking.trusted
      /\ verified'.manifest = checking.manifest /\ verified'.read = checking.read
  BY DEF VerifyDone
<1>2. mission.at \in Made
  BY <1>1 DEF MissionInv, BundleKnows
<1>3. ASSUME verified'.integrityVerdict = "ACCEPT"
      PROVE  /\ verified'.read = created.artifacts /\ verified'.manifest = created.manifest
             /\ CreatedSound
  <2>1. /\ CreatedSound /\ checking.manifest = created.manifest
        /\ IsMap(checking.read)
        /\ \A n \in DOMAIN checking.read : checking.read[n] = created.artifacts[n]
        /\ DOMAIN checking.read = DOMAIN created.artifacts
    BY <1>1, <1>3 DEF MissionInv, CheckingKnows, CreatedSound
  <2> QED BY <1>1, <2>1 DEF IsMap, CreatedSound
<1>4. VerifiedEvidence'
  BY <1>1, <1>3 DEF VerifiedEvidence, CreatedSound, world
<1> QED BY <1>1, <1>2, <1>4, OnlyVerifies DEF MissionInv, CheckingKnows

-----------------------------------------------------------------------------
(* The world.                                                              *)

\* A tree that comes and goes is noticed, or it blurs the readings.
LEMMA WorldMoves ==
  ASSUME MissionInv, NEW t, NEW committing,
         TreeBecomes(t), blurred' = (blurred \/ committing \/ Returns(t)),
         At("status") /\ ~committing => headId' = headId,
         committing => At("status"),
         UNCHANGED mission, OnlyMission
  PROVE  MissionInv'
<1>1. MissionShape'
  BY DEF MissionInv, MissionShape, OnlyMission, IsReading, IsMap
<1>2. ~blurred' => ~blurred /\ ~committing /\ ~Returns(t)
  OBVIOUS
<1>3. ASSUME Watching
      PROVE  /\ tree' \in passedBy'
             /\ ~mission.reading[1].dirty /\ ~blurred' =>
                  FirstTree \in passedBy' /\ (tree' = FirstTree => passedBy' = {FirstTree})
  <2>1. Observing /\ tree' = t /\ passedBy' = passedBy \cup {t} /\ tree \in passedBy
    BY <1>3 DEF MissionInv, Watched, Watching, InRound, Observing, TreeBecomes
  <2>2. ASSUME ~mission.reading[1].dirty, ~blurred'
        PROVE  FirstTree \in passedBy /\ (t = FirstTree => passedBy = {FirstTree})
    BY <1>2, <1>3, <2>1, <2>2 DEF MissionInv, Watched, Returns
  <2> QED BY <2>1, <2>2
<1>4. Unseen => passedBy' = {}
  BY DEF MissionInv, Watched, TreeBecomes, Observing
<1>5. Watched'
  BY <1>2, <1>3, <1>4
     DEF MissionInv, Watched, Unseen, Watching, InRound, FirstTree, At, Round
<1>6. ASSUME mission.at \in Made \cup {"sbom", "create"}
      PROVE  passedBy' = passedBy /\ (~blurred' <=> ~blurred)
  BY <1>6, <1>2 DEF TreeBecomes, Observing, Returns, At, Made
<1>7. Concluded'
  BY <1>6 DEF MissionInv, Concluded, SourceHolds, SourceGate
<1>8. CASE mission.at \in Made
  <2>1. CreatedSound' <=> CreatedSound
    BY <1>6, <1>8 DEF CreatedSound, OnlyMission
  <2> QED BY <1>1, <1>5, <1>6, <1>7, <1>8, <2>1
          DEF MissionInv, BundleKnows, CheckingKnows, VerifiedEvidence, OnlyMission
<1>9. CASE mission.at \notin Made
  BY <1>1, <1>5, <1>7, <1>9, NothingMade DEF MissionInv, Made
<1> QED BY <1>8, <1>9

LEMMA ChangeTreeStep ==
  ASSUME MissionInv, ChangeTree
  PROVE  MissionInv'
<1>1. PICK t \in Trees : TreeBecomes(t) /\ blurred' = (blurred \/ Returns(t))
  BY DEF ChangeTree
<1>2. blurred' = (blurred \/ FALSE \/ Returns(t))
  BY <1>1
<1>3. UNCHANGED <<headId, mission>> /\ OnlyMission
  BY DEF ChangeTree
<1> QED BY <1>1, <1>2, <1>3, WorldMoves

LEMMA MoveHeadStep ==
  ASSUME MissionInv, MoveHead
  PROVE  MissionInv'
<1>1. PICK t \in Trees : TreeBecomes(t) /\ blurred' = (blurred \/ At("status") \/ Returns(t))
  BY DEF MoveHead
<1>2. UNCHANGED mission /\ OnlyMission
  BY DEF MoveHead
<1> QED BY <1>1, <1>2, WorldMoves

LEMMA ChangeBundleStep ==
  ASSUME MissionInv, ChangeBundle
  PROVE  MissionInv'
<1>1. /\ files # NoFiles
      /\ UNCHANGED <<tree, headId, passedBy, blurred, mission, created, checking, verified>>
      /\ \/ \E name : files' = With(files, name, Spoiled)
         \/ \E name : files' = [n \in DOMAIN files \ {name} |-> files[n]]
         \/ files' = [files EXCEPT ![ManifestName].gates.source = "ACCEPT"]
  BY DEF ChangeBundle
<1>2. IsMap(files) /\ IsMap(files')
  <2>1. CASE \E name : files' = With(files, name, Spoiled)
    <3>1. PICK name : files' = With(files, name, Spoiled)
      BY <2>1
    <3> QED BY <3>1, WithDomain DEF MissionInv, MissionShape
  <2>2. CASE \E name : files' = [n \in DOMAIN files \ {name} |-> files[n]]
    <3>1. PICK name : files' = [n \in DOMAIN files \ {name} |-> files[n]]
      BY <2>2
    <3>2. IsMap(files)
      BY DEF MissionInv, MissionShape
    <3>3. DOMAIN files' = DOMAIN files \ {name}
      BY <3>1
    <3>4. IsMap(files')
      BY <3>1, <3>3 DEF IsMap
    <3> QED BY <3>2, <3>4
  <2>3. CASE files' = [files EXCEPT ![ManifestName].gates.source = "ACCEPT"]
    BY <2>3 DEF MissionInv, MissionShape, IsMap
  <2> QED BY <1>1, <2>1, <2>2, <2>3 DEF MissionInv, MissionShape
<1>3. DOMAIN files # {}
  BY <1>1, <1>2 DEF IsMap, NoFiles
<1>4. mission.at \in Made
  BY <1>3 DEF MissionInv, BundleKnows
<1>5. MissionShape' /\ Watched' /\ Concluded'
  BY <1>1, <1>2 DEF MissionInv, MissionShape, Watched, Concluded, SourceHolds, SourceGate, Unseen,
              Watching, InRound, FirstTree, At, Round, IsReading
<1> QED BY <1>1, <1>3, <1>4, <1>5, FilesChange DEF MissionInv

-----------------------------------------------------------------------------
LEMMA MissionInvHolds == MissionSpec => []MissionInv
<1>1. MissionInit => MissionInv
  BY DEF MissionInit, MissionInv, MissionShape, IsReading, IsMap, NoReading, NoFiles, Watched,
         Concluded, BundleKnows, CheckingKnows, VerifiedEvidence, Unseen, Watching, InRound, At,
         Made
<1>2. MissionInv /\ [MissionNext]_missionVars => MissionInv'
  <2> SUFFICES ASSUME MissionInv, [MissionNext]_missionVars
               PROVE  MissionInv'
    OBVIOUS
  <2>1. CASE MissionNext
    BY <2>1, PreflightStep, ReadLockStep, ReadRevisionStep, ReadStatusStep, CheckStep,
       ReadSbomStep, StepFailsStep, CreateBundleStep, WriteArtifactStep, WriteManifestStep,
       RunKilledStep, VerifyManifestStep, VerifyNamesStep, VerifyArtifactStep, VerifyDoneStep,
       ChangeTreeStep, MoveHeadStep, ChangeBundleStep
       DEF MissionNext
  <2>2. CASE UNCHANGED missionVars
    <3>1. CheckingKnows' /\ VerifiedEvidence' /\ BundleKnows'
      BY <2>2 DEF missionVars, world, MissionInv, CheckingKnows, VerifiedEvidence, BundleKnows,
                  CreatedSound
    <3> QED BY <2>2, <3>1, OnlyVerifies DEF missionVars, MissionInv
  <2> QED BY <2>1, <2>2
<1> QED BY <1>1, <1>2, PTL DEF MissionSpec

\* Evidence accepted under the digest its run returned was read whole and as it
\* was made; and when its source gate accepts, the check ran on nothing but the
\* tree of the commit it names, unless the tree or HEAD moved between readings
\* in a way they cannot show (main and verifyEvidenceBundle).
THEOREM VerifiedEvidenceCorrect == MissionSpec => []VerifiedEvidence
BY MissionInvHolds, PTL DEF MissionInv

-----------------------------------------------------------------------------
(* Greatest and least numbers.                                             *)

LEMMA MaxIs ==
  ASSUME NEW S \in SUBSET Int, NEW x \in S, \A y \in S : y =< x
  PROVE  Max(S) = x
<1>1. Max(S) \in S /\ \A y \in S : y =< Max(S)
  BY DEF Max
<1>2. Max(S) \in Int /\ x \in Int
  BY <1>1
<1> QED
  BY <1>1, <1>2

LEMMA MaxOfFinite ==
  ASSUME NEW S \in SUBSET Int, IsFiniteSet(S), S # {}
  PROVE  Max(S) \in S /\ \A y \in S : y =< Max(S)
<1> DEFINE C == {V \in SUBSET S : V # {} => \E x \in V : \A y \in V : y =< x}
<1>1. ASSUME NEW V \in SUBSET S, \A x \in V : V \ {x} \in C PROVE V \in C
  <2> SUFFICES ASSUME V # {} PROVE \E x \in V : \A y \in V : y =< x
    OBVIOUS
  <2>1. PICK v \in V : TRUE
    OBVIOUS
  <2>2. CASE V \ {v} = {}
    BY <2>1, <2>2
  <2>3. CASE V \ {v} # {}
    <3>1. PICK x \in V \ {v} : \A y \in V \ {v} : y =< x
      BY <1>1, <2>1, <2>3
    <3>2. x \in Int /\ v \in Int /\ \A y \in V : y \in Int
      BY <2>1
    <3>3. CASE v =< x
      BY <3>1, <3>2, <3>3
    <3>4. CASE ~ (v =< x)
      <4>1. \A y \in V : y =< v
        BY <3>1, <3>2, <3>4
      <4> QED
        BY <2>1, <4>1
    <3> QED
      BY <3>3, <3>4
  <2> QED
    BY <2>2, <2>3
<1>2. C = SUBSET S
  <2>1. C \in SUBSET (SUBSET S)
    OBVIOUS
  <2> HIDE DEF C
  <2> QED
    BY <1>1, <2>1, SubsetInduction
<1>3. S \in C
  <2> HIDE DEF C
  <2> QED
    BY <1>2
<1>4. PICK x \in S : \A y \in S : y =< x
  BY <1>3
<1> QED
  BY <1>4, MaxIs

\* A concatenation holds the elements of both parts.
LEMMA ConcatParts ==
  ASSUME NEW S, NEW s \in Seq(S), NEW t \in Seq(S)
  PROVE  /\ s \o t \in Seq(S)
         /\ ToSet(s) \subseteq ToSet(s \o t)
         /\ ToSet(t) \subseteq ToSet(s \o t)
<1>1. /\ s \o t \in Seq(S) /\ DOMAIN (s \o t) = 1 .. Len(s) + Len(t)
      /\ DOMAIN s = 1 .. Len(s) /\ DOMAIN t = 1 .. Len(t)
      /\ Len(s) \in Nat /\ Len(t) \in Nat
  OBVIOUS
<1>2. \A i \in 1 .. Len(s) + Len(t) : (s \o t)[i] = IF i =< Len(s) THEN s[i] ELSE t[i - Len(s)]
  BY ConcatProperties
<1>3. ASSUME NEW i \in DOMAIN s PROVE i \in DOMAIN (s \o t) /\ (s \o t)[i] = s[i]
  BY <1>1, <1>2
<1>4. ASSUME NEW i \in DOMAIN t
      PROVE  i + Len(s) \in DOMAIN (s \o t) /\ (s \o t)[i + Len(s)] = t[i]
  <2>1. i + Len(s) \in 1 .. Len(s) + Len(t) /\ ~ (i + Len(s) =< Len(s)) /\ (i + Len(s)) - Len(s) = i
    BY <1>1
  <2> QED
    BY <2>1, <1>1, <1>2
<1> QED
  BY <1>1, <1>3, <1>4 DEF ToSet

\* The recursion of FlattenSeq, as an equation between functions.
Flattens(seqs, f) ==
  f = [i \in 1 .. Len(seqs) |-> IF i = 1 THEN seqs[i] ELSE f[i - 1] \o seqs[i]]

\* The equation has a solution: it is built up one sequence at a time.
LEMMA FlattenExists ==
  ASSUME NEW S, NEW seqs \in Seq(Seq(S))
  PROVE  \E f : Flattens(seqs, f)
<1> DEFINE Solved(k, g) ==
             \A i \in 1 .. k : g[i] = IF i = 1 THEN seqs[i] ELSE g[i - 1] \o seqs[i]
           N == {k \in Nat : \E g : g = [i \in 1 .. k |-> g[i]] /\ Solved(k, g)}
<1>1. 0 \in N
  <2>1. <<>> = [i \in 1 .. 0 |-> <<>>[i]] /\ Solved(0, <<>>)
    OBVIOUS
  <2> QED
    BY <2>1
<1>2. ASSUME NEW k \in N PROVE k + 1 \in N
  <2>1. PICK g : g = [i \in 1 .. k |-> g[i]] /\ Solved(k, g)
    OBVIOUS
  <2> DEFINE h == [i \in 1 .. k + 1 |-> IF i =< k THEN g[i]
                     ELSE IF i = 1 THEN seqs[i] ELSE g[i - 1] \o seqs[i]]
  <2>2. k \in Nat
    OBVIOUS
  <2>3. ASSUME NEW i \in 1 .. k + 1
        PROVE  h[i] = IF i = 1 THEN seqs[i] ELSE h[i - 1] \o seqs[i]
    <3>1. CASE i =< k
      <4>1. i \in 1 .. k /\ (i # 1 => i - 1 \in 1 .. k + 1 /\ i - 1 =< k)
        BY <2>2, <3>1
      <4>2. h[i] = g[i] /\ (i # 1 => h[i - 1] = g[i - 1])
        BY <4>1
      <4> QED
        BY <4>1, <4>2, <2>1
    <3>2. CASE ~ (i =< k)
      <4>1. i # 1 => i - 1 \in 1 .. k + 1 /\ i - 1 =< k
        BY <2>2, <3>2
      <4>2. i # 1 => h[i - 1] = g[i - 1]
        BY <4>1
      <4> QED
        BY <4>2, <3>2
    <3> QED
      BY <3>1, <3>2
  <2>4. h = [i \in 1 .. k + 1 |-> h[i]]
    OBVIOUS
  <2>5. h = [i \in 1 .. k + 1 |-> h[i]] /\ Solved(k + 1, h)
    <3> HIDE DEF h
    <3> QED
      BY <2>3, <2>4
  <2> HIDE DEF h, Solved
  <2> QED
    BY <2>2, <2>5
<1>3. N = Nat
  <2>1. N \in SUBSET Nat
    OBVIOUS
  <2> HIDE DEF N
  <2> QED
    BY <1>1, <1>2, <2>1, NatSetInduction
<1>4. PICK g : g = [i \in 1 .. Len(seqs) |-> g[i]] /\ Solved(Len(seqs), g)
  <2>1. Len(seqs) \in N
    <3> HIDE DEF N
    <3> QED
      BY <1>3
  <2> QED
    BY <2>1
<1> QED
  BY <1>4 DEF Flattens

\* FlattenSeq joins the sequences of a sequence: it holds every element of each
\* of them.
LEMMA FlattenHolds ==
  ASSUME NEW S, NEW seqs \in Seq(Seq(S)), seqs # <<>>
  PROVE  /\ FlattenSeq(seqs) \in Seq(S)
         /\ \A i \in DOMAIN seqs : ToSet(seqs[i]) \subseteq ToSet(FlattenSeq(seqs))
<1> DEFINE n == Len(seqs)
           f == CHOOSE g : Flattens(seqs, g)
<1>1. n \in Nat \ {0} /\ DOMAIN seqs = 1 .. n /\ \A i \in 1 .. n : seqs[i] \in Seq(S)
  OBVIOUS
<1>2. FlattenSeq(seqs) = f[n]
  BY <1>1 DEF FlattenSeq, Flattens
<1>3. Flattens(seqs, f)
  BY FlattenExists
<1> HIDE DEF f
<1>4. \A i \in 1 .. n : f[i] = IF i = 1 THEN seqs[i] ELSE f[i - 1] \o seqs[i]
  BY <1>3 DEF Flattens
<1> DEFINE Joins(m) == /\ f[m] \in Seq(S)
                       /\ \A i \in 1 .. m : ToSet(seqs[i]) \subseteq ToSet(f[m])
           N == {m \in Nat : m + 1 =< n => Joins(m + 1)}
<1>5. 0 \in N
  BY <1>1, <1>4
<1>6. ASSUME NEW m \in N PROVE m + 1 \in N
  <2> SUFFICES ASSUME m + 2 =< n PROVE Joins(m + 2)
    <3>1. m \in Nat /\ (m + 1) + 1 = m + 2
      OBVIOUS
    <3> HIDE DEF Joins
    <3> QED
      BY <3>1
  <2>1. m \in Nat /\ Joins(m + 1)
    BY <1>1
  <2>2. f[m + 2] = f[m + 1] \o seqs[m + 2]
    <3>1. m + 2 \in 1 .. n /\ m + 2 # 1 /\ (m + 2) - 1 = m + 1
      BY <2>1, <1>1
    <3> QED
      BY <3>1, <1>4
  <2>3. seqs[m + 2] \in Seq(S)
    BY <1>1, <2>1
  <2>4. /\ f[m + 2] \in Seq(S)
        /\ ToSet(f[m + 1]) \subseteq ToSet(f[m + 2])
        /\ ToSet(seqs[m + 2]) \subseteq ToSet(f[m + 2])
    BY <2>1, <2>2, <2>3, ConcatParts
  <2>5. ASSUME NEW i \in 1 .. m + 2 PROVE ToSet(seqs[i]) \subseteq ToSet(f[m + 2])
    <3>1. CASE i = m + 2
      BY <2>4, <3>1
    <3>2. CASE i # m + 2
      <4>1. i \in 1 .. m + 1
        BY <2>1, <3>2
      <4> QED
        BY <2>1, <2>4, <4>1
    <3> QED
      BY <3>1, <3>2
  <2> QED
    BY <2>4, <2>5
<1>7. N = Nat
  <2>1. N \in SUBSET Nat
    OBVIOUS
  <2> HIDE DEF N
  <2> QED
    BY <1>5, <1>6, <2>1, NatSetInduction
<1>8. Joins(n)
  <2>1. n - 1 \in N
    <3> HIDE DEF N
    <3> QED
      BY <1>1, <1>7
  <2>2. (n - 1) + 1 = n
    BY <1>1
  <2> QED
    BY <2>1, <2>2, <1>1
<1> QED
  BY <1>1, <1>2, <1>8

-----------------------------------------------------------------------------
(* The automerge guard, for every set of versions, diffs and protected     *)
(* paths, any page size and any number of changes of the pull request.     *)
(*                                                                         *)
(* The strengthening says that the pages read are those of the version the *)
(* guard expects as long as the pull request shows it and never came back  *)
(* to it (PagesHold): since the second reading shows that version, what    *)
(* was read between is its whole diff.                                     *)

File == [name : STRING, previous : STRING \cup {NoPath}]

Reading == {"pages", "second"}

\* The files in question of a diff are of no one's but the author's.
Unprotected(diff) ==
  \A file \in diff :
    /\ ~ProtectedPath(file.name)
    /\ file.previous # NoPath => ~ProtectedPath(file.previous)

\* Of the files listed, those before position n are on some page.
PagesHold(pages, listed, n) ==
  \A j \in DOMAIN listed : j =< n => \E i \in DOMAIN pages : listed[j] \in ToSet(pages[i])

GuardInv ==
  /\ version \in Versions
  /\ guard = [at |-> guard.at, expected |-> guard.expected, first |-> guard.first,
              pages |-> guard.pages]
  /\ guard.pages \in Seq(Seq(File))
  /\ guard.at \notin {"waiting", "done"} => guard.expected \in Versions
  /\ guard.at \in {"waiting", "first"} => guard.pages = <<>>
  /\ guard.at \in Reading /\ ~cameBack /\ version = guard.expected =>
       /\ PagesHold(guard.pages, FilesOf[version], Len(guard.pages) * PageSize)
       /\ guard.at = "second" => Len(FilesOf[version]) =< Len(guard.pages) * PageSize
  /\ eligible => guard.at = "done"
  /\ EligibleIsOneHead

LEMMA LesserOfTwo ==
  ASSUME NEW a \in Int, NEW b \in Int
  PROVE  Min({a, b}) = IF a =< b THEN a ELSE b
<1>1. \E x \in {a, b} : \A y \in {a, b} : x =< y
  OBVIOUS
<1>2. Min({a, b}) \in {a, b} /\ \A y \in {a, b} : Min({a, b}) =< y
  BY <1>1 DEF Min
<1> QED
  BY <1>2

LEMMA ListedIs ==
  ASSUME NEW v \in Versions
  PROVE  FilesOf[v] \in Seq(File) /\ DOMAIN FilesOf[v] = 1 .. Len(FilesOf[v])
<1>1. FilesOf[v] \in Seq(File)
  BY GuardAssumption DEF GuardAssumption, File
<1> QED
  BY <1>1

\* One more page of what is listed holds one more page of its files.
LEMMA PageHolds ==
  ASSUME NEW pages \in Seq(Seq(File)), NEW listed \in Seq(File)
  PROVE  LET from == Len(pages) * PageSize
             page == SubSeq(listed, from + 1, Min({from + PageSize, Len(listed)}))
         IN  /\ from \in Nat
             /\ page \in Seq(File)
             /\ Append(pages, page) \in Seq(Seq(File))
             /\ Len(Append(pages, page)) * PageSize = from + PageSize
             /\ PagesHold(pages, listed, from) =>
                  PagesHold(Append(pages, page), listed, from + PageSize)
<1> DEFINE from == Len(pages) * PageSize
           to   == Min({from + PageSize, Len(listed)})
           page == SubSeq(listed, from + 1, to)
<1>1. PageSize \in Nat \ {0} /\ Len(pages) \in Nat /\ Len(listed) \in Nat
  BY GuardAssumption DEF GuardAssumption
<1>2. from \in Nat
  BY <1>1
<1>3. (Len(pages) + 1) * PageSize = from + PageSize
  BY <1>1
<1> HIDE DEF from
<1>4. /\ to \in Int /\ to =< Len(listed) /\ to =< from + PageSize
      /\ \A j \in 1 .. Len(listed) : j =< from + PageSize => j =< to
  <2>1. from + PageSize \in Int /\ Len(listed) \in Int
    BY <1>1, <1>2
  <2>2. to = IF from + PageSize =< Len(listed) THEN from + PageSize ELSE Len(listed)
    BY <2>1, LesserOfTwo
  <2> HIDE DEF to
  <2> QED
    BY <1>1, <1>2, <2>2
<1> HIDE DEF to
<1>5. \A i \in from + 1 .. to : listed[i] \in File
  BY <1>1, <1>2, <1>4
<1>6. /\ page \in Seq(File)
      /\ Len(page) = IF from + 1 =< to THEN to - (from + 1) + 1 ELSE 0
      /\ \A i \in 1 .. to - (from + 1) + 1 : page[i] = listed[(from + 1) + i - 1]
  <2>1. from + 1 \in Int
    BY <1>2
  <2> QED
    BY <1>4, <1>5, <2>1, SubSeqProperties
<1> HIDE DEF page
<1>7. /\ Append(pages, page) \in Seq(Seq(File))
      /\ Len(Append(pages, page)) = Len(pages) + 1
      /\ \A i \in 1 .. Len(pages) : Append(pages, page)[i] = pages[i]
      /\ Append(pages, page)[Len(pages) + 1] = page
  BY <1>6, AppendProperties
<1>8. ASSUME PagesHold(pages, listed, from), NEW j \in DOMAIN listed, j =< from + PageSize
      PROVE  \E i \in DOMAIN Append(pages, page) : listed[j] \in ToSet(Append(pages, page)[i])
  <2>0. j \in 1 .. Len(listed) /\ DOMAIN Append(pages, page) = 1 .. Len(pages) + 1
    BY <1>7
  <2>1. CASE j =< from
    <3>1. PICK i \in DOMAIN pages : listed[j] \in ToSet(pages[i])
      BY <1>8, <2>1 DEF PagesHold
    <3>2. i \in 1 .. Len(pages) /\ i \in 1 .. Len(pages) + 1
      BY <1>1
    <3> QED
      BY <3>1, <3>2, <2>0, <1>7
  <2>2. CASE ~ (j =< from)
    <3>1. j - from \in 1 .. to - (from + 1) + 1 /\ from + 1 =< to
      BY <2>0, <2>2, <1>1, <1>2, <1>4, <1>8
    <3>2. page[j - from] = listed[j] /\ j - from \in DOMAIN page
      <4>1. (from + 1) + (j - from) - 1 = j /\ DOMAIN page = 1 .. Len(page)
        BY <1>2, <2>0, <1>6
      <4> QED
        BY <3>1, <4>1, <1>6
    <3>3. listed[j] \in ToSet(page)
      BY <3>2 DEF ToSet
    <3>4. Len(pages) + 1 \in 1 .. Len(pages) + 1
      BY <1>1
    <3> QED
      BY <3>3, <3>4, <2>0, <1>7
  <2> QED
    BY <2>1, <2>2
<1>9. PagesHold(pages, listed, from) => PagesHold(Append(pages, page), listed, from + PageSize)
  BY <1>8 DEF PagesHold
<1>10. Len(Append(pages, page)) * PageSize = from + PageSize
  BY <1>3, <1>7
<1> QED
  BY <1>2, <1>6, <1>7, <1>9, <1>10 DEF from, to, page

\* A step that decides against the version, or leaves the guard alone, keeps
\* what is known.
LEMMA DecidedStep ==
  ASSUME GuardInv, Decided(FALSE)
  PROVE  GuardInv'
<1>1. guard' = [guard EXCEPT !.at = "done"] /\ eligible' = FALSE /\ UNCHANGED pullRequest
  BY DEF Decided
<1>2. /\ guard'.at = "done" /\ guard'.pages = guard.pages
      /\ guard' = [at |-> guard'.at, expected |-> guard'.expected, first |-> guard'.first,
                   pages |-> guard'.pages]
  BY <1>1 DEF GuardInv
<1> QED
  BY <1>1, <1>2 DEF GuardInv, EligibleIsOneHead, pullRequest, Reading

LEMMA ReceiveStep ==
  ASSUME GuardInv, Receive
  PROVE  GuardInv'
<1>1. PICK expected \in Versions :
        guard' = [guard EXCEPT !.at = "first", !.expected = expected]
  BY DEF Receive
<1>2. guard.at = "waiting" /\ UNCHANGED <<pullRequest, eligible>> /\ ~eligible
  BY DEF Receive, GuardInv
<1>3. /\ guard'.at = "first" /\ guard'.pages = guard.pages /\ guard'.expected = expected
      /\ guard' = [at |-> guard'.at, expected |-> guard'.expected, first |-> guard'.first,
                   pages |-> guard'.pages]
  BY <1>1 DEF GuardInv
<1> QED
  BY <1>2, <1>3 DEF GuardInv, EligibleIsOneHead, pullRequest, Reading

LEMMA ReadFirstStep ==
  ASSUME GuardInv, ReadFirst
  PROVE  GuardInv'
<1>1. CASE ValidSnapshot(Snapshot, guard.expected)
  <2>1. /\ guard' = [guard EXCEPT !.at = "pages", !.first = Snapshot]
        /\ UNCHANGED <<pullRequest, eligible>> /\ guard.at = "first" /\ ~eligible
    BY <1>1 DEF ReadFirst, GuardInv
  <2>2. /\ guard'.at = "pages" /\ guard'.pages = <<>> /\ guard'.expected = guard.expected
        /\ guard' = [at |-> guard'.at, expected |-> guard'.expected, first |-> guard'.first,
                     pages |-> guard'.pages]
        /\ guard'.pages \in Seq(Seq(File)) /\ guard.expected \in Versions
    BY <2>1 DEF GuardInv
  <2>3. PagesHold(<<>>, FilesOf[version], Len(<<>>) * PageSize)
    <3>1. Len(<<>>) * PageSize = 0
      BY GuardAssumption DEF GuardAssumption
    <3>2. \A j \in DOMAIN FilesOf[version] : ~ (j =< 0)
      <4>1. version \in Versions
        BY DEF GuardInv
      <4> QED
        BY <4>1, ListedIs
    <3> QED
      BY <3>1, <3>2 DEF PagesHold
  <2> QED
    BY <2>1, <2>2, <2>3 DEF GuardInv, EligibleIsOneHead, pullRequest, Reading
<1>2. CASE ~ValidSnapshot(Snapshot, guard.expected)
  BY <1>2, DecidedStep DEF ReadFirst
<1> QED
  BY <1>1, <1>2

LEMMA ReadPageStep ==
  ASSUME GuardInv, ReadPage
  PROVE  GuardInv'
<1> DEFINE listed == FilesOf[version]
           from   == Len(guard.pages) * PageSize
           page   == SubSeq(listed, from + 1, Min({from + PageSize, Len(listed)}))
<1>1. /\ guard.at = "pages"
      /\ guard' = [guard EXCEPT !.pages = Append(@, page),
                     !.at = IF Len(listed) > from + PageSize THEN @ ELSE "second"]
      /\ UNCHANGED <<pullRequest, eligible>>
  BY DEF ReadPage
<1>2. version \in Versions /\ guard.pages \in Seq(Seq(File)) /\ ~eligible
  BY <1>1 DEF GuardInv
<1>3. listed \in Seq(File) /\ Len(listed) \in Nat /\ PageSize \in Nat
  BY <1>2, ListedIs, GuardAssumption DEF GuardAssumption
<1>4. /\ from \in Nat
      /\ Append(guard.pages, page) \in Seq(Seq(File))
      /\ Len(Append(guard.pages, page)) * PageSize = from + PageSize
      /\ PagesHold(guard.pages, listed, from) =>
           PagesHold(Append(guard.pages, page), listed, from + PageSize)
  BY <1>2, <1>3, PageHolds
<1>5. /\ guard'.pages = Append(guard.pages, page) /\ guard'.expected = guard.expected
      /\ guard'.at = IF Len(listed) > from + PageSize THEN "pages" ELSE "second"
      /\ guard' = [at |-> guard'.at, expected |-> guard'.expected, first |-> guard'.first,
                   pages |-> guard'.pages]
  BY <1>1 DEF GuardInv
<1>6. version' = version /\ cameBack' = cameBack /\ eligible' = eligible
  BY <1>1 DEF pullRequest
<1> HIDE DEF page, from
<1>7. guard'.at \in {"pages", "second"}
      /\ (guard'.at = "second" => Len(listed) =< from + PageSize)
  BY <1>3, <1>4, <1>5
<1>8. ~cameBack /\ version = guard.expected => PagesHold(guard.pages, listed, from)
  BY <1>1 DEF GuardInv, Reading, from
<1>9. guard.expected \in Versions
  BY <1>1 DEF GuardInv
<1> QED
  BY <1>2, <1>4, <1>5, <1>6, <1>7, <1>8, <1>9 DEF GuardInv, EligibleIsOneHead, Reading

LEMMA ReadSecondStep ==
  ASSUME GuardInv, ReadSecond
  PROVE  GuardInv'
<1> DEFINE result == EvaluateGuard(guard.expected, guard.first, guard.pages, Snapshot)
<1>1. guard.at = "second" /\ Decided(result)
  BY DEF ReadSecond
<1>2. CASE result = FALSE
  BY <1>1, <1>2, DecidedStep
<1>3. CASE result
  <2>1. /\ guard' = [guard EXCEPT !.at = "done"] /\ UNCHANGED <<version, cameBack>>
    BY <1>1 DEF Decided, pullRequest
  <2>2. /\ guard'.at = "done" /\ guard'.pages = guard.pages /\ guard'.expected = guard.expected
        /\ guard' = [at |-> guard'.at, expected |-> guard'.expected, first |-> guard'.first,
                     pages |-> guard'.pages]
    BY <2>1 DEF GuardInv
  <2>3. version = guard.expected /\ version \in Versions
    BY <1>3 DEF EvaluateGuard, SameReading, ValidSnapshot, Snapshot, GuardInv
  <2>4. ASSUME ~cameBack PROVE Unprotected(ToSet(FilesOf[version]))
    <3>1. /\ PagesHold(guard.pages, FilesOf[version], Len(guard.pages) * PageSize)
          /\ Len(FilesOf[version]) =< Len(guard.pages) * PageSize
          /\ guard.pages \in Seq(Seq(File))
      BY <1>1, <2>3, <2>4 DEF GuardInv, Reading
    <3>2. Unprotected(ToSet(FlattenSeq(guard.pages))) /\ guard.pages # <<>>
      BY <1>3 DEF EvaluateGuard, Unprotected, FullPages
    <3>3. ASSUME NEW file \in ToSet(FilesOf[version])
          PROVE  file \in ToSet(FlattenSeq(guard.pages))
      <4>1. PICK j \in DOMAIN FilesOf[version] : file = FilesOf[version][j]
        BY DEF ToSet
      <4>2. j =< Len(guard.pages) * PageSize
        <5>1. /\ j \in 1 .. Len(FilesOf[version]) /\ Len(FilesOf[version]) \in Nat
              /\ Len(guard.pages) \in Nat /\ PageSize \in Nat
          BY <2>3, <3>1, ListedIs, GuardAssumption DEF GuardAssumption
        <5>2. Len(guard.pages) * PageSize \in Nat
          BY <5>1
        <5> QED
          BY <5>1, <5>2, <3>1
      <4>3. PICK i \in DOMAIN guard.pages : file \in ToSet(guard.pages[i])
        BY <4>1, <4>2, <3>1 DEF PagesHold
      <4> QED
        BY <4>3, <3>1, <3>2, FlattenHolds
    <3> QED
      BY <3>2, <3>3 DEF Unprotected
  <2> QED
    BY <2>1, <2>2, <2>3, <2>4 DEF GuardInv, EligibleIsOneHead, Unprotected, Reading
<1>4. result \in BOOLEAN
  BY DEF EvaluateGuard
<1> QED
  BY <1>2, <1>3, <1>4

LEMMA PushStep ==
  ASSUME GuardInv, Push \/ Relabel
  PROVE  GuardInv'
<1>1. CASE Push
  <2>1. /\ version' \in Versions \ {version} /\ UNCHANGED <<guard, eligible>>
        /\ cameBack' = (cameBack \/ (guard.at \in Reading /\ version' = guard.expected))
    BY <1>1 DEF Push, Reading
  <2>2. eligible /\ ~cameBack' => ~cameBack
    BY <2>1
  <2>3. ~ (guard'.at \in Reading /\ ~cameBack' /\ version' = guard'.expected)
    BY <2>1
  <2> QED
    BY <2>1, <2>2, <2>3 DEF GuardInv, EligibleIsOneHead
<1>2. CASE Relabel
  BY <1>2 DEF Relabel, GuardInv, EligibleIsOneHead
<1> QED
  BY <1>1, <1>2

LEMMA GuardInvHolds == GuardSpec => []GuardInv
<1>1. GuardInit => GuardInv
  <2> SUFFICES ASSUME GuardInit PROVE GuardInv
    OBVIOUS
  <2>1. /\ guard.at = "waiting" /\ guard.pages = <<>> /\ eligible = FALSE
        /\ version \in Versions
        /\ guard = [at |-> guard.at, expected |-> guard.expected, first |-> guard.first,
                    pages |-> guard.pages]
    BY DEF GuardInit
  <2> QED
    BY <2>1 DEF GuardInv, EligibleIsOneHead, Reading
<1>2. GuardInv /\ [GuardNext]_guardVars => GuardInv'
  <2> SUFFICES ASSUME GuardInv, [GuardNext]_guardVars PROVE GuardInv'
    OBVIOUS
  <2>1. CASE ApiFails
    BY <2>1, DecidedStep DEF ApiFails
  <2>2. CASE UNCHANGED guardVars
    BY <2>2 DEF guardVars, pullRequest, GuardInv, EligibleIsOneHead
  <2> QED
    BY <2>1, <2>2, ReceiveStep, ReadFirstStep, ReadPageStep, ReadSecondStep, PushStep
       DEF GuardNext
<1> QED
  BY <1>1, <1>2, PTL DEF GuardSpec

\* Whoever pushes, retargets or relabels between the three readings, a version
\* called eligible has no protected path in its whole diff, unless it was
\* replaced during the readings and restored (inspectPullRequest, evaluateGuard).
THEOREM EligibleIsOneHeadCorrect == GuardSpec => []EligibleIsOneHead
<1>1. GuardInv => EligibleIsOneHead
  BY DEF GuardInv
<1> QED
  BY <1>1, GuardInvHolds, PTL

-----------------------------------------------------------------------------
(* The slots, for every list of hours, every date to start from and any    *)
(* number of hours.                                                        *)
(*                                                                         *)
(* The strengthening is the property and the validity of the date: that    *)
(* the slot due follows the clock hour by hour (NextSlot) needs the day    *)
(* before the day after to be the day itself (DayBeforeAfter).             *)

LEMMA MonthsEnd ==
  ASSUME NEW year \in Int, NEW month \in Int
  PROVE  DaysIn(year, month) \in 28 .. 31 /\ (month \in {1, 12} => DaysIn(year, month) = 31)
<1>1. CASE month \in {4, 6, 9, 11}
  BY <1>1 DEF DaysIn
<1>2. CASE month = 2
  BY <1>2 DEF DaysIn
<1>3. CASE month \notin {2, 4, 6, 9, 11}
  BY <1>3 DEF DaysIn
<1> QED
  BY <1>1, <1>2, <1>3

\* The calendar: the day before the day after is the day itself.
LEMMA DayBeforeAfter ==
  ASSUME NEW date, ValidDate(date)
  PROVE  ValidDate(DayAfter(date)) /\ DayBefore(DayAfter(date)) = date
<1> DEFINE y == date.year  m == date.month  d == date.day
<1>1. /\ date = [year |-> y, month |-> m, day |-> d]
      /\ y \in Int /\ m \in 1 .. 12 /\ d \in 1 .. DaysIn(y, m)
  BY DEF ValidDate, Date
<1> HIDE DEF y, m, d
<1>2. CASE d < DaysIn(y, m)
  <2>1. DayAfter(date) = [year |-> y, month |-> m, day |-> d + 1]
    BY <1>1, <1>2 DEF DayAfter
  <2>2. d + 1 \in 1 .. DaysIn(y, m) /\ d + 1 > 1 /\ (d + 1) - 1 = d
    BY <1>1, <1>2, MonthsEnd
  <2> QED
    BY <1>1, <2>1, <2>2 DEF ValidDate, Date, DayBefore
<1>3. CASE ~ (d < DaysIn(y, m)) /\ m < 12
  <2>1. DayAfter(date) = [year |-> y, month |-> m + 1, day |-> 1]
    BY <1>1, <1>3 DEF DayAfter, Date
  <2>2. /\ m + 1 \in 1 .. 12 /\ m + 1 > 1 /\ (m + 1) - 1 = m
        /\ 1 \in 1 .. DaysIn(y, m + 1) /\ d = DaysIn(y, m)
    BY <1>1, <1>3, MonthsEnd
  <2> QED
    BY <1>1, <2>1, <2>2 DEF ValidDate, Date, DayBefore
<1>4. CASE ~ (d < DaysIn(y, m)) /\ ~ (m < 12)
  <2>1. DayAfter(date) = [year |-> y + 1, month |-> 1, day |-> 1]
    BY <1>1, <1>4 DEF DayAfter, Date
  <2>2. m = 12 /\ d = 31 /\ y + 1 \in Int /\ (y + 1) - 1 = y /\ 1 \in 1 .. DaysIn(y + 1, 1)
    BY <1>1, <1>4, MonthsEnd
  <2> QED
    BY <1>1, <2>1, <2>2 DEF ValidDate, Date, DayBefore
<1> QED
  BY <1>2, <1>3, <1>4

\* In an ascending list of whole numbers from 0 on, no place exceeds its number.
LEMMA AscendingGrows ==
  ASSUME NEW hours \in Seq(Int), OfOneDay(hours)
  PROVE  Len(hours) =< 24
<1> DEFINE N == {k \in Nat : k + 1 \in DOMAIN hours => hours[k + 1] >= k}
<1>1. Len(hours) \in Nat /\ DOMAIN hours = 1 .. Len(hours)
  OBVIOUS
<1>A1. ASSUME NEW i \in 1 .. Len(hours)
      PROVE  hours[i] \in Int /\ 0 =< hours[i] /\ hours[i] =< 23
  <2>1. hours[i] \in 0 .. 23
    BY <1>1 DEF OfOneDay, ToSet
  <2> DEFINE x == hours[i]
  <2> HIDE DEF x
  <2>2. x \in 0 .. 23 => x \in Int /\ 0 =< x /\ x =< 23
    OBVIOUS
  <2> QED
    BY <2>1, <2>2 DEF x
<1>A2. \A i, j \in 1 .. Len(hours) : i < j => hours[i] < hours[j]
  BY <1>1 DEF OfOneDay
<1>2. 0 \in N
  BY <1>1, <1>A1
<1>3. ASSUME NEW k \in N PROVE k + 1 \in N
  <2> SUFFICES ASSUME (k + 1) + 1 \in DOMAIN hours PROVE hours[(k + 1) + 1] >= k + 1
    OBVIOUS
  <2>1. k + 1 \in 1 .. Len(hours) /\ (k + 1) + 1 \in 1 .. Len(hours) /\ k \in Nat
    BY <1>1, <1>A1, <1>A2
  <2>2. hours[k + 1] >= k /\ hours[k + 1] < hours[(k + 1) + 1]
    BY <1>1, <1>A1, <1>A2, <2>1
  <2> QED
    BY <1>1, <1>A1, <1>A2, <2>1, <2>2
<1>4. N = Nat
  <2>1. N \in SUBSET Nat
    OBVIOUS
  <2> HIDE DEF N
  <2> QED
    BY <1>2, <1>3, <2>1, NatSetInduction
<1>5. CASE Len(hours) = 0
  BY <1>5
<1>6. CASE Len(hours) # 0
  <2>1. Len(hours) - 1 \in Nat /\ (Len(hours) - 1) + 1 = Len(hours)
    BY <1>1, <1>6
  <2>2. Len(hours) - 1 \in N
    <3> HIDE DEF N
    <3> QED
      BY <1>4, <2>1
  <2>3. Len(hours) \in DOMAIN hours /\ Len(hours) \in 1 .. Len(hours)
    BY <1>1, <1>6
  <2>4. hours[Len(hours)] >= Len(hours) - 1
    BY <2>1, <2>2, <2>3
  <2>5. hours[Len(hours)] \in Int /\ hours[Len(hours)] =< 23
    BY <2>3, <1>A1
  <2> QED
    BY <1>1, <2>4, <2>5
<1> QED
  BY <1>5, <1>6

\* What scheduledHours accepts: it compares neighbours only.
LEMMA HoursOfOneDay ==
  ASSUME NEW hours \in Seq(Int), hours # <<>>
  PROVE  ScheduledHours(hours) <=> OfOneDay(hours)
<1>1. /\ Len(hours) \in Nat \ {0} /\ DOMAIN hours = 1 .. Len(hours)
      /\ \A i \in 1 .. Len(hours) : hours[i] \in Int
  OBVIOUS
<1>2. ASSUME OfOneDay(hours) PROVE ScheduledHours(hours)
  <2>1. Len(hours) =< 24
    BY <1>2, AscendingGrows
  <2>2. \A i \in DOMAIN hours : hours[i] \in 0 .. 23
    BY <1>2 DEF OfOneDay, ToSet
  <2>3. ASSUME NEW i \in DOMAIN hours, i > 1 PROVE hours[i - 1] < hours[i]
    BY <1>1, <1>2, <2>3 DEF OfOneDay
  <2> QED
    <3>1. Len(hours) \in 1 .. 24
      <4>1. ASSUME NEW n \in Nat \ {0}, n =< 24 PROVE n \in 1 .. 24
        BY <4>1
      <4> QED
        BY <1>1, <2>1, <4>1
    <3> QED
      BY <3>1, <2>2, <2>3 DEF ScheduledHours
<1>3. ASSUME ScheduledHours(hours) PROVE OfOneDay(hours)
  <2>1. \A i \in 1 .. Len(hours) : hours[i] \in 0 .. 23 /\ (i > 1 => hours[i - 1] < hours[i])
    BY <1>1, <1>3 DEF ScheduledHours
  <2> DEFINE N == {k \in Nat : \A i \in 1 .. Len(hours) :
                     i + k + 1 =< Len(hours) => hours[i] < hours[i + k + 1]}
  <2>2. 0 \in N
    <3>1. ASSUME NEW i \in 1 .. Len(hours), i + 0 + 1 =< Len(hours)
          PROVE  hours[i] < hours[i + 0 + 1]
      <4>1. i + 1 \in 1 .. Len(hours) /\ i + 1 > 1 /\ (i + 1) - 1 = i /\ i + 0 + 1 = i + 1
        BY <1>1, <3>1
      <4> QED
        BY <2>1, <4>1
    <3> QED
      BY <3>1
  <2>3. ASSUME NEW k \in N PROVE k + 1 \in N
    <3>1. ASSUME NEW i \in 1 .. Len(hours), i + (k + 1) + 1 =< Len(hours)
          PROVE  hours[i] < hours[i + (k + 1) + 1]
      <4>1. /\ k \in Nat /\ i + k + 1 =< Len(hours) /\ i + k + 1 \in 1 .. Len(hours)
            /\ i + (k + 1) + 1 \in 1 .. Len(hours)
            /\ i + (k + 1) + 1 > 1 /\ (i + (k + 1) + 1) - 1 = i + k + 1
        BY <1>1, <3>1
      <4>2. hours[i] < hours[i + k + 1]
        BY <4>1
      <4>3. hours[i + k + 1] < hours[i + (k + 1) + 1]
        BY <2>1, <4>1
      <4> QED
        BY <1>1, <4>1, <4>2, <4>3
    <3> QED
      BY <3>1
  <2>4. N = Nat
    <3>1. N \in SUBSET Nat
      OBVIOUS
    <3> HIDE DEF N
    <3> QED
      BY <2>2, <2>3, <3>1, NatSetInduction
  <2>5. ASSUME NEW i \in 1 .. Len(hours), NEW j \in 1 .. Len(hours), i < j
        PROVE  hours[i] < hours[j]
    <3>1. j - i - 1 \in Nat /\ i + (j - i - 1) + 1 = j /\ j =< Len(hours)
      BY <1>1, <2>5
    <3>2. j - i - 1 \in N
      BY <2>4, <3>1
    <3> QED
      BY <3>1, <3>2
  <2> QED
    BY <1>1, <2>1, <2>5 DEF OfOneDay, ToSet
<1> QED
  BY <1>2, <1>3

Slot(date, hour) == [date |-> date, hour |-> hour]

\* Hour by hour, the slot due stays until the clock shows the next one.
LEMMA NextSlot ==
  ASSUME NEW hours \in Seq(Int), ScheduledHours(hours),
         NEW date, ValidDate(date), NEW hour \in 0 .. 23
  PROVE  LET next == NextHour(Slot(date, hour))
         IN  CycleSlot(hours, next.date, next.hour) =
               IF next.hour \in ToSet(hours) THEN next ELSE CycleSlot(hours, date, hour)
<1> DEFINE n == Len(hours)
<1>1. n \in Nat \ {0} /\ DOMAIN hours = 1 .. n /\ hours # <<>>
  <2>1. Len(hours) \in 1 .. 24
    BY DEF ScheduledHours
  <2>2. Len(hours) # 0
    BY <2>1
  <2> QED
    BY <2>2
<1>2. /\ \A i \in 1 .. n : hours[i] \in Int /\ 0 =< hours[i] /\ hours[i] =< 23
      /\ \A i, j \in 1 .. n : i < j => hours[i] < hours[j]
  <2>1. OfOneDay(hours)
    BY <1>1, HoursOfOneDay
  <2>2. \A i \in 1 .. n : hours[i] \in 0 .. 23
    BY <1>1, <2>1 DEF OfOneDay, ToSet
  <2>3. ASSUME NEW x \in 0 .. 23 PROVE x \in Int /\ 0 =< x /\ x =< 23
    OBVIOUS
  <2> QED
    BY <1>1, <2>1, <2>2, <2>3 DEF OfOneDay
<1> DEFINE Due(h) == {i \in DOMAIN hours : hours[i] =< h}
<1>3. \A d, h : CycleSlot(hours, d, h) =
        IF Due(h) # {} THEN Slot(d, hours[Max(Due(h))]) ELSE Slot(DayBefore(d), hours[n])
  BY <1>1 DEF CycleSlot, Slot, Last
<1> HIDE DEF n
<1>4. ASSUME NEW i \in 1 .. n PROVE Due(hours[i]) # {} /\ Max(Due(hours[i])) = i
  <2>1. i \in Due(hours[i]) /\ Due(hours[i]) \in SUBSET Int
    BY <1>1, <1>2
  <2>2. \A j \in Due(hours[i]) : j =< i
    BY <1>1, <1>2
  <2> HIDE DEF Due
  <2> QED
    BY <2>1, <2>2, MaxIs
<1>5. CASE hour < 23
  <2>1. NextHour(Slot(date, hour)) = Slot(date, hour + 1)
    BY <1>5 DEF NextHour, Slot
  <2>2. CASE hour + 1 \in ToSet(hours)
    <3>1. PICK i \in 1 .. n : hours[i] = hour + 1
      BY <1>1, <2>2 DEF ToSet
    <3>2. CycleSlot(hours, date, hour + 1) = Slot(date, hour + 1)
      <4>1. Due(hour + 1) # {} /\ hours[Max(Due(hour + 1))] = hour + 1
        BY <1>4, <3>1
      <4> HIDE DEF Due
      <4> QED
        BY <1>3, <4>1
    <3> QED
      BY <2>1, <2>2, <3>2 DEF Slot
  <2>3. CASE hour + 1 \notin ToSet(hours)
    <3>1. Due(hour + 1) = Due(hour)
      <4>1. \A i \in 1 .. n : hours[i] # hour + 1
        BY <1>1, <2>3 DEF ToSet
      <4>2. ASSUME NEW i \in 1 .. n PROVE hours[i] =< hour + 1 <=> hours[i] =< hour
        <5>1. hours[i] \in Int /\ hour \in Int /\ hours[i] # hour + 1
          BY <4>1, <1>2
        <5> QED
          BY <5>1
      <4> QED
        BY <1>1, <4>2
    <3> HIDE DEF Due
    <3> QED
      BY <1>3, <2>1, <2>3, <3>1 DEF Slot
  <2> QED
    BY <2>2, <2>3
<1>6. CASE hour = 23
  <2>1. NextHour(Slot(date, hour)) = Slot(DayAfter(date), 0)
    BY <1>6 DEF NextHour, Slot
  <2>2. CASE 0 \in ToSet(hours)
    <3>1. PICK i \in 1 .. n : hours[i] = 0
      BY <1>1, <2>2 DEF ToSet
    <3>2. CycleSlot(hours, DayAfter(date), 0) = Slot(DayAfter(date), 0)
      <4>1. Due(0) # {} /\ hours[Max(Due(0))] = 0
        BY <1>4, <3>1
      <4> HIDE DEF Due
      <4> QED
        BY <1>3, <4>1
    <3> QED
      BY <2>1, <2>2, <3>2 DEF Slot
  <2>3. CASE 0 \notin ToSet(hours)
    <3>1. Due(0) = {}
      <4>1. \A i \in 1 .. n : hours[i] # 0
        BY <1>1, <2>3 DEF ToSet
      <4>2. ASSUME NEW i \in 1 .. n PROVE ~ (hours[i] =< 0)
        <5>1. hours[i] \in Int /\ 0 =< hours[i] /\ hours[i] # 0
          BY <4>1, <1>2
        <5> QED
          BY <5>1
      <4> QED
        BY <1>1, <4>2
    <3>2. Due(hour) # {} /\ Max(Due(hour)) = n
      <4>0. n \in 1 .. n /\ hours[n] =< hour
        <5>1. n \in 1 .. n
          BY <1>1
        <5>2. hours[n] \in Int /\ hours[n] =< 23
          BY <5>1, <1>2
        <5> QED
          BY <5>1, <5>2, <1>6
      <4>1. n \in Due(hour) /\ Due(hour) \in SUBSET Int /\ \A j \in Due(hour) : j =< n
        BY <1>1, <4>0
      <4> HIDE DEF Due
      <4> QED
        BY <4>1, MaxIs
    <3>3. DayBefore(DayAfter(date)) = date
      BY DayBeforeAfter
    <3> HIDE DEF Due
    <3> QED
      BY <1>3, <2>1, <2>3, <3>1, <3>2, <3>3 DEF Slot
  <2> QED
    BY <2>2, <2>3
<1> QED
  BY <1>5, <1>6

SlotInv ==
  /\ dailyHours \in Seq(Int)
  /\ ValidDate(localDay) /\ localHour \in 0 .. 23
  /\ SlotFollowsClock

\* The clock shows an hour of a day after an hour of a day.
LEMMA NextIsValid ==
  ASSUME NEW date, ValidDate(date), NEW hour \in 0 .. 23
  PROVE  LET next == NextHour(Slot(date, hour))
         IN  /\ next = Slot(next.date, next.hour)
             /\ ValidDate(next.date) /\ next.hour \in 0 .. 23
             /\ next.hour # 0 => next.date = date
<1>1. CASE hour < 23
  <2>1. NextHour(Slot(date, hour)) = Slot(date, hour + 1) /\ hour + 1 \in 0 .. 23
    BY <1>1 DEF NextHour, Slot
  <2> QED
    BY <2>1 DEF Slot
<1>2. CASE hour = 23
  <2>1. NextHour(Slot(date, hour)) = Slot(DayAfter(date), 0)
    BY <1>2 DEF NextHour, Slot
  <2> QED
    BY <2>1, DayBeforeAfter DEF Slot
<1> QED
  BY <1>1, <1>2

\* One or two hours shown, one after the other: the slot due follows them.
LEMMA ShownFollowed ==
  ASSUME SlotInv, NEW shown,
         LET one == NextHour(Clock)  two == NextHour(one)
         IN  shown \in {<<one>>, <<one, two>>},
         dailyHours' = dailyHours,
         localDay' = Last(shown).date, localHour' = Last(shown).hour,
         passed' = PassedBy(shown)
  PROVE  SlotInv'
<1> DEFINE one == NextHour(Clock)
           two == NextHour(one)
           last == Last(shown)
           Due(at) == CycleSlot(dailyHours, at.date, at.hour)
           Passes(at) == at.hour \in ToSet(dailyHours)
<1>1. /\ Clock = Slot(localDay, localHour) /\ dailyHours \in Seq(Int)
      /\ ValidDate(localDay) /\ localHour \in 0 .. 23
  BY DEF SlotInv, Clock, Slot
<1>2. /\ one = Slot(one.date, one.hour) /\ ValidDate(one.date) /\ one.hour \in 0 .. 23
      /\ one.hour # 0 => one.date = localDay
  BY <1>1, NextIsValid
<1> HIDE DEF one
<1>3. /\ two = Slot(two.date, two.hour) /\ ValidDate(two.date) /\ two.hour \in 0 .. 23
      /\ two.hour # 0 => two.date = one.date
  <2>1. two = NextHour(Slot(one.date, one.hour))
    BY <1>2
  <2> HIDE DEF two
  <2> QED
    BY <1>2, <2>1, NextIsValid
<1> HIDE DEF two
<1>4. \/ shown = <<one>> /\ last = one /\ DOMAIN shown = {1} /\ shown[1] = one
      \/ /\ shown = <<one, two>> /\ last = two /\ DOMAIN shown = {1, 2}
         /\ shown[1] = one /\ shown[2] = two
  <2>1. shown = <<one>> \/ shown = <<one, two>>
    BY DEF one, two
  <2>2. Len(<<one>>) = 1 /\ Len(<<one, two>>) = 2
    OBVIOUS
  <2> QED
    BY <2>1, <2>2 DEF Last
<1>5. ValidDate(last.date) /\ last.hour \in 0 .. 23
  BY <1>2, <1>3, <1>4
<1>6. ASSUME NEW S \in SUBSET DOMAIN shown
      PROVE  S # {} => shown[Max(S)] = IF 2 \in S THEN two ELSE one
  <2>1. \A i \in S : i = 1 \/ i = 2
    BY <1>4
  <2>2. CASE 2 \in S
    <3>1. Max(S) = 2
      BY <2>1, <2>2, MaxIs
    <3> QED
      BY <1>4, <2>2, <3>1
  <2>3. CASE S # {} /\ 2 \notin S
    <3>1. Max(S) = 1
      <4>1. S = {1}
        BY <2>1, <2>3
      <4>2. 1 \in S /\ S \in SUBSET Int /\ \A y \in S : y =< 1
        BY <4>1
      <4> QED
        BY <4>2, MaxIs
    <3> QED
      BY <1>4, <2>3, <3>1
  <2> QED
    BY <2>2, <2>3
<1>7. CASE dailyHours = <<>>
  <2>1. PassedBy(shown) = LET days == {i \in DOMAIN shown : shown[i].hour = 0}
                          IN  IF days = {} THEN passed
                              ELSE [date |-> shown[Max(days)].date, hour |-> NoHour]
    BY <1>7 DEF PassedBy
  <2>2. \A date, hour : CycleSlot(dailyHours, date, hour) = [date |-> date, hour |-> NoHour]
    BY <1>7 DEF CycleSlot
  <2>3. OfOneDay(dailyHours)
    BY <1>7 DEF OfOneDay, ToSet
  <2>4. passed # NoSlot => passed = [date |-> localDay, hour |-> NoHour]
    BY <2>2, <2>3 DEF SlotInv, SlotFollowsClock
  <2> DEFINE days == {i \in DOMAIN shown : shown[i].hour = 0}
  <2>5. CASE days = {}
    <3>1. last.date = localDay /\ passed' = passed
      BY <1>2, <1>3, <1>4, <2>1, <2>5
    <3> QED
      BY <1>1, <1>5, <2>2, <2>3, <2>4, <3>1 DEF SlotInv, SlotFollowsClock
  <2>6. CASE days # {}
    <3>1. shown[Max(days)].date = last.date
      <4>1. CASE 2 \in days
        BY <4>1, <1>4, <1>6
      <4>2. CASE 2 \notin days
        <5>1. shown[Max(days)] = one
          BY <2>6, <4>2, <1>6
        <5>2. last.date = one.date
          BY <4>2, <1>3, <1>4
        <5> QED
          BY <5>1, <5>2
      <4> QED
        BY <4>1, <4>2
    <3>2. passed' = [date |-> last.date, hour |-> NoHour]
      BY <2>1, <2>6, <3>1
    <3> QED
      BY <1>1, <1>5, <2>2, <2>3, <3>2 DEF SlotInv, SlotFollowsClock
  <2> QED
    BY <2>5, <2>6
<1>8. CASE dailyHours # <<>> /\ ~ScheduledHours(dailyHours)
  <2>1. ~OfOneDay(dailyHours) /\ \A date, hour : CycleSlot(dailyHours, date, hour) = NoSlot
    BY <1>1, <1>8, HoursOfOneDay DEF CycleSlot
  <2> QED
    BY <1>1, <1>5, <2>1 DEF SlotInv, SlotFollowsClock
<1>9. CASE dailyHours # <<>> /\ ScheduledHours(dailyHours)
  <2> DEFINE slots == {i \in DOMAIN shown : Passes(shown[i])}
  <2>1. /\ Due(one) = IF Passes(one) THEN one ELSE CycleSlot(dailyHours, localDay, localHour)
        /\ Due(two) = IF Passes(two) THEN two ELSE Due(one)
    <3>1. Due(one) = IF Passes(one) THEN one ELSE CycleSlot(dailyHours, localDay, localHour)
      BY <1>1, <1>9, NextSlot DEF one
    <3>2. Due(two) = IF Passes(two) THEN two ELSE Due(one)
      BY <1>1, <1>2, <1>9, NextSlot DEF two
    <3> QED
      BY <3>1, <3>2
  <2>2. OfOneDay(dailyHours)
    BY <1>1, <1>9, HoursOfOneDay
  <2>3. passed' = IF slots = {} THEN passed ELSE shown[Max(slots)]
    BY <1>9 DEF PassedBy
  <2>4. passed # NoSlot => CycleSlot(dailyHours, localDay, localHour) = passed
    BY <2>2 DEF SlotInv, SlotFollowsClock
  <2>5. slots # {} => Due(last) = shown[Max(slots)]
    <3>1. slots # {} => shown[Max(slots)] = IF 2 \in slots THEN two ELSE one
      BY <1>6
    <3> HIDE DEF Due, Passes
    <3>2. slots # {} => Due(last) = IF 2 \in slots THEN two ELSE one
      BY <1>4, <2>1
    <3> QED
      BY <3>1, <3>2
  <2>6. slots = {} => Due(last) = CycleSlot(dailyHours, localDay, localHour)
    <3> HIDE DEF Due, Passes
    <3> QED
      BY <1>4, <2>1
  <2>7. passed' # NoSlot => Due(last) = passed'
    BY <2>3, <2>4, <2>5, <2>6
  <2> QED
    BY <1>1, <1>5, <2>2, <2>7 DEF SlotInv, SlotFollowsClock
<1> QED
  BY <1>7, <1>8, <1>9

LEMMA SlotInvHolds == ScheduleSpec => []SlotInv
<1>1. ScheduleInit => SlotInv
  BY ScheduleAssumption DEF ScheduleInit, SlotInv, SlotFollowsClock, ScheduleAssumption
<1>2. SlotInv /\ [ScheduleNext]_scheduleVars => SlotInv'
  <2> SUFFICES ASSUME SlotInv, [ScheduleNext]_scheduleVars PROVE SlotInv'
    OBVIOUS
  <2>1. CASE Tick
    BY <2>1, ShownFollowed DEF Tick, Run
  <2>2. CASE SpringForward
    BY <2>2, ShownFollowed DEF SpringForward, Run
  <2>3. CASE FallBack \/ UNCHANGED scheduleVars
    BY <2>3 DEF FallBack, scheduleVars, SlotInv, SlotFollowsClock
  <2> QED
    BY <2>1, <2>2, <2>3 DEF ScheduleNext
<1> QED
  BY <1>1, <1>2, PTL DEF ScheduleSpec

\* The slot due is the last one the local clock has passed, over hours skipped
\* and repeated and over every end of a month, and a list of hours is served
\* exactly if it is one of a day in its order (cycleSlot, scheduledHours).
THEOREM SlotFollowsClockCorrect == ScheduleSpec => []SlotFollowsClock
<1>1. SlotInv => SlotFollowsClock
  BY DEF SlotInv
<1> QED
  BY <1>1, SlotInvHolds, PTL

-----------------------------------------------------------------------------
(* The ledger, for every set of nights, of rows and any number of appends. *)
(*                                                                         *)
(* The strengthening counts the commands that have emptied the file and    *)
(* hold rows of it (Rich).  With none of them the file holds every night,  *)
(* with one it is that command that does, and a state with more rows than  *)
(* that is Doomed: some command in it can only end in a way that is not    *)
(* calm, so that it is never settled.                                      *)

GoodRows == {row \in Rows : Acceptable(row)}
Sound(lines) == lines = <<>> \/ (lines \in Seq(Line) /\ lines # <<>> /\ lines[1] = Header)

\* The lines hold these rows, in order, and nothing else.
Kept(lines, rows) ==
  \/ lines = <<>> /\ rows = <<>>
  \/ /\ lines \in Seq(Line) /\ Len(lines) = Len(rows) + 1 /\ lines[1] = Header
     /\ \A i \in DOMAIN rows : lines[i + 1] = RenderRow(rows[i])

\* The command has emptied the file and holds rows of it.
Rich(night) ==
  appending[night] # Idle /\ appending[night].opened /\ Len(appending[night].lines) > 1

Quiet == (\A night \in Nights : ~Rich(night)) /\ Kept(ledger, appended)
Carried ==
  /\ ledger = <<>>
  /\ \E night \in Nights :
       /\ \A other \in Nights : Rich(other) <=> other = night
       /\ Kept(appending[night].lines, appended)
Doomed ==
  \E night \in Nights :
    Rich(night) /\ (Len(ledger) > 1 \/ \E other \in Nights \ {night} : Rich(other))

Command(c) ==
  /\ c = [row |-> c.row, lines |-> c.lines, opened |-> c.opened]
  /\ c.row \in GoodRows /\ Sound(c.lines) /\ c.opened \in BOOLEAN

LedgerInv ==
  /\ Sound(ledger) /\ appended \in Seq(GoodRows)
  /\ appending = [night \in Nights |-> appending[night]]
  /\ \A night \in Nights : appending[night] # Idle => Command(appending[night])
  /\ appended = <<>> =>
       /\ Len(ledger) =< 1
       /\ \A night \in Nights : appending[night] # Idle => Len(appending[night].lines) =< 1
  /\ calm => Quiet \/ Carried \/ Doomed

Word == [word : STRING, slash : BOOLEAN]

\* Escaping keeps the words of a text; a text of one word stays as it is.
LEMMA EscapeCellIs ==
  ASSUME NEW text, IsText(text)
  PROVE  /\ EscapeCell(text) \in Seq(Word) /\ Len(EscapeCell(text)) = Len(text)
         /\ Len(text) \in Nat \ {0} /\ EscapeCell(text)[1].word = text[1].word
         /\ Len(text) = 1 => EscapeCell(text) = <<text[1]>> /\ text = <<text[1]>>
<1>1. /\ text \in Seq([word : STRING, slash : {FALSE}]) /\ Len(text) \in Nat \ {0}
      /\ DOMAIN text = 1 .. Len(text)
  BY DEF IsText
<1>2. ASSUME NEW i \in DOMAIN text
      PROVE  /\ [text[i] EXCEPT !.slash = i < Len(text)] \in Word
             /\ [text[i] EXCEPT !.slash = i < Len(text)].word = text[i].word
             /\ Len(text) = 1 => [text[i] EXCEPT !.slash = i < Len(text)] = text[i]
  <2>1. text[i] \in [word : STRING, slash : {FALSE}] /\ i \in 1 .. Len(text)
    BY <1>1, ElementOfSeq
  <2>2. (i < Len(text)) \in BOOLEAN /\ (Len(text) = 1 => (i < Len(text)) = FALSE)
    BY <2>1, <1>1
  <2> QED
    BY <2>1, <2>2 DEF Word
<1>3. EscapeCell(text) = [i \in 1 .. Len(text) |-> [text[i] EXCEPT !.slash = i < Len(text)]]
  BY <1>1 DEF EscapeCell
<1>4. EscapeCell(text) \in Seq(Word) /\ Len(EscapeCell(text)) = Len(text)
  BY <1>1, <1>2, <1>3
<1>5. 1 \in 1 .. Len(text) /\ EscapeCell(text)[1].word = text[1].word
  BY <1>1, <1>2, <1>3
<1>6. ASSUME Len(text) = 1 PROVE EscapeCell(text) = <<text[1]>> /\ text = <<text[1]>>
  <2>1. EscapeCell(text)[1] = text[1]
    BY <1>1, <1>2, <1>3, <1>5, <1>6
  <2> QED
    BY <2>1, <1>1, <1>4, <1>6
<1> QED
  BY <1>1, <1>4, <1>5, <1>6

LEMMA FiveWords ==
  ASSUME NEW S, NEW a \in S, NEW b \in S, NEW c \in S, NEW d \in S, NEW e \in S
  PROVE  LET s == (((<<a>> \o <<b>>) \o <<c>>) \o <<d>>) \o <<e>>
         IN  Len(s) = 5 /\ s[1] = a /\ s[2] = b /\ s[3] = c /\ s[4] = d /\ s[5] = e
<1>1. ASSUME NEW s \in Seq(S), NEW w \in S
      PROVE  /\ s \o <<w>> \in Seq(S) /\ Len(s \o <<w>>) = Len(s) + 1
             /\ \A i \in 1 .. Len(s) : (s \o <<w>>)[i] = s[i]
             /\ (s \o <<w>>)[Len(s) + 1] = w
  <2>1. s \o <<w>> = Append(s, w)
    BY AppendIsConcat
  <2> QED
    BY <2>1, AppendProperties
<1> DEFINE s1 == <<a>>
           s2 == s1 \o <<b>>
           s3 == s2 \o <<c>>
           s4 == s3 \o <<d>>
           s5 == s4 \o <<e>>
           Adds(s, t, w) == /\ t \in Seq(S) /\ Len(t) = Len(s) + 1
                            /\ \A i \in 1 .. Len(s) : t[i] = s[i]
                            /\ t[Len(s) + 1] = w
<1>2. s1 \in Seq(S) /\ Len(s1) = 1 /\ s1[1] = a
  OBVIOUS
<1> HIDE DEF s1
<1>3. Adds(s1, s2, b)
  BY <1>1, <1>2
<1> HIDE DEF s2
<1>4. s2 \in Seq(S) /\ Len(s2) = 2 /\ s2[1] = a /\ s2[2] = b
  BY <1>2, <1>3
<1>5. Adds(s2, s3, c)
  BY <1>1, <1>4
<1> HIDE DEF s3
<1>6. s3 \in Seq(S) /\ Len(s3) = 3 /\ s3[1] = a /\ s3[2] = b /\ s3[3] = c
  BY <1>4, <1>5
<1>7. Adds(s3, s4, d)
  BY <1>1, <1>6
<1> HIDE DEF s4
<1>8. /\ s4 \in Seq(S) /\ Len(s4) = 4 /\ s4[1] = a /\ s4[2] = b /\ s4[3] = c
      /\ s4[4] = d
  BY <1>6, <1>7
<1>9. Adds(s4, s5, e)
  BY <1>1, <1>8
<1> HIDE DEF s5
<1>10. Len(s5) = 5 /\ s5[1] = a /\ s5[2] = b /\ s5[3] = c /\ s5[4] = d /\ s5[5] = e
  BY <1>8, <1>9
<1> QED
  BY <1>10 DEF s1, s2, s3, s4, s5

LEMMA RowIs ==
  ASSUME NEW row \in Rows
  PROVE  /\ row = [date |-> row.date, finding |-> row.finding, pr |-> row.pr,
                   evaluated |-> row.evaluated, verdict |-> row.verdict]
         /\ IsText(row.date) /\ IsText(row.finding) /\ IsText(row.pr)
         /\ IsText(row.evaluated) /\ IsText(row.verdict)
<1>1. /\ DOMAIN row = {"date", "finding", "pr", "evaluated", "verdict"}
      /\ row = [column \in DOMAIN row |-> row[column]]
      /\ \A column \in DOMAIN row : IsText(row[column])
  BY LedgerAssumption DEF LedgerAssumption
<1> QED
  BY <1>1

\* A row is read back as it was given if it has no pipe, and its date names the
\* same day in any case.
LEMMA ReadsBack ==
  ASSUME NEW row \in Rows
  PROVE  /\ RenderRow(row) \in Seq(Word)
         /\ CellsToRow(RenderRow(row)).date[1].word = row.date[1].word
         /\ Unpiped(row) => CellsToRow(RenderRow(row)) = row
<1> DEFINE a == EscapeCell(row.date)  b == EscapeCell(row.finding)  c == EscapeCell(row.pr)
           d == EscapeCell(row.evaluated)  e == EscapeCell(row.verdict)
<1>1. a \in Seq(Word) /\ b \in Seq(Word) /\ c \in Seq(Word) /\ d \in Seq(Word) /\ e \in Seq(Word)
  BY RowIs, EscapeCellIs
<1>2. Len(a) \in Nat \ {0} /\ a[1].word = row.date[1].word
  BY RowIs, EscapeCellIs
<1>3. RenderRow(row) = ((((a \o b) \o c) \o d) \o e)
  BY DEF RenderRow
<1>4. Unpiped(row) => /\ a = row.date /\ b = row.finding /\ c = row.pr
                      /\ d = row.evaluated /\ e = row.verdict
                      /\ a = <<a[1]>> /\ b = <<b[1]>> /\ c = <<c[1]>>
                      /\ d = <<d[1]>> /\ e = <<e[1]>>
  <2> SUFFICES ASSUME Unpiped(row) PROVE <1>4!2
    OBVIOUS
  <2>1. /\ Len(row.date) = 1 /\ Len(row.finding) = 1 /\ Len(row.pr) = 1
        /\ Len(row.evaluated) = 1 /\ Len(row.verdict) = 1
    <3>1. DOMAIN row = {"date", "finding", "pr", "evaluated", "verdict"}
      BY LedgerAssumption DEF LedgerAssumption
    <3> QED
      BY <3>1 DEF Unpiped
  <2> QED
    BY <2>1, RowIs, EscapeCellIs
<1> HIDE DEF a, b, c, d, e
<1>5. RenderRow(row) \in Seq(Word)
  BY <1>1, <1>3, ConcatProperties
<1>6. Len(RenderRow(row)) >= 1 /\ RenderRow(row)[1] = a[1]
  <2>1. ASSUME NEW s \in Seq(Word), NEW t \in Seq(Word), Len(s) \in Nat \ {0}
        PROVE  s \o t \in Seq(Word) /\ Len(s \o t) \in Nat \ {0} /\ (s \o t)[1] = s[1]
    BY <2>1, ConcatProperties
  <2>2. a \o b \in Seq(Word) /\ Len(a \o b) \in Nat \ {0} /\ (a \o b)[1] = a[1]
    BY <1>1, <1>2, <2>1
  <2> DEFINE ab == a \o b
  <2> HIDE DEF ab
  <2>3. ab \o c \in Seq(Word) /\ Len(ab \o c) \in Nat \ {0} /\ (ab \o c)[1] = a[1]
    BY <1>1, <2>1, <2>2 DEF ab
  <2> DEFINE abc == ab \o c
  <2> HIDE DEF abc
  <2>4. abc \o d \in Seq(Word) /\ Len(abc \o d) \in Nat \ {0} /\ (abc \o d)[1] = a[1]
    BY <1>1, <2>1, <2>3 DEF abc
  <2> DEFINE abcd == abc \o d
  <2> HIDE DEF abcd
  <2>5. Len(abcd \o e) \in Nat \ {0} /\ (abcd \o e)[1] = a[1]
    BY <1>1, <2>1, <2>4 DEF abcd
  <2>6. RenderRow(row) = abcd \o e
    BY <1>3 DEF ab, abc, abcd
  <2> QED
    BY <2>5, <2>6
<1>7. CellsToRow(RenderRow(row)).date = <<a[1]>>
  BY <1>6 DEF CellsToRow
<1>8. ASSUME Unpiped(row) PROVE CellsToRow(RenderRow(row)) = row
  <2>1. ASSUME NEW s \in Seq(Word), s = <<s[1]>> PROVE s[1] \in Word
    <3>1. Len(<<s[1]>>) = 1
      OBVIOUS
    <3> QED
      BY <2>1, <3>1
  <2>2. /\ a[1] \in Word /\ b[1] \in Word /\ c[1] \in Word /\ d[1] \in Word /\ e[1] \in Word
    BY <1>1, <1>4, <1>8, <2>1, Zenon
  <2>3. RenderRow(row) = (((<<a[1]>> \o <<b[1]>>) \o <<c[1]>>) \o <<d[1]>>) \o <<e[1]>>
    BY <1>3, <1>4, <1>8, Zenon
  <2> DEFINE s == RenderRow(row)
             joined == (((<<a[1]>> \o <<b[1]>>) \o <<c[1]>>) \o <<d[1]>>) \o <<e[1]>>
  <2>4. /\ Len(s) = 5 /\ s[1] = a[1] /\ s[2] = b[1] /\ s[3] = c[1] /\ s[4] = d[1]
        /\ s[5] = e[1]
    <3>1. /\ Len(joined) = 5 /\ joined[1] = a[1] /\ joined[2] = b[1] /\ joined[3] = c[1]
          /\ joined[4] = d[1] /\ joined[5] = e[1]
      BY <2>2, FiveWords
    <3> HIDE DEF joined
    <3>2. s = joined
      BY <2>3 DEF joined
    <3> QED
      BY <3>1, <3>2
  <2>5. CellsToRow(RenderRow(row)) =
          [date |-> <<a[1]>>, finding |-> <<b[1]>>, pr |-> <<c[1]>>,
           evaluated |-> <<d[1]>>, verdict |-> <<e[1]>>]
    BY <2>4 DEF CellsToRow
  <2> QED
    BY <2>5, <1>4, <1>8, RowIs
<1> QED
  BY <1>2, <1>5, <1>7, <1>8

\* A command in progress is told from none.
LEMMA NotIdle == \A c : Command(c) => c # Idle
<1>1. ASSUME NEW c, Command(c)
      PROVE  c \in [row : Rows, lines : Seq(Line), opened : BOOLEAN]
  <2>0. <<>> \in Seq(Line)
    OBVIOUS
  <2>1. c.lines \in Seq(Line)
    BY <1>1, <2>0 DEF Command, Sound
  <2> QED
    BY <1>1, <2>1 DEF Command, GoodRows
<1> QED
  BY <1>1, LedgerAssumption DEF LedgerAssumption

LEMMA SoundLength ==
  ASSUME NEW lines, Sound(lines)
  PROVE  Len(lines) \in Nat /\ (Len(lines) =< 1 => lines \in {<<>>, EmptyLedger})
<1>1. CASE lines = <<>>
  BY <1>1
<1>2. CASE lines \in Seq(Line) /\ lines # <<>> /\ lines[1] = Header
  <2>1. Len(lines) \in Nat /\ Len(lines) # 0
    BY <1>2
  <2>2. ASSUME Len(lines) =< 1 PROVE lines = <<Header>>
    <3>1. \A k \in Nat : k # 0 /\ k =< 1 => k = 1
      OBVIOUS
    <3>2. Len(lines) = 1
      BY <2>1, <2>2, <3>1, Zenon
    <3>3. <<Header>> \in Seq(Line) /\ Len(<<Header>>) = 1 /\ <<Header>>[1] = Header
      BY DEF Line
    <3>4. lines \in Seq(Line) /\ Len(lines) = Len(<<Header>>)
          /\ \A i \in 1 .. Len(lines) : lines[i] = <<Header>>[i]
      BY <1>2, <3>2, <3>3
    <3> QED
      BY <3>3, <3>4, SeqEqual
  <2> QED
    BY <2>1, <2>2 DEF EmptyLedger
<1> QED
  BY <1>1, <1>2 DEF Sound

LEMMA EmptyIsSound == Sound(EmptyLedger) /\ Len(EmptyLedger) = 1
<1>1. <<Header>> \in Seq(Line) /\ Len(<<Header>>) = 1 /\ <<Header>>[1] = Header
  BY DEF Line
<1> QED
  BY <1>1 DEF Sound, EmptyLedger

LEMMA KeptOfNone == Kept(<<>>, <<>>) /\ Kept(EmptyLedger, <<>>)
<1>1. EmptyLedger \in Seq(Line) /\ Len(EmptyLedger) = 0 + 1 /\ EmptyLedger[1] = Header
  <2>1. <<Header>> \in Seq(Line) /\ Len(<<Header>>) = 1 /\ <<Header>>[1] = Header
    BY DEF Line
  <2> QED
    BY <2>1 DEF EmptyLedger
<1>2. Len(<<>>) = 0 /\ DOMAIN <<>> = {}
  OBVIOUS
<1> QED
  BY <1>1, <1>2 DEF Kept

LEMMA AppendRowIs ==
  ASSUME NEW lines, Sound(lines), NEW row \in GoodRows
  PROVE  /\ Sound(AppendRow(lines, row)) /\ Len(AppendRow(lines, row)) > 1
         /\ \A rows \in Seq(GoodRows) :
              Kept(lines, rows) => Kept(AppendRow(lines, row), Append(rows, row))
<1> DEFINE base == IF lines = <<>> THEN EmptyLedger ELSE lines
<1>1. base \in Seq(Line) /\ Len(base) \in Nat \ {0} /\ base[1] = Header
  <2>1. CASE lines = <<>>
    BY <2>1, EmptyIsSound DEF Sound, EmptyLedger, Line
  <2>2. CASE lines # <<>>
    BY <2>2 DEF Sound
  <2> QED
    BY <2>1, <2>2
<1>2. AppendRow(lines, row) = Append(base, RenderRow(row)) /\ RenderRow(row) \in Line
  BY DEF AppendRow, Line, GoodRows
<1> HIDE DEF base
<1>3. /\ AppendRow(lines, row) \in Seq(Line) /\ Len(AppendRow(lines, row)) = Len(base) + 1
      /\ \A i \in 1 .. Len(base) : AppendRow(lines, row)[i] = base[i]
      /\ AppendRow(lines, row)[Len(base) + 1] = RenderRow(row)
  BY <1>1, <1>2, AppendProperties
<1>4. AppendRow(lines, row)[1] = Header /\ Len(AppendRow(lines, row)) > 1
  BY <1>1, <1>3
<1>5. ASSUME NEW rows \in Seq(GoodRows), Kept(lines, rows)
      PROVE  Kept(AppendRow(lines, row), Append(rows, row))
  <2>1. Len(base) = Len(rows) + 1 /\ \A i \in DOMAIN rows : base[i + 1] = RenderRow(rows[i])
    <3>1. CASE lines = <<>>
      BY <1>5, <3>1, EmptyIsSound DEF Kept, base
    <3>2. CASE lines # <<>>
      BY <1>5, <3>2 DEF Kept, base
    <3> QED
      BY <3>1, <3>2
  <2>2. /\ Len(rows) \in Nat /\ DOMAIN rows = 1 .. Len(rows)
        /\ Append(rows, row) \in Seq(GoodRows) /\ Len(Append(rows, row)) = Len(rows) + 1
        /\ DOMAIN Append(rows, row) = 1 .. Len(rows) + 1
        /\ \A i \in 1 .. Len(rows) : Append(rows, row)[i] = rows[i]
        /\ Append(rows, row)[Len(rows) + 1] = row
    BY AppendProperties
  <2>3. ASSUME NEW i \in DOMAIN Append(rows, row)
        PROVE  AppendRow(lines, row)[i + 1] = RenderRow(Append(rows, row)[i])
    <3>1. CASE i = Len(rows) + 1
      BY <1>3, <2>1, <2>2, <3>1
    <3>2. CASE i # Len(rows) + 1
      <4>1. i \in 1 .. Len(rows) /\ i + 1 \in 1 .. Len(base)
        BY <2>1, <2>2, <3>2
      <4> QED
        BY <1>3, <2>1, <2>2, <4>1
    <3> QED
      BY <3>1, <3>2
  <2> QED
    BY <1>3, <1>4, <2>1, <2>2, <2>3 DEF Kept
<1> QED
  BY <1>3, <1>4, <1>5 DEF Sound

\* A step of one night leaves the commands of the others alone.
LEMMA OneNight ==
  ASSUME LedgerInv, NEW night \in Nights, NEW command,
         appending' = [appending EXCEPT ![night] = command]
  PROVE  /\ appending'[night] = command
         /\ \A other \in Nights \ {night} :
              appending'[other] = appending[other] /\ (Rich(other)' <=> Rich(other))
         /\ appending' = [other \in Nights |-> appending'[other]]
<1>1. appending = [other \in Nights |-> appending[other]]
  BY DEF LedgerInv
<1>2. \A other \in Nights : appending'[other] = IF other = night THEN command ELSE appending[other]
  BY <1>1
<1> QED
  BY <1>1, <1>2 DEF Rich

LEMMA KeptEmpty ==
  ASSUME NEW rows \in Seq(GoodRows)
  PROVE  /\ Kept(<<>>, rows) => rows = <<>>
         /\ Kept(<<>>, <<>>)
         /\ \A lines : Sound(lines) /\ Kept(lines, rows) /\ Len(lines) =< 1 => rows = <<>>
<1>1. ASSUME NEW lines \in Seq(Line), Len(lines) = Len(rows) + 1, Len(lines) =< 1
      PROVE  rows = <<>>
  <2>1. Len(rows) \in Nat
    OBVIOUS
  <2>2. \A k \in Nat : k + 1 =< 1 => k = 0
    OBVIOUS
  <2>3. Len(rows) = 0
    BY <1>1, <2>1, <2>2
  <2> QED
    BY <2>3
<1>2. <<>> \in Seq(Line) /\ Len(<<>>) =< 1
  OBVIOUS
<1> QED
  BY <1>1, <1>2 DEF Kept

\* What a read by one night leaves of the other nights.
LEMMA AppendReadStep ==
  ASSUME LedgerInv, NEW night \in Nights, AppendRead(night)
  PROVE  LedgerInv'
<1>1. PICK row \in GoodRows, lines \in {ledger, EmptyLedger} :
        /\ appending' = [appending EXCEPT ![night] =
                           [row |-> row, lines |-> lines, opened |-> FALSE]]
        /\ calm' => calm
  <2>1. PICK row \in GoodRows :
          \/ /\ appending' = [appending EXCEPT ![night] =
                                [row |-> row, lines |-> ledger, opened |-> FALSE]]
             /\ UNCHANGED calm
          \/ /\ appending' = [appending EXCEPT ![night] =
                                [row |-> row, lines |-> EmptyLedger, opened |-> FALSE]]
             /\ calm' = (calm /\ Len(ledger) =< 1)
    BY DEF AppendRead, GoodRows
  <2>2. \E lines \in {ledger, EmptyLedger} :
          /\ appending' = [appending EXCEPT ![night] =
                             [row |-> row, lines |-> lines, opened |-> FALSE]]
          /\ calm' => calm
    <3>1. CASE /\ appending' = [appending EXCEPT ![night] =
                                  [row |-> row, lines |-> ledger, opened |-> FALSE]]
               /\ UNCHANGED calm
      BY <3>1
    <3>2. CASE /\ appending' = [appending EXCEPT ![night] =
                                  [row |-> row, lines |-> EmptyLedger, opened |-> FALSE]]
               /\ calm' = (calm /\ Len(ledger) =< 1)
      BY <3>2
    <3> QED
      BY <2>1, <3>1, <3>2
  <2> QED
    BY <2>2
<1>2. appending[night] = Idle /\ UNCHANGED <<ledger, appended>>
  BY DEF AppendRead
<1> DEFINE command == [row |-> row, lines |-> lines, opened |-> FALSE]
<1>3. Sound(lines) /\ (appended = <<>> => Len(lines) =< 1)
  <2>1. CASE lines = ledger
    BY <2>1 DEF LedgerInv
  <2>2. CASE lines = EmptyLedger
    BY <2>2, EmptyIsSound
  <2> QED
    BY <1>1, <2>1, <2>2
<1>4. Command(command) /\ ~command.opened /\ command.lines = lines
  BY <1>1, <1>3 DEF Command
<1> HIDE DEF command
<1>5. /\ appending'[night] = command
      /\ \A other \in Nights \ {night} :
           appending'[other] = appending[other] /\ (Rich(other)' <=> Rich(other))
      /\ appending' = [other \in Nights |-> appending'[other]]
  BY <1>1, OneNight DEF command
<1>6. \A other \in Nights : Rich(other)' <=> Rich(other)
  BY <1>2, <1>4, <1>5 DEF Rich
<1>7. \A other \in Nights : Rich(other) => appending'[other] = appending[other]
  BY <1>2, <1>5 DEF Rich
<1>8. (Quiet => Quiet') /\ (Carried => Carried') /\ (Doomed => Doomed')
  <2>1. Quiet => Quiet'
    BY <1>2, <1>6 DEF Quiet
  <2>2. Carried => Carried'
    BY <1>2, <1>6, <1>7 DEF Carried
  <2>3. Doomed => Doomed'
    BY <1>2, <1>6 DEF Doomed
  <2> QED
    BY <2>1, <2>2, <2>3
<1> QED
  BY <1>1, <1>2, <1>3, <1>4, <1>5, <1>8 DEF LedgerInv

LEMMA AppendOpenStep ==
  ASSUME LedgerInv, NEW night \in Nights, AppendOpen(night)
  PROVE  LedgerInv'
<1> DEFINE old == appending[night]
           command == [old EXCEPT !.opened = TRUE]
<1>1. /\ old # Idle /\ ~old.opened /\ ledger' = <<>> /\ appended' = appended
      /\ appending' = [appending EXCEPT ![night] = command]
      /\ calm' => calm /\ (ledger = old.lines \/ Len(ledger) =< 1)
  BY DEF AppendOpen
<1>2. Command(old)
  BY <1>1 DEF LedgerInv
<1> HIDE DEF old
<1>3. Command(command) /\ command.opened /\ command.lines = old.lines /\ command # Idle
  <2>1. /\ command.row = old.row /\ command.lines = old.lines /\ command.opened = TRUE
        /\ command = [row |-> command.row, lines |-> command.lines, opened |-> command.opened]
    <3>1. old = [row |-> old.row, lines |-> old.lines, opened |-> old.opened]
      BY <1>2 DEF Command
    <3>2. command.row = old.row /\ command.lines = old.lines /\ command.opened = TRUE
      BY <3>1
    <3>3. command = [old EXCEPT !.opened = TRUE]
      OBVIOUS
    <3> HIDE DEF command
    <3>4. command = [row |-> command.row, lines |-> command.lines, opened |-> command.opened]
      BY <3>1, <3>3
    <3> QED
      BY <3>2, <3>4
  <2>2. Command(command)
    BY <1>2, <2>1 DEF Command
  <2> QED
    BY <2>1, <2>2, NotIdle
<1>4. Sound(old.lines) /\ Len(old.lines) \in Nat
  BY <1>2, SoundLength DEF Command
<1>5. Sound(ledger) /\ Len(ledger) \in Nat /\ Sound(<<>>) /\ Len(<<>>) = 0
  BY SoundLength DEF LedgerInv, Sound
<1> HIDE DEF command
<1>6. /\ appending'[night] = command
      /\ \A other \in Nights \ {night} :
           appending'[other] = appending[other] /\ (Rich(other)' <=> Rich(other))
      /\ appending' = [other \in Nights |-> appending'[other]]
  BY <1>1, OneNight
<1>7. \A other \in Nights : Rich(other) => Rich(other)' /\ other # night /\ appending'[other] = appending[other]
  BY <1>1, <1>6 DEF Rich, old
<1>8. appended = <<>> => Len(old.lines) =< 1
  BY <1>1 DEF LedgerInv, old
<1>9. ASSUME calm' PROVE Quiet' \/ Carried' \/ Doomed'
  <2>1. calm /\ (ledger = old.lines \/ Len(ledger) =< 1)
    BY <1>1, <1>9
  <2>2. CASE Quiet
    <3>1. CASE Len(ledger) =< 1
      <4>1. appended = <<>>
        BY <2>2, <3>1, <1>5, KeptEmpty DEF Quiet, LedgerInv
      <4>2. \A other \in Nights : ~Rich(other)'
        BY <2>2, <1>3, <1>4, <1>6, <1>8, <4>1 DEF Quiet, Rich
      <4> QED
        BY <1>1, <4>1, <4>2, KeptEmpty DEF Quiet, LedgerInv
    <3>2. CASE ~ (Len(ledger) =< 1)
      <4>1. ledger = old.lines
        BY <2>1, <3>2
      <4>2. \A other \in Nights : Rich(other)' <=> other = night
        BY <2>2, <1>3, <1>4, <1>5, <1>6, <3>2, <4>1 DEF Quiet, Rich
      <4> QED
        BY <2>2, <1>1, <1>3, <1>6, <4>1, <4>2 DEF Quiet, Carried
    <3> QED
      BY <3>1, <3>2
  <2>3. CASE Carried
    <3>1. PICK carrier \in Nights :
            /\ \A other \in Nights : Rich(other) <=> other = carrier
            /\ Kept(appending[carrier].lines, appended)
      BY <2>3 DEF Carried
    <3>2. carrier # night /\ Rich(carrier)' /\ appending'[carrier] = appending[carrier]
      BY <3>1, <1>7
    <3>3. CASE Rich(night)'
      BY <3>2, <3>3 DEF Doomed
    <3>4. CASE ~Rich(night)'
      <4>1. \A other \in Nights : Rich(other)' <=> other = carrier
        BY <3>1, <3>2, <3>4, <1>6
      <4> QED
        BY <1>1, <3>1, <3>2, <4>1 DEF Carried
    <3> QED
      BY <3>3, <3>4
  <2>4. CASE Doomed
    <3>1. PICK one \in Nights :
            Rich(one) /\ (Len(ledger) > 1 \/ \E other \in Nights \ {one} : Rich(other))
      BY <2>4 DEF Doomed
    <3>2. CASE Len(ledger) > 1
      <4>1. Rich(night)'
        BY <2>1, <3>2, <1>3, <1>5, <1>6 DEF Rich
      <4> QED
        BY <3>1, <4>1, <1>7 DEF Doomed
    <3>3. CASE \E other \in Nights \ {one} : Rich(other)
      BY <3>1, <3>3, <1>7 DEF Doomed
    <3> QED
      BY <3>1, <3>2, <3>3
  <2> QED
    BY <2>1, <2>2, <2>3, <2>4 DEF LedgerInv
<1> QED
  BY <1>1, <1>3, <1>5, <1>6, <1>8, <1>9 DEF LedgerInv

LEMMA AppendWriteStep ==
  ASSUME LedgerInv, NEW night \in Nights, AppendWrite(night)
  PROVE  LedgerInv'
<1> DEFINE old == appending[night]
<1>1. /\ old # Idle /\ old.opened /\ appended' = Append(appended, old.row)
      /\ ledger' = AppendRow(old.lines, old.row)
      /\ appending' = [appending EXCEPT ![night] = Idle]
      /\ calm' => calm /\ ledger = <<>>
  BY DEF AppendWrite
<1>2. Sound(old.lines) /\ Len(old.lines) \in Nat /\ old.row \in GoodRows /\ appended \in Seq(GoodRows)
  <2>1. Command(old)
    BY <1>1 DEF LedgerInv
  <2> QED
    BY <2>1, SoundLength DEF Command, LedgerInv
<1> HIDE DEF old
<1>3. /\ Sound(ledger') /\ Len(ledger') > 1
      /\ Kept(old.lines, appended) => Kept(ledger', appended')
  BY <1>1, <1>2, AppendRowIs
<1>4. appended' \in Seq(GoodRows) /\ appended' # <<>>
  BY <1>1, <1>2, AppendProperties
<1>5. /\ appending'[night] = Idle
      /\ \A other \in Nights \ {night} :
           appending'[other] = appending[other] /\ (Rich(other)' <=> Rich(other))
      /\ appending' = [other \in Nights |-> appending'[other]]
  BY <1>1, OneNight
<1>6. ~Rich(night)' /\ (Rich(night) <=> Len(old.lines) > 1)
  BY <1>1, <1>5 DEF Rich, old
<1>7. ASSUME calm' PROVE Quiet' \/ Carried' \/ Doomed'
  <2>1. calm /\ ledger = <<>>
    BY <1>1, <1>7
  <2>2. CASE Quiet
    <3>1. appended = <<>>
      BY <2>1, <2>2, <1>2, KeptEmpty DEF Quiet
    <3>2. Len(old.lines) =< 1
      BY <1>1, <3>1 DEF LedgerInv, old
    <3>3. Kept(old.lines, appended)
      <4>1. old.lines = <<>> \/ old.lines = EmptyLedger
        BY <1>2, <3>2, SoundLength
      <4>2. Kept(EmptyLedger, <<>>) /\ Kept(<<>>, <<>>)
        BY KeptOfNone
      <4> QED
        BY <3>1, <4>1, <4>2, Zenon
    <3>4. \A other \in Nights : ~Rich(other)'
      BY <2>2, <1>5, <1>6 DEF Quiet
    <3> QED
      BY <1>3, <3>3, <3>4 DEF Quiet
  <2>3. CASE Carried
    <3>1. PICK carrier \in Nights :
            /\ \A other \in Nights : Rich(other) <=> other = carrier
            /\ Kept(appending[carrier].lines, appended)
      BY <2>3 DEF Carried
    <3>2. CASE carrier = night
      <4>1. Kept(ledger', appended')
        BY <1>3, <3>1, <3>2 DEF old
      <4>2. \A other \in Nights : ~Rich(other)'
        BY <1>5, <1>6, <3>1, <3>2
      <4> QED
        BY <4>1, <4>2 DEF Quiet
    <3>3. CASE carrier # night
      BY <1>3, <1>5, <3>1, <3>3 DEF Doomed
    <3> QED
      BY <3>2, <3>3
  <2>4. CASE Doomed
    <3>1. PICK one \in Nights : Rich(one) /\ \E other \in Nights \ {one} : Rich(other)
      <4>1. ~ (Len(ledger) > 1)
        BY <2>1
      <4> QED
        BY <2>4, <4>1 DEF Doomed
    <3>2. \E left \in Nights : Rich(left)'
      BY <3>1, <1>5
    <3> QED
      BY <1>3, <3>2 DEF Doomed
  <2> QED
    BY <2>1, <2>2, <2>3, <2>4 DEF LedgerInv
<1>8. \A other \in Nights : appending'[other] # Idle => Command(appending'[other])
  BY <1>5 DEF LedgerInv
<1> QED
  BY <1>3, <1>4, <1>5, <1>7, <1>8 DEF LedgerInv

LEMMA KilledStep ==
  ASSUME LedgerInv, NEW night \in Nights, Killed(night)
  PROVE  LedgerInv'
<1> DEFINE old == appending[night]
<1>1. /\ old # Idle /\ UNCHANGED <<ledger, appended>>
      /\ appending' = [appending EXCEPT ![night] = Idle]
      /\ calm' => calm /\ (old.opened => Len(old.lines) =< 1)
  BY DEF Killed
<1>2. Len(old.lines) \in Nat
  <2>1. Command(old)
    BY <1>1 DEF LedgerInv
  <2> QED
    BY <2>1, SoundLength DEF Command
<1> HIDE DEF old
<1>3. /\ appending'[night] = Idle
      /\ \A other \in Nights \ {night} :
           appending'[other] = appending[other] /\ (Rich(other)' <=> Rich(other))
      /\ appending' = [other \in Nights |-> appending'[other]]
  BY <1>1, OneNight
<1>4. calm' => \A other \in Nights : Rich(other)' <=> Rich(other)
  <2>1. calm' => ~Rich(night)
    BY <1>1, <1>2 DEF Rich, old
  <2>2. ~Rich(night)'
    BY <1>3 DEF Rich
  <2> QED
    BY <1>3, <2>1, <2>2
<1>5. ASSUME calm' PROVE Quiet' \/ Carried' \/ Doomed'
  <2>1. Quiet => Quiet'
    BY <1>1, <1>4, <1>5 DEF Quiet
  <2>2. \A other \in Nights : Rich(other) => appending'[other] = appending[other]
    BY <1>3, <1>4, <1>5 DEF Rich
  <2>3. Carried => Carried'
    BY <1>1, <1>4, <1>5, <2>2 DEF Carried
  <2>4. Doomed => Doomed'
    BY <1>1, <1>4, <1>5 DEF Doomed
  <2> QED
    BY <1>1, <1>5, <2>1, <2>3, <2>4 DEF LedgerInv
<1>6. \A other \in Nights : appending'[other] # Idle =>
        Command(appending'[other]) /\ (appended = <<>> => Len(appending'[other].lines) =< 1)
  BY <1>3 DEF LedgerInv
<1> QED
  BY <1>1, <1>3, <1>5, <1>6 DEF LedgerInv

LEMMA LedgerInvHolds == LedgerSpec => []LedgerInv
<1>1. LedgerInit => LedgerInv
  <2> SUFFICES ASSUME LedgerInit PROVE LedgerInv
    OBVIOUS
  <2>1. Sound(ledger) /\ Len(ledger) =< 1 /\ Kept(ledger, appended)
    <3>1. Sound(<<>>) /\ Len(<<>>) =< 1
      BY DEF Sound
    <3>2. Sound(EmptyLedger) /\ Len(EmptyLedger) =< 1
      BY EmptyIsSound
    <3>3. (ledger = <<>> \/ ledger = EmptyLedger) /\ appended = <<>>
      BY DEF LedgerInit
    <3> QED
      BY <3>1, <3>2, <3>3, KeptOfNone, Zenon
  <2>2. \A night \in Nights : appending[night] = Idle /\ ~Rich(night)
    BY DEF LedgerInit, Rich
  <2> QED
    BY <2>1, <2>2 DEF LedgerInit, LedgerInv, Quiet
<1>2. LedgerInv /\ [LedgerNext]_ledgerVars => LedgerInv'
  <2> SUFFICES ASSUME LedgerInv, [LedgerNext]_ledgerVars PROVE LedgerInv'
    OBVIOUS
  <2>1. CASE UNCHANGED ledgerVars
    BY <2>1 DEF ledgerVars, LedgerInv, Quiet, Carried, Doomed, Rich
  <2> QED
    BY <2>1, AppendReadStep, AppendOpenStep, AppendWriteStep, KilledStep DEF LedgerNext
<1> QED
  BY <1>1, <1>2, PTL DEF LedgerSpec

\* A settled ledger is read back row by row.
LEMMA SettledReads ==
  ASSUME LedgerInv, Settled
  PROVE  LET rows == ParseLedger(ledger)
         IN  /\ rows = [i \in 1 .. Len(appended) |-> rows[i]] /\ Len(rows) = Len(appended)
             /\ appended \in Seq(GoodRows) /\ (appended # <<>> => ledger # <<>>)
             /\ \A i \in 1 .. Len(appended) : rows[i] = CellsToRow(RenderRow(appended[i]))
<1>1. Kept(ledger, appended) /\ appended \in Seq(GoodRows)
  <2>1. \A night \in Nights : ~Rich(night)
    BY DEF Settled, Rich
  <2> QED
    BY <2>1 DEF LedgerInv, Settled, Quiet, Carried, Doomed
<1>2. CASE ledger = <<>>
  <2>1. appended = <<>> /\ ParseLedger(ledger) = <<>>
    BY <1>1, <1>2, KeptEmpty DEF ParseLedger
  <2> QED
    BY <1>1, <2>1
<1>3. CASE ledger # <<>>
  <2>1. /\ Len(ledger) - 1 = Len(appended) /\ Len(appended) \in Nat
        /\ \A i \in 1 .. Len(appended) : ledger[i + 1] = RenderRow(appended[i])
    BY <1>1, <1>3 DEF Kept
  <2>2. ParseLedger(ledger) = [i \in 1 .. Len(appended) |-> CellsToRow(ledger[i + 1])]
    BY <1>3, <2>1 DEF ParseLedger
  <2> QED
    BY <1>1, <1>3, <2>1, <2>2
<1> QED
  BY <1>2, <1>3

\* Every night whose command succeeded is in a settled ledger, once and in
\* order, reads back and verifies, whatever commands overlapped, failed to read
\* or were killed on the way without a trace (ledger append, appendRow,
\* parseLedger, verifyLedger).
THEOREM NightsKeptCorrect == LedgerSpec => []NightsKept
<1>1. LedgerInv => NightsKept
  <2> SUFFICES ASSUME LedgerInv, Settled PROVE NightsKept
    BY DEF NightsKept
  <2> DEFINE rows == ParseLedger(ledger)
  <2>1. /\ rows = [i \in 1 .. Len(appended) |-> rows[i]] /\ Len(rows) = Len(appended)
        /\ appended \in Seq(GoodRows) /\ (appended # <<>> => ledger # <<>>)
        /\ \A i \in 1 .. Len(appended) : rows[i] = CellsToRow(RenderRow(appended[i]))
    BY SettledReads
  <2>2. DOMAIN rows = 1 .. Len(appended) /\ \A i \in DOMAIN rows : appended[i] \in GoodRows
    BY <2>1
  <2>3. ASSUME NEW i \in DOMAIN rows, Unpiped(appended[i]) PROVE rows[i] = appended[i]
    BY <2>1, <2>2, <2>3, ReadsBack DEF GoodRows
  <2>4. ASSUME appended # <<>>, \A i \in DOMAIN rows : Unpiped(appended[i]) /\ Dated(appended[i])
        PROVE  VerifyLedger(ledger)
    <3>1. \A i \in DOMAIN rows : rows[i] \in GoodRows /\ Dated(rows[i])
      BY <2>2, <2>3, <2>4
    <3> QED
      BY <2>1, <2>4, <3>1 DEF VerifyLedger, GoodRows, Acceptable
  <2> QED
    BY <2>1, <2>3, <2>4 DEF NightsKept
<1> QED
  BY <1>1, LedgerInvHolds, PTL

\* The last n rows hold every row that is not n or more rows old.
LEMMA LastRowsHold ==
  ASSUME NEW S, NEW rows \in Seq(S), NEW n \in Nat \ {0}, NEW i \in 1 .. Len(rows), i > Len(rows) - n
  PROVE  rows[i] \in ToSet(LastRows(n, rows))
<1> DEFINE m == Max({1, Len(rows) - n + 1})
<1>1. m \in Int /\ m >= 1 /\ m =< i
  <2>1. Len(rows) \in Nat /\ i \in Int /\ i >= 1
    OBVIOUS
  <2>2. CASE Len(rows) - n + 1 >= 1
    <3>1. {1, Len(rows) - n + 1} \in SUBSET Int /\ \A y \in {1, Len(rows) - n + 1} : y =< Len(rows) - n + 1
      BY <2>1, <2>2
    <3>2. m = Len(rows) - n + 1
      BY <3>1, MaxIs
    <3> HIDE DEF m
    <3> QED
      BY <2>1, <2>2, <3>2
  <2>3. CASE ~ (Len(rows) - n + 1 >= 1)
    <3>1. {1, Len(rows) - n + 1} \in SUBSET Int /\ \A y \in {1, Len(rows) - n + 1} : y =< 1
      BY <2>1, <2>3
    <3>2. m = 1
      BY <3>1, MaxIs
    <3> HIDE DEF m
    <3> QED
      BY <2>1, <3>2
  <2> QED
    BY <2>2, <2>3
<1>2. LastRows(n, rows) = SubSeq(rows, m, Len(rows))
  BY DEF LastRows
<1> HIDE DEF m
<1>3. /\ Len(LastRows(n, rows)) = Len(rows) - m + 1 /\ LastRows(n, rows) \in Seq(S)
      /\ \A k \in 1 .. Len(rows) - m + 1 : LastRows(n, rows)[k] = rows[m + k - 1]
  <2>1. Len(rows) \in Int /\ m =< Len(rows) /\ \A k \in m .. Len(rows) : rows[k] \in S
    BY <1>1
  <2> QED
    BY <1>1, <1>2, <2>1, SubSeqProperties
<1>4. i - m + 1 \in 1 .. Len(rows) - m + 1 /\ m + (i - m + 1) - 1 = i
  BY <1>1
<1>5. LastRows(n, rows)[i - m + 1] = rows[i] /\ i - m + 1 \in DOMAIN LastRows(n, rows)
  BY <1>3, <1>4
<1> QED
  BY <1>5 DEF ToSet

\* Row by row, what a settled ledger reads as.
LEMMA RowsRead ==
  ASSUME LedgerInv, Settled
  PROVE  /\ DOMAIN ParseLedger(ledger) = 1 .. Len(appended) /\ DOMAIN appended = 1 .. Len(appended)
         /\ Len(appended) \in Nat
         /\ \A j \in 1 .. Len(appended) :
              /\ appended[j] \in Rows
              /\ ParseLedger(ledger)[j] = CellsToRow(RenderRow(appended[j]))
<1> DEFINE rows == ParseLedger(ledger)
<1>1. /\ rows = [i \in 1 .. Len(appended) |-> rows[i]] /\ appended \in Seq(GoodRows)
      /\ \A i \in 1 .. Len(appended) : rows[i] = CellsToRow(RenderRow(appended[i]))
  BY SettledReads
<1> HIDE DEF rows
<1>2. DOMAIN rows = 1 .. Len(appended) /\ DOMAIN appended = 1 .. Len(appended) /\ Len(appended) \in Nat
  BY <1>1
<1>3. \A j \in 1 .. Len(appended) : appended[j] \in Rows
  BY <1>1 DEF GoodRows
<1> QED
  BY <1>1, <1>2, <1>3 DEF rows

LEMMA OneElement ==
  ASSUME NEW S, NEW s \in Seq(S), Len(s) = 1
  PROVE  1 \in DOMAIN s /\ s = <<s[1]>> /\ s[1] \in S
<1>1. DOMAIN s = 1 .. Len(s) /\ \A i \in DOMAIN s : s[i] \in S
  BY ElementOfSeq, LenProperties
<1>2. 1 \in 1 .. 1
  OBVIOUS
<1>3. 1 \in DOMAIN s /\ s[1] \in S
  BY <1>1, <1>2
<1>4. <<s[1]>> \in Seq(S) /\ Len(<<s[1]>>) = 1 /\ <<s[1]>>[1] = s[1]
  BY <1>3
<1>5. \A i \in 1 .. 1 : i = 1
  OBVIOUS
<1>6. \A i \in 1 .. Len(s) : s[i] = <<s[1]>>[i]
  BY <1>4, <1>5, Zenon
<1> QED
  BY <1>3, <1>4, <1>6, SeqEqual

\* A text without a pipe that says something is a direction.
LEMMA DirectionNamed ==
  ASSUME NEW text, IsText(text), Len(text) = 1
  PROVE  text # Plain("") => DirectionKey(text) # DirectionKey(Plain(""))
<1> DEFINE w == text[1]
<1>1. text \in Seq([word : STRING, slash : {FALSE}])
  BY DEF IsText
<1>2. 1 \in DOMAIN text /\ text = <<w>> /\ w \in [word : STRING, slash : {FALSE}]
  BY <1>1, OneElement, Zenon
<1>3. DirectionKey(text)[1] = w.word
  BY <1>2 DEF DirectionKey
<1> HIDE DEF w
<1>4. w = [word |-> w.word, slash |-> FALSE]
  BY <1>2
<1>5. Plain("") = <<[word |-> "", slash |-> FALSE]>>
  BY DEF Plain
<1>6. ASSUME w.word = "" PROVE text = Plain("")
  BY <1>2, <1>4, <1>5, <1>6, Zenon
<1>7. DirectionKey(Plain(""))[1] = ""
  <2>1. 1 \in DOMAIN <<[word |-> "", slash |-> FALSE]>>
    OBVIOUS
  <2>2. <<[word |-> "", slash |-> FALSE]>>[1].word = ""
    OBVIOUS
  <2> QED
    BY <1>5, <2>1, <2>2 DEF DirectionKey
<1> QED
  BY <1>3, <1>6, <1>7, Zenon

\* Counting up to a number, and to three.
LEMMA CountsAreFinite ==
  /\ \A n \in Nat : IsFiniteSet(1 .. n)
  /\ \A m, n \in Nat : n >= m /\ m >= 3 => n >= 3
  /\ ~ (Cardinality({}) >= 3)
<1>1. ASSUME NEW n \in Nat PROVE IsFiniteSet(1 .. n)
  <2>1. 1 \in Int /\ n \in Int
    OBVIOUS
  <2> QED
    BY <2>1, FS_Interval
<1>2. \A m, n \in Nat : n >= m /\ m >= 3 => n >= 3
  OBVIOUS
<1>3. ~ (Cardinality({}) >= 3)
  BY FS_EmptySet
<1> QED
  BY <1>1, <1>2, <1>3

\* A direction is seen at least as often as settled nights without a pipe took
\* it.
LEMMA SeenAsTaken ==
  ASSUME LedgerInv, Settled, NEW i \in DOMAIN appended
  PROVE  LET rows == ParseLedger(ledger)
             times == TimesSeen(DirectionKey(appended[i].finding), rows)
         IN  /\ \A j \in SameDirection(i) : j \in DOMAIN rows /\ rows[j].finding = appended[i].finding
             /\ Cardinality(SameDirection(i)) \in Nat /\ times \in Nat
             /\ times >= Cardinality(SameDirection(i))
<1> DEFINE rows == ParseLedger(ledger)
           key  == DirectionKey(appended[i].finding)
           same == SameDirection(i)
           seen == {j \in DOMAIN rows : DirectionKey(rows[j].finding) = key}
           queued == {j \in DOMAIN Pending : DirectionKey(Pending[j]) = key}
<1>1. /\ DOMAIN rows = 1 .. Len(appended) /\ DOMAIN appended = 1 .. Len(appended)
      /\ Len(appended) \in Nat
      /\ \A j \in 1 .. Len(appended) :
           appended[j] \in Rows /\ rows[j] = CellsToRow(RenderRow(appended[j]))
  BY RowsRead
<1>2. ASSUME NEW j \in same
      PROVE  j \in DOMAIN rows /\ rows[j].finding = appended[i].finding
  <2>1. j \in DOMAIN appended /\ Unpiped(appended[j]) /\ appended[j].finding = appended[i].finding
    BY DEF SameDirection
  <2> QED
    BY <1>1, <2>1, ReadsBack
<1>3. TimesSeen(key, rows) = Cardinality(seen) + Cardinality(queued)
  BY DEF TimesSeen
<1>4. seen \in SUBSET DOMAIN rows /\ same \in SUBSET seen
  BY <1>2
<1>5. queued \in SUBSET DOMAIN Pending
  OBVIOUS
<1> HIDE DEF rows, key, same, seen, queued
<1>6. /\ IsFiniteSet(seen) /\ Cardinality(seen) \in Nat
      /\ Cardinality(same) \in Nat /\ Cardinality(seen) >= Cardinality(same)
  <2>1. IsFiniteSet(1 .. Len(appended))
    BY <1>1, CountsAreFinite, Zenon
  <2>2. IsFiniteSet(DOMAIN rows)
    BY <1>1, <2>1
  <2> QED
    BY <1>4, <2>2, FS_Subset, FS_CardinalityType
<1>7. Cardinality(queued) \in Nat
  <2>1. DOMAIN Pending = 1 .. Len(Pending) /\ Len(Pending) \in Nat
    <3>1. Pending \in Seq(Seq([word : STRING, slash : {FALSE}]))
      BY LedgerAssumption DEF LedgerAssumption
    <3> QED
      BY <3>1
  <2>2. IsFiniteSet(1 .. Len(Pending))
    BY <2>1, CountsAreFinite, Zenon
  <2>3. IsFiniteSet(DOMAIN Pending)
    BY <2>1, <2>2
  <2> QED
    BY <1>5, <2>3, FS_Subset, FS_CardinalityType
<1>8. TimesSeen(key, rows) \in Nat /\ TimesSeen(key, rows) >= Cardinality(same)
  BY <1>3, <1>6, <1>7
<1> QED
  BY <1>2, <1>6, <1>8 DEF rows, key, same

\* A direction three settled nights took and named is a duplicate.
LEMMA DirectionSeen ==
  ASSUME LedgerInv, Settled, NEW i \in DOMAIN appended,
         Cardinality(SameDirection(i)) >= 3, appended[i].finding # Plain("")
  PROVE  DirectionKey(appended[i].finding) \in DuplicateDirections(ParseLedger(ledger))
<1> DEFINE rows == ParseLedger(ledger)
           key  == DirectionKey(appended[i].finding)
           same == SameDirection(i)
<1>1. /\ \A j \in same : j \in DOMAIN rows /\ rows[j].finding = appended[i].finding
      /\ Cardinality(same) \in Nat /\ TimesSeen(key, rows) \in Nat
      /\ TimesSeen(key, rows) >= Cardinality(same)
  BY SeenAsTaken
<1>2. Cardinality(same) >= 3
  OBVIOUS
<1>3. \A j \in same : /\ j \in DOMAIN appended /\ Unpiped(appended[j])
                      /\ appended[j].finding = appended[i].finding
  BY DEF SameDirection
<1>4. key = DirectionKey(appended[i].finding) /\ rows = ParseLedger(ledger)
  OBVIOUS
<1> HIDE DEF rows, key, same
<1>5. TimesSeen(key, rows) >= 3
  BY <1>1, <1>2, CountsAreFinite, Zenon
<1>6. same # {}
  BY <1>2, CountsAreFinite, Zenon
<1>7. PICK j \in same : TRUE
  BY <1>6
<1>8. key \in {DirectionKey(row.finding) : row \in ToSet(rows)}
  <2>1. rows[j] \in ToSet(rows) /\ DirectionKey(rows[j].finding) = key
    BY <1>1, <1>4, <1>7 DEF ToSet
  <2> QED
    BY <2>1
<1>9. key # DirectionKey(Plain(""))
  <2>1. /\ Unpiped(appended[j]) /\ appended[j] \in Rows
        /\ appended[j].finding = appended[i].finding
    BY <1>3, <1>7, RowsRead
  <2>2. "finding" \in DOMAIN appended[j] /\ IsText(appended[j].finding)
    BY <2>1, LedgerAssumption DEF LedgerAssumption
  <2>3. IsText(appended[i].finding) /\ Len(appended[i].finding) = 1
    BY <2>1, <2>2 DEF Unpiped
  <2> QED
    BY <1>4, <2>3, DirectionNamed
<1>10. key \in DuplicateDirections(rows)
  BY <1>5, <1>8, <1>9 DEF DuplicateDirections
<1> QED
  BY <1>4, <1>10

\* The days the ledger names are those of the nights, pipes or not.
LEMMA DaysRead ==
  ASSUME LedgerInv, Settled
  PROVE  LET read == {DayOf[row.date[1].word] : row \in {r \in ToSet(ParseLedger(ledger)) : Dated(r)}}
             days == {DayOf[appended[i].date[1].word] : i \in {j \in DOMAIN appended : Dated(appended[j])}}
         IN  read = days /\ IsFiniteSet(days) /\ days \in SUBSET Int
<1> DEFINE rows  == ParseLedger(ledger)
           dated == {j \in DOMAIN appended : Dated(appended[j])}
           days  == {DayOf[appended[i].date[1].word] : i \in dated}
           read  == {DayOf[row.date[1].word] : row \in {r \in ToSet(rows) : Dated(r)}}
<1>1. /\ DOMAIN rows = 1 .. Len(appended) /\ DOMAIN appended = 1 .. Len(appended)
      /\ Len(appended) \in Nat
      /\ \A j \in 1 .. Len(appended) :
           appended[j] \in Rows /\ rows[j] = CellsToRow(RenderRow(appended[j]))
  BY RowsRead
<1>2. \A j \in DOMAIN appended : rows[j].date[1].word = appended[j].date[1].word
  BY <1>1, ReadsBack
<1>3. \A j \in DOMAIN appended : Dated(rows[j]) <=> Dated(appended[j])
  BY <1>2 DEF Dated
<1>4. read = days
  <2>1. ASSUME NEW d \in read PROVE d \in days
    <3>1. PICK r \in ToSet(rows) : Dated(r) /\ d = DayOf[r.date[1].word]
      OBVIOUS
    <3>2. PICK j \in DOMAIN rows : r = rows[j]
      BY DEF ToSet
    <3> HIDE DEF rows
    <3> QED
      BY <1>1, <1>2, <1>3, <3>1, <3>2
  <2>2. ASSUME NEW d \in days PROVE d \in read
    <3>1. PICK j \in dated : d = DayOf[appended[j].date[1].word]
      OBVIOUS
    <3>2. rows[j] \in ToSet(rows)
      BY <1>1 DEF ToSet
    <3> HIDE DEF rows
    <3> QED
      BY <1>2, <1>3, <3>1, <3>2
  <2> QED
    BY <2>1, <2>2
<1>5. IsFiniteSet(days)
  <2> DEFINE f == [i \in dated |-> DayOf[appended[i].date[1].word]]
  <2>1. IsFiniteSet(dated)
    <3>1. IsFiniteSet(DOMAIN appended)
      BY <1>1, FS_Interval
    <3> QED
      BY <3>1, FS_Subset
  <2>2. f \in Surjection(dated, days)
    BY DEF Surjection
  <2> HIDE DEF f, dated, days
  <2> QED
    BY <2>1, <2>2, FS_Surjection
<1>6. days \in SUBSET Int
  <2>1. \A date \in DOMAIN DayOf : DayOf[date] \in Int
    BY LedgerAssumption DEF LedgerAssumption
  <2> QED
    BY <2>1 DEF Dated
<1> QED
  BY <1>4, <1>5, <1>6

\* The learning signals see every settled night: no direction named three times,
\* no merged pull request of the window and no newest date escapes them
\* (learningSignals over parseLedger).
THEOREM SignalsSeeNightsCorrect == LedgerSpec => []SignalsSeeNights
<1>1. LedgerInv => SignalsSeeNights
  <2> SUFFICES ASSUME LedgerInv, Settled, NEW today \in {DayOf[date] : date \in DOMAIN DayOf}
               PROVE  SignalsSeeNights!2!(today)
    BY DEF SignalsSeeNights
  <2> DEFINE rows == ParseLedger(ledger)
             signals == LearningSignals(rows, today)
             days == {DayOf[appended[i].date[1].word] : i \in {j \in DOMAIN appended : Dated(appended[j])}}
             read == {DayOf[row.date[1].word] : row \in {r \in ToSet(rows) : Dated(r)}}
             prs == {row.pr : row \in ToSet(LastRows(Window, rows))} \cap PullRequests
  <2>1. /\ signals.duplicateDirections = DuplicateDirections(rows)
        /\ signals.zeroMergeStreak = (prs # {} /\ prs \cap MergedPrs = {})
        /\ signals.ledgerStale = (read # {} /\ today - Max(read) > 1)
    BY DEF LearningSignals
  <2>2. ASSUME NEW i \in DOMAIN appended,
               i > Len(appended) - Window, Unpiped(appended[i]),
               appended[i].pr \in PullRequests \cap MergedPrs
        PROVE  ~signals.zeroMergeStreak
    <3>1. /\ rows = [j \in 1 .. Len(appended) |-> rows[j]] /\ Len(rows) = Len(appended)
          /\ appended \in Seq(GoodRows) /\ rows[i] = CellsToRow(RenderRow(appended[i]))
          /\ i \in 1 .. Len(appended)
      BY SettledReads
    <3>2. rows[i] = appended[i]
      BY <2>2, <3>1, ReadsBack DEF GoodRows
    <3>3. rows \in Seq({rows[j] : j \in 1 .. Len(appended)})
      <4>1. Len(appended) \in Nat
        BY <3>1
      <4> QED
        BY <3>1, <4>1
    <3>4. rows[i] \in ToSet(LastRows(Window, rows))
      <4>1. Window \in Nat \ {0}
        BY LedgerAssumption DEF LedgerAssumption
      <4> HIDE DEF rows
      <4> QED
        BY <2>2, <3>1, <3>3, <4>1, LastRowsHold
    <3>5. appended[i].pr \in prs \cap MergedPrs
      BY <2>2, <3>2, <3>4
    <3> HIDE DEF prs, signals
    <3> QED
      BY <2>1, <3>5
  <2>3. signals.ledgerStale = (days # {} /\ \A day \in days : today - day > 1)
    <3>1. read = days /\ IsFiniteSet(days) /\ days \in SUBSET Int
      BY DaysRead
    <3>2. today \in Int
      <4>1. \A date \in DOMAIN DayOf : DayOf[date] \in Int
        BY LedgerAssumption DEF LedgerAssumption
      <4> QED
        BY <4>1
    <3> HIDE DEF days, read, signals
    <3>3. ASSUME days # {} PROVE today - Max(days) > 1 <=> \A day \in days : today - day > 1
      <4>1. Max(days) \in days /\ \A day \in days : day =< Max(days)
        BY <3>1, <3>3, MaxOfFinite
      <4>2. Max(days) \in Int /\ \A day \in days : day \in Int
        BY <3>1, <4>1
      <4> QED
        BY <3>2, <4>1, <4>2
    <3> QED
      BY <2>1, <3>1, <3>3
  <2>4. ASSUME NEW i \in DOMAIN appended,
               Cardinality(SameDirection(i)) >= 3, appended[i].finding # Plain("")
        PROVE  DirectionKey(appended[i].finding) \in signals.duplicateDirections
    BY <2>1, <2>4, DirectionSeen
  <2> HIDE DEF rows, signals, days, read, prs
  <2> QED
    BY <2>2, <2>3, <2>4 DEF signals, rows, days
<1> QED
  BY <1>1, LedgerInvHolds, PTL

-----------------------------------------------------------------------------
(* The daily scan, for every set of answers, whatever they send, any       *)
(* window and any limit of results.                                        *)
(*                                                                         *)
(* The strengthening says when a scan can be complete at all (ScanInv);    *)
(* the rest is about the filter: of each paper a latest version is kept,   *)
(* and what is kept can be put in one order.                               *)

\* What the filter keeps of the entries sent.
KeptOf(sent) ==
  {sent[i] : i \in {j \in DOMAIN sent : InWindow(sent[j]) /\ LatestVersion(sent, j)}}

InOrder(papers) == \A i, j \in DOMAIN papers : i < j => NewestFirst(papers[i], papers[j])

LEMMA NewestFirstOrders ==
  ASSUME NEW a \in Entry, NEW b \in Entry, NEW c \in Entry
  PROVE  /\ NewestFirst(a, b) /\ NewestFirst(b, c) => NewestFirst(a, c)
         /\ a.id # b.id => NewestFirst(a, b) \/ NewestFirst(b, a)
<1>1. \A x \in Entry : x.id \in Int /\ x.published \in Int
  BY DEF Entry
<1> QED
  BY <1>1 DEF NewestFirst

LEMMA SentEntries ==
  ASSUME NEW sent \in Seq(Entry)
  PROVE  /\ Len(sent) \in Nat /\ DOMAIN sent = 1 .. Len(sent)
         /\ \A j \in DOMAIN sent : sent[j] \in Entry /\ sent[j].updated \in Int
<1>1. \A x \in Entry : x.updated \in Int
  BY DEF Entry
<1>2. Len(sent) \in Nat /\ DOMAIN sent = 1 .. Len(sent) /\ \A j \in DOMAIN sent : sent[j] \in Entry
  BY ElementOfSeq, LenProperties
<1> QED
  BY <1>1, <1>2

\* Of each paper of the window some version is kept.
LEMMA VersionKept ==
  ASSUME NEW sent \in Seq(Entry), NEW i \in DOMAIN sent, InWindow(sent[i])
  PROVE  \E j \in DOMAIN sent :
           /\ InWindow(sent[j]) /\ sent[j].id = sent[i].id /\ LatestVersion(sent, j)
<1> DEFINE Of    == {j \in DOMAIN sent : InWindow(sent[j]) /\ sent[j].id = sent[i].id}
           dates == {sent[j].updated : j \in Of}
           f     == [j \in Of |-> sent[j].updated]
<1>1. /\ Len(sent) \in Nat /\ DOMAIN sent = 1 .. Len(sent)
      /\ \A j \in DOMAIN sent : sent[j] \in Entry /\ sent[j].updated \in Int
  BY SentEntries
<1>2. IsFiniteSet(Of)
  <2>1. IsFiniteSet(1 .. Len(sent))
    BY <1>1, CountsAreFinite
  <2> QED
    BY <1>1, <2>1, FS_Subset
<1>3. dates \in SUBSET Int /\ dates # {} /\ f \in Surjection(Of, dates)
  BY <1>1 DEF Surjection
<1>4. \A j \in DOMAIN sent : j \in Of <=> InWindow(sent[j]) /\ sent[j].id = sent[i].id
  OBVIOUS
<1>5. \A d : d \in dates <=> \E j \in Of : d = sent[j].updated
  OBVIOUS
<1>6. Of \subseteq DOMAIN sent
  OBVIOUS
<1> HIDE DEF Of, dates, f
<1>7. IsFiniteSet(dates)
  BY <1>2, <1>3, FS_Surjection
<1>8. PICK d \in dates : \A e \in dates : e =< d
  BY <1>3, <1>7, MaxOfFinite
<1> DEFINE newest == {j \in Of : sent[j].updated = d}
<1>9. newest \in SUBSET Nat /\ newest # {}
  BY <1>1, <1>5, <1>6, <1>8
<1>10. PICK j \in newest : \A k \in newest : j =< k
  <2> HIDE DEF newest
  <2> QED
    BY <1>9, LeastElement
<1>11. ASSUME NEW k \in DOMAIN sent, sent[k].id = sent[j].id, InWindow(sent[k])
       PROVE  \/ sent[k].updated < sent[j].updated
              \/ (sent[k].updated = sent[j].updated /\ j =< k)
  <2>1. k \in Of /\ sent[k].updated =< d
    <3>1. sent[k].id = sent[i].id
      BY <1>4, <1>6, <1>10, <1>11
    <3>2. k \in Of
      BY <1>4, <1>11, <3>1
    <3> QED
      BY <1>5, <1>8, <3>2
  <2>2. sent[k].updated \in Int /\ d \in Int /\ sent[j].updated = d
    BY <1>1, <1>3, <1>10
  <2>3. CASE sent[k].updated = d
    BY <1>10, <2>1, <2>2, <2>3
  <2>4. CASE sent[k].updated # d
    BY <2>1, <2>2, <2>4
  <2> QED
    BY <2>3, <2>4
<1> QED
  BY <1>4, <1>6, <1>10, <1>11 DEF LatestVersion

\* One version of a paper is kept, and there are finitely many papers.
LEMMA KeptOnce ==
  ASSUME NEW sent \in Seq(Entry)
  PROVE  /\ KeptOf(sent) \in SUBSET Entry /\ IsFiniteSet(KeptOf(sent))
         /\ \A p, q \in KeptOf(sent) : p.id = q.id => p = q
<1> DEFINE index == {j \in DOMAIN sent : InWindow(sent[j]) /\ LatestVersion(sent, j)}
           f == [j \in index |-> sent[j]]
<1>1. /\ Len(sent) \in Nat /\ DOMAIN sent = 1 .. Len(sent)
      /\ \A j \in DOMAIN sent : sent[j] \in Entry /\ sent[j].updated \in Int
  BY SentEntries
<1>2. IsFiniteSet(index)
  <2>1. IsFiniteSet(1 .. Len(sent))
    BY <1>1, CountsAreFinite
  <2> QED
    BY <1>1, <2>1, FS_Subset
<1>3. f \in Surjection(index, KeptOf(sent)) /\ KeptOf(sent) \in SUBSET Entry
  BY <1>1 DEF Surjection, KeptOf
<1>4. ASSUME NEW i \in index, NEW j \in index, sent[i].id = sent[j].id PROVE i = j
  <2>1. /\ \/ sent[j].updated < sent[i].updated
           \/ (sent[j].updated = sent[i].updated /\ i =< j)
        /\ \/ sent[i].updated < sent[j].updated
           \/ (sent[i].updated = sent[j].updated /\ j =< i)
    BY <1>4 DEF LatestVersion
  <2> QED
    BY <1>1, <2>1
<1>5. \A p, q \in KeptOf(sent) : p.id = q.id => p = q
  BY <1>4 DEF KeptOf
<1> HIDE DEF index, f
<1> QED
  BY <1>2, <1>3, <1>5, FS_Surjection

\* Papers with identifiers of their own have a last one and an order.
LEMMA LastPaper ==
  ASSUME NEW S \in SUBSET Entry, IsFiniteSet(S), \A p, q \in S : p.id = q.id => p = q, S # {}
  PROVE  \E x \in S : \A y \in S : y # x => NewestFirst(y, x)
<1> DEFINE C == {V \in SUBSET S : V # {} => \E x \in V : \A y \in V : y # x => NewestFirst(y, x)}
<1>1. ASSUME NEW V \in SUBSET S, \A x \in V : V \ {x} \in C PROVE V \in C
  <2> SUFFICES ASSUME V # {} PROVE \E x \in V : \A y \in V : y # x => NewestFirst(y, x)
    OBVIOUS
  <2>1. PICK v \in V : TRUE
    OBVIOUS
  <2>2. CASE V \ {v} = {}
    BY <2>1, <2>2
  <2>3. CASE V \ {v} # {}
    <3>1. PICK x \in V \ {v} : \A y \in V \ {v} : y # x => NewestFirst(y, x)
      BY <1>1, <2>1, <2>3
    <3>2. x \in Entry /\ v \in Entry /\ v.id # x.id /\ \A y \in V : y \in Entry
      BY <2>1
    <3>3. CASE NewestFirst(v, x)
      BY <3>1, <3>3
    <3>4. CASE NewestFirst(x, v)
      <4>1. ASSUME NEW y \in V, y # v PROVE NewestFirst(y, v)
        BY <3>1, <3>2, <3>4, <4>1, NewestFirstOrders
      <4> QED
        BY <2>1, <4>1
    <3> QED
      BY <3>2, <3>3, <3>4, NewestFirstOrders
  <2> QED
    BY <2>2, <2>3
<1>2. C = SUBSET S
  <2>1. C \in SUBSET (SUBSET S)
    OBVIOUS
  <2> HIDE DEF C
  <2> QED
    BY <1>1, <2>1, SubsetInduction
<1> QED
  BY <1>2

LEMMA PapersOrdered ==
  ASSUME NEW S \in SUBSET Entry, IsFiniteSet(S), \A p, q \in S : p.id = q.id => p = q
  PROVE  \E s \in SetToSeqs(S) : InOrder(s)
<1> DEFINE C == {V \in SUBSET S : \E s \in SetToSeqs(V) : InOrder(s)}
<1>1. ASSUME NEW V \in SUBSET S, \A x \in V : V \ {x} \in C PROVE V \in C
  <2>1. IsFiniteSet(V) /\ Cardinality(V) \in Nat
    BY FS_Subset, FS_CardinalityType
  <2>2. CASE V = {}
    <3>1. Cardinality(V) = 0
      BY <2>2, FS_EmptySet
    <3>2. [i \in 1 .. 0 |-> i] \in SetToSeqs(V) /\ InOrder([i \in 1 .. 0 |-> i])
      BY <3>1 DEF SetToSeqs, InOrder
    <3> QED
      BY <3>2
  <2>3. CASE V # {}
    <3>1. PICK x \in V : \A y \in V : y # x => NewestFirst(y, x)
      BY <2>1, <2>3, LastPaper
    <3> DEFINE n == Cardinality(V \ {x})
    <3>2. Cardinality(V) = n + 1 /\ n \in Nat
      <4>1. IsFiniteSet(V \ {x}) /\ n = Cardinality(V) - 1
        BY <2>1, <3>1, FS_RemoveElement
      <4>2. n \in Nat
        BY <4>1, FS_CardinalityType
      <4> HIDE DEF n
      <4> QED
        BY <2>1, <4>1, <4>2
    <3>3. PICK s \in SetToSeqs(V \ {x}) : InOrder(s)
      BY <1>1, <3>1
    <3>4. s \in [1 .. n -> V \ {x}] /\ \A i, j \in 1 .. n : i # j => s[i] # s[j]
      BY <3>3 DEF SetToSeqs
    <3> HIDE DEF n
    <3> DEFINE t == [i \in 1 .. n + 1 |-> IF i = n + 1 THEN x ELSE s[i]]
    <3>5. /\ t \in [1 .. n + 1 -> V] /\ t[n + 1] = x
          /\ \A i \in 1 .. n : t[i] = s[i] /\ t[i] \in V \ {x}
      BY <3>1, <3>2, <3>4
    <3>6. \A i \in 1 .. n + 1 : i # n + 1 => i \in 1 .. n
      BY <3>2
    <3> HIDE DEF t
    <3>7. t \in SetToSeqs(V)
      <4>1. \A i, j \in 1 .. n + 1 : i # j => t[i] # t[j]
        BY <3>4, <3>5, <3>6
      <4> QED
        BY <3>2, <3>5, <4>1 DEF SetToSeqs
    <3>8. InOrder(t)
      <4>1. ASSUME NEW i \in 1 .. n + 1, NEW j \in 1 .. n + 1, i < j
            PROVE  NewestFirst(t[i], t[j])
        <5>1. i \in 1 .. n
          BY <3>2, <4>1
        <5>2. CASE j = n + 1
          BY <3>1, <3>5, <5>1, <5>2
        <5>3. CASE j # n + 1
          BY <3>3, <3>4, <3>5, <3>6, <4>1, <5>1, <5>3 DEF InOrder
        <5> QED
          BY <5>2, <5>3
      <4> QED
        BY <3>5, <4>1 DEF InOrder
    <3> QED
      BY <3>7, <3>8
  <2> QED
    BY <2>2, <2>3
<1>2. C = SUBSET S
  <2>1. C \in SUBSET (SUBSET S)
    OBVIOUS
  <2> HIDE DEF C
  <2> QED
    BY <1>1, <2>1, SubsetInduction
<1> QED
  BY <1>2

\* The filter returns the newest of what it keeps, each once and in order.
LEMMA FilterOrders ==
  ASSUME NEW sent \in Seq(Entry)
  PROVE  LET papers == FilterRecentPapers(sent)
         IN  \E s : /\ s \in [1 .. Len(s) -> KeptOf(sent)] /\ Len(s) \in Nat /\ InOrder(s)
                    /\ \A p \in KeptOf(sent) : \E k \in 1 .. Len(s) : s[k] = p
                    /\ \A i, j \in 1 .. Len(s) : i # j => s[i] # s[j]
                    /\ Len(papers) = (IF Len(s) < MaxResults THEN Len(s) ELSE MaxResults)
                    /\ DOMAIN papers = 1 .. Len(papers)
                    /\ \A k \in 1 .. Len(papers) : papers[k] = s[k]
<1> DEFINE kept == KeptOf(sent)
           n == Cardinality(kept)
           s == CHOOSE r \in SetToSeqs(kept) :
                  \A i, j \in DOMAIN r : i < j => NewestFirst(r[i], r[j])
           m == IF Len(s) < MaxResults THEN Len(s) ELSE MaxResults
<1>1. kept \in SUBSET Entry /\ IsFiniteSet(kept) /\ n \in Nat
  BY KeptOnce, FS_CardinalityType
<1>2. s \in SetToSeqs(kept) /\ InOrder(s)
  <2>1. \E r \in SetToSeqs(kept) : \A i, j \in DOMAIN r : i < j => NewestFirst(r[i], r[j])
    BY KeptOnce, PapersOrdered DEF InOrder
  <2> QED
    BY <2>1 DEF InOrder
<1>3. FilterRecentPapers(sent) = SubSeq(s, 1, m)
  BY DEF FilterRecentPapers, KeptOf
<1> HIDE DEF s, kept
<1>4. s \in [1 .. n -> kept] /\ \A i, j \in 1 .. n : i # j => s[i] # s[j]
  BY <1>2 DEF SetToSeqs
<1>5. s \in Seq(kept) /\ Len(s) = n
  BY <1>1, <1>4, IsASeq
<1>6. \A p \in kept : \E k \in 1 .. n : s[k] = p
  <2>1. s \in Injection(1 .. n, kept)
    BY <1>4 DEF Injection, IsInjective
  <2>2. Cardinality(1 .. n) = n
    <3>1. 1 \in Int /\ n \in Int /\ (n >= 1 => n - 1 + 1 = n) /\ (1 > n => n = 0)
      BY <1>1
    <3>2. Cardinality(1 .. n) = IF 1 > n THEN 0 ELSE n - 1 + 1
      BY <3>1, FS_Interval
    <3> HIDE DEF n
    <3> QED
      BY <1>1, <3>1, <3>2
  <2>3. s \in Surjection(1 .. n, kept)
    BY <1>1, <2>1, <2>2, FS_Injection
  <2> QED
    BY <2>3 DEF Surjection
<1>7. m \in Nat /\ m =< n
  BY <1>1, <1>5, DiscoveryAssumption DEF DiscoveryAssumption
<1> HIDE DEF m, n
<1>8. Len(SubSeq(s, 1, m)) = m /\ DOMAIN SubSeq(s, 1, m) = 1 .. m
      /\ \A k \in 1 .. m : SubSeq(s, 1, m)[k] = s[k]
  <2>1. \A k \in 1 .. m : s[k] \in kept
    BY <1>1, <1>4, <1>7
  <2>2. SubSeq(s, 1, m) \in Seq(kept) /\ Len(SubSeq(s, 1, m)) = m
        /\ \A k \in 1 .. m : SubSeq(s, 1, m)[k] = s[k]
    BY <1>1, <1>5, <1>7, <2>1, SubSeqProperties
  <2> QED
    BY <2>2, LenProperties
<1>9. /\ s \in [1 .. Len(s) -> KeptOf(sent)] /\ Len(s) \in Nat /\ InOrder(s)
      /\ \A p \in KeptOf(sent) : \E k \in 1 .. Len(s) : s[k] = p
      /\ \A i, j \in 1 .. Len(s) : i # j => s[i] # s[j]
  BY <1>1, <1>2, <1>4, <1>5, <1>6 DEF kept
<1>10. /\ Len(FilterRecentPapers(sent)) = (IF Len(s) < MaxResults THEN Len(s) ELSE MaxResults)
       /\ DOMAIN FilterRecentPapers(sent) = 1 .. Len(FilterRecentPapers(sent))
       /\ \A k \in 1 .. Len(FilterRecentPapers(sent)) : FilterRecentPapers(sent)[k] = s[k]
  <2>1. Len(FilterRecentPapers(sent)) = m
    BY <1>3, <1>8
  <2>2. m = IF Len(s) < MaxResults THEN Len(s) ELSE MaxResults
    BY DEF m
  <2> QED
    BY <1>3, <1>8, <2>1, <2>2
<1> QED
  BY <1>9, <1>10

LEMMA AskedFor == MaxResults \in Nat \ {0}
BY DiscoveryAssumption, Zenon

LEMMA FilterWhole ==
  ASSUME NEW sent \in Seq(Entry)
  PROVE  NamesNewest(FilterRecentPapers(sent), sent)
<1> DEFINE papers == FilterRecentPapers(sent)
           new    == {i \in DOMAIN sent : InWindow(sent[i])}
           Of(id) == {i \in new : sent[i].id = id}
           named  == {paper.id : paper \in ToSet(papers)}
<1>1. PICK s : /\ s \in [1 .. Len(s) -> KeptOf(sent)] /\ Len(s) \in Nat /\ InOrder(s)
               /\ \A p \in KeptOf(sent) : \E k \in 1 .. Len(s) : s[k] = p
               /\ \A i, j \in 1 .. Len(s) : i # j => s[i] # s[j]
               /\ Len(papers) = (IF Len(s) < MaxResults THEN Len(s) ELSE MaxResults)
               /\ DOMAIN papers = 1 .. Len(papers)
               /\ \A k \in 1 .. Len(papers) : papers[k] = s[k]
  BY FilterOrders
<1> HIDE DEF papers
<1>2. /\ \A p \in KeptOf(sent) : p \in Entry /\ p.id \in Int /\ p.published \in Int
      /\ \A p, q \in KeptOf(sent) : p.id = q.id => p = q
  <2>1. \A x \in Entry : x.id \in Int /\ x.published \in Int
    BY DEF Entry
  <2> QED
    BY <2>1, KeptOnce
<1>3. \A p \in KeptOf(sent) : \E j \in new : p = sent[j] /\ LatestVersion(sent, j)
  BY DEF KeptOf
<1>4. MaxResults \in Nat \ {0} /\ Len(papers) \in Nat /\ Len(papers) =< Len(s)
  <2>1. MaxResults \in Nat \ {0}
    BY AskedFor
  <2> QED
    BY <1>1, <2>1
<1>5. /\ \A k \in DOMAIN papers : k \in 1 .. Len(s) /\ papers[k] = s[k] /\ papers[k] \in KeptOf(sent)
      /\ \A paper \in ToSet(papers) : \E k \in DOMAIN papers : paper = papers[k]
      /\ \A k \in DOMAIN papers : papers[k] \in ToSet(papers)
  <2>1. \A k \in 1 .. Len(papers) : k \in 1 .. Len(s)
    BY <1>1, <1>4
  <2>2. \A k \in DOMAIN papers : k \in 1 .. Len(s) /\ papers[k] = s[k] /\ papers[k] \in KeptOf(sent)
    BY <1>1, <2>1
  <2> QED
    BY <2>2 DEF ToSet
<1>6. named \subseteq {sent[i].id : i \in new}
  BY <1>3, <1>5
<1>7. IsInjective([k \in DOMAIN papers |-> papers[k].id])
  <2>1. ASSUME NEW k \in DOMAIN papers, NEW l \in DOMAIN papers, papers[k].id = papers[l].id
        PROVE  k = l
    BY <1>1, <1>2, <1>5, <2>1
  <2> QED
    BY <2>1 DEF IsInjective
<1>8. ASSUME NEW k \in 1 .. Len(s), NEW l \in 1 .. Len(s), k < l
      PROVE  s[l].published =< s[k].published
  <2>1. NewestFirst(s[k], s[l])
    BY <1>1, <1>8 DEF InOrder
  <2>2. s[k].published \in Int /\ s[l].published \in Int
    BY <1>1, <1>2
  <2> QED
    BY <2>1, <2>2 DEF NewestFirst
<1>9. \A k, l \in DOMAIN papers : k < l => papers[l].published =< papers[k].published
  BY <1>5, <1>8
<1>10. ASSUME NEW paper \in ToSet(papers), NEW i \in Of(paper.id)
       PROVE  sent[i].updated =< paper.updated
  <2>1. PICK j \in new : paper = sent[j] /\ LatestVersion(sent, j)
    BY <1>3, <1>5
  <2>2. i \in DOMAIN sent /\ sent[i].id = sent[j].id /\ InWindow(sent[i]) /\ j \in DOMAIN sent
    BY <2>1
  <2>3. sent[i].updated < sent[j].updated \/ sent[i].updated = sent[j].updated
    BY <2>1, <2>2 DEF LatestVersion
  <2>4. sent[i].updated \in Int /\ sent[j].updated \in Int
    BY <2>2, SentEntries
  <2> QED
    BY <2>1, <2>3, <2>4
<1>11. ASSUME NEW i \in new, sent[i].id \notin named
       PROVE  /\ Len(papers) = MaxResults
              /\ \E j \in Of(sent[i].id) :
                   \A paper \in ToSet(papers) : sent[j].published =< paper.published
  <2>1. PICK j \in DOMAIN sent :
          /\ InWindow(sent[j]) /\ sent[j].id = sent[i].id /\ LatestVersion(sent, j)
    BY VersionKept
  <2>2. sent[j] \in KeptOf(sent) /\ j \in Of(sent[i].id)
    BY <2>1 DEF KeptOf
  <2>3. PICK k \in 1 .. Len(s) : s[k] = sent[j]
    BY <1>1, <2>2
  <2>4. k \notin 1 .. Len(papers)
    <3>1. ASSUME k \in 1 .. Len(papers) PROVE FALSE
      <4>1. papers[k] = sent[j] /\ papers[k] \in ToSet(papers)
        BY <1>1, <1>5, <2>3, <3>1
      <4>2. sent[i].id \in named
        BY <2>1, <4>1
      <4> QED
        BY <1>11, <4>2
    <3> QED
      BY <3>1
  <2>5. k > Len(papers) /\ Len(papers) < Len(s)
    BY <1>1, <1>4, <2>3, <2>4
  <2>6. Len(papers) = MaxResults
    <3>1. Len(papers) = IF Len(s) < MaxResults THEN Len(s) ELSE MaxResults
      BY <1>1
    <3>2. Len(s) \in Nat
      BY <1>1
    <3> HIDE DEF new, named
    <3> QED
      BY <1>4, <2>5, <3>1, <3>2
  <2>7. ASSUME NEW paper \in ToSet(papers) PROVE sent[j].published =< paper.published
    <3>1. PICK l \in DOMAIN papers : paper = papers[l]
      BY <1>5
    <3>2. l \in 1 .. Len(s) /\ paper = s[l] /\ l < k
      BY <1>1, <1>4, <1>5, <2>3, <2>5, <3>1
    <3> QED
      BY <1>8, <2>3, <3>2
  <2> QED
    BY <2>2, <2>6, <2>7
<1>12. NamesNewest(papers, sent)
  BY <1>6, <1>7, <1>9, <1>10, <1>11 DEF NamesNewest
<1> QED
  BY <1>12 DEF papers

\* Where a scan stands; one that is complete settled the race.
ScanInv ==
  /\ request = "reading" => response \in Answers
  /\ \/ scan \in {NoScan, FailedScan}
     \/ /\ request = "settled" /\ timer = "cleared"
        /\ response \in Answers /\ chunks = response.chunks
        /\ Parses(response.body) /\ scan = CompleteScan(response.body)

LEMMA ScanInvHolds == DiscoverySpec => []ScanInv
<1>1. DiscoveryInit => ScanInv
  BY DEF DiscoveryInit, ScanInv
<1>2. ScanInv /\ [DiscoveryNext]_discoveryVars => ScanInv'
  <2> SUFFICES ASSUME ScanInv, [DiscoveryNext]_discoveryVars PROVE ScanInv'
    OBVIOUS
  <2>1. CASE Discover
    BY <2>1 DEF Discover, ScanInv
  <2>2. CASE Respond
    BY <2>2 DEF Respond, Settle, ScanInv
  <2>3. CASE ReadChunk
    BY <2>3 DEF ReadChunk, Settle, ScanInv
  <2>4. CASE ReadEnd
    <3>1. /\ request = "reading" /\ response \in Answers /\ scan \in {NoScan, FailedScan}
          /\ response' = response /\ chunks' = chunks
      BY <2>4 DEF ReadEnd, ScanInv
    <3>2. CASE Settle(FailedScan)
      BY <3>1, <3>2 DEF Settle, ScanInv
    <3>3. CASE /\ chunks = response.chunks /\ Parses(response.body)
               /\ Settle(CompleteScan(response.body))
      BY <3>1, <3>3 DEF Settle, ScanInv
    <3> QED
      BY <2>4, <3>2, <3>3 DEF ReadEnd
  <2>5. CASE RequestFails
    BY <2>5 DEF RequestFails, Settle, ScanInv
  <2>6. CASE Deadline
    BY <2>6 DEF Deadline, ScanInv
  <2>7. CASE UNCHANGED discoveryVars
    BY <2>7 DEF discoveryVars, ScanInv
  <2> QED
    BY <2>1, <2>2, <2>3, <2>4, <2>5, <2>6, <2>7 DEF DiscoveryNext
<1> QED
  BY <1>1, <1>2, PTL DEF DiscoverySpec

\* A complete scan read the whole answer in time and names the newest papers of
\* the window, each once, in its latest version and in order; one that is not
\* complete names none (discoverPapers, parseFeed and filterRecentPapers).
THEOREM ScanIsWholeCorrect == DiscoverySpec => []ScanIsWhole
<1>1. ScanInv => ScanIsWhole
  <2> SUFFICES ASSUME ScanInv, scan # NoScan PROVE ScanIsWhole
    BY DEF ScanIsWhole
  <2>1. CASE scan = FailedScan
    <3>1. ~scan.complete /\ scan.papers = <<>>
      BY <2>1 DEF FailedScan
    <3> QED
      BY <3>1 DEF ScanIsWhole
  <2>2. CASE scan # FailedScan
    <3> DEFINE body == response.body
               sent == response.body.entries
    <3>1. /\ timer = "cleared" /\ chunks = response.chunks
          /\ response \in Answers /\ Parses(body) /\ scan = CompleteScan(body)
      BY <2>2 DEF ScanInv
    <3>2. scan.complete /\ scan.papers = FilterRecentPapers(sent) /\ scan.truncated = Truncated(body)
      BY <3>1 DEF CompleteScan
    <3>3. /\ body # NotAtom /\ (sent = <<>> => body.total = 0)
          /\ body.total # NoTotal => Len(sent) =< body.total
      BY <3>1 DEF Parses
    <3>4. sent \in Seq(Entry) /\ body.total \in Nat \cup {NoTotal}
      BY <3>1, <3>3, DiscoveryAssumption DEF DiscoveryAssumption
    <3>5. scan.truncated \/ body.total \in {NoTotal, Len(sent)}
      <4>1. Len(sent) \in Nat
        BY <3>4, SentEntries
      <4>2. CASE body.total = NoTotal
        BY <4>2
      <4>3. CASE body.total # NoTotal
        <5>1. body.total \in Nat /\ Len(sent) =< body.total
          BY <3>3, <3>4, <4>3
        <5>2. Truncated(body) <=> Len(sent) < body.total
          BY <4>3 DEF Truncated
        <5>3. Len(sent) < body.total \/ body.total = Len(sent)
          BY <4>1, <5>1
        <5> QED
          BY <3>2, <5>2, <5>3
      <4> QED
        BY <4>2, <4>3
    <3> HIDE DEF body
    <3>6. NamesNewest(scan.papers, sent)
      BY <3>2, <3>4, FilterWhole
    <3> QED
      BY <3>1, <3>2, <3>3, <3>5, <3>6 DEF ScanIsWhole, body
  <2> QED
    BY <2>1, <2>2
<1> QED
  BY <1>1, ScanInvHolds, PTL

-----------------------------------------------------------------------------
(* The evidence gates, for every set of policies and records and any       *)
(* number of submissions and amendments.                                   *)

LEMMA AppendGrows ==
  ASSUME NEW S, NEW s \in Seq(S), NEW x \in S
  PROVE  LET t == Append(s, x)
         IN  /\ t \in Seq(S) /\ Len(s) \in Nat
             /\ DOMAIN s = 1 .. Len(s) /\ DOMAIN t = DOMAIN s \cup {Len(s) + 1}
             /\ Len(s) + 1 \notin DOMAIN s
             /\ t[Len(s) + 1] = x /\ \A i \in DOMAIN s : t[i] = s[i]
             /\ ToSet(t) = ToSet(s) \cup {x}
<1> DEFINE t == Append(s, x)
<1>1. /\ t \in Seq(S) /\ Len(s) \in Nat /\ Len(t) = Len(s) + 1
      /\ DOMAIN s = 1 .. Len(s) /\ DOMAIN t = 1 .. Len(t)
      /\ t[Len(s) + 1] = x /\ \A i \in 1 .. Len(s) : t[i] = s[i]
  BY AppendProperties, LenProperties
<1> HIDE DEF t
<1>2. DOMAIN t = DOMAIN s \cup {Len(s) + 1} /\ Len(s) + 1 \notin DOMAIN s
  BY <1>1
<1>3. ToSet(t) = ToSet(s) \cup {x}
  BY <1>1, <1>2 DEF ToSet
<1> QED
  BY <1>1, <1>2, <1>3 DEF t

\* The events of a valid trace have ever later steps.
LEMMA StepsAscend ==
  ASSUME NEW S, \A event \in S : event.step \in Int, NEW w \in Seq(S), ValidTrace(w),
         NEW i \in DOMAIN w, NEW j \in DOMAIN w, i < j
  PROVE  w[i].step < w[j].step
<1> DEFINE N == {d \in Nat : \A k \in 1 .. Len(w) :
                   k + d + 1 =< Len(w) => w[k].step < w[k + d + 1].step}
<1>1. /\ Len(w) \in Nat /\ DOMAIN w = 1 .. Len(w)
      /\ \A k \in 1 .. Len(w) : w[k].step \in Int
  BY ElementOfSeq, LenProperties
<1>2. \A k \in 1 .. Len(w) : k + 1 =< Len(w) => w[k].step < w[k + 1].step
  <2>1. ASSUME NEW k \in 1 .. Len(w), k + 1 =< Len(w) PROVE w[k].step < w[k + 1].step
    <3>1. k + 1 \in 2 .. Len(w) /\ (k + 1) - 1 = k
      BY <1>1, <2>1
    <3> QED
      BY <3>1 DEF ValidTrace
  <2> QED
    BY <2>1
<1>3. 0 \in N
  <2>1. \A k \in 1 .. Len(w) : k + 0 + 1 = k + 1
    BY <1>1
  <2> QED
    BY <1>2, <2>1
<1>4. ASSUME NEW d \in N PROVE d + 1 \in N
  <2>1. ASSUME NEW k \in 1 .. Len(w), k + (d + 1) + 1 =< Len(w)
        PROVE  w[k].step < w[k + (d + 1) + 1].step
    <3>1. /\ d \in Nat /\ k + d + 1 =< Len(w) /\ k + d + 1 \in 1 .. Len(w)
          /\ (k + d + 1) + 1 = k + (d + 1) + 1 /\ k + (d + 1) + 1 \in 1 .. Len(w)
      BY <1>1, <2>1
    <3>2. w[k].step < w[k + d + 1].step
      BY <3>1
    <3>3. w[k + d + 1].step < w[k + (d + 1) + 1].step
      BY <1>2, <2>1, <3>1
    <3>4. /\ w[k].step \in Int /\ w[k + d + 1].step \in Int
          /\ w[k + (d + 1) + 1].step \in Int
      BY <1>1, <3>1
    <3> HIDE DEF N
    <3> QED
      BY <3>2, <3>3, <3>4
  <2>2. d + 1 \in Nat
    OBVIOUS
  <2> QED
    BY <2>1, <2>2
<1>5. N = Nat
  <2>1. N \in SUBSET Nat
    OBVIOUS
  <2> HIDE DEF N
  <2> QED
    BY <1>3, <1>4, <2>1, NatSetInduction
<1>6. j - i - 1 \in Nat /\ i + (j - i - 1) + 1 = j /\ i \in 1 .. Len(w) /\ j =< Len(w)
  BY <1>1
<1>7. j - i - 1 \in N
  BY <1>5, <1>6
<1>8. i + (j - i - 1) + 1 =< Len(w) => w[i].step < w[i + (j - i - 1) + 1].step
  BY <1>6, <1>7
<1> QED
  BY <1>6, <1>8

\* What is recorded is finalised with what was recorded before it, and with
\* nothing else.
LEMMA ReplayBinds ==
  ASSUME NEW S, \A event \in S : event.step \in Int,
         NEW events \in Seq(S), NEW k \in DOMAIN events,
         NEW prefix \in Seq(S), NEW anchor \in S, NEW suffix \in Seq(S)
  PROVE  LET plan == AnchoredReplay(events, k)
         IN  FinalizeReplay(plan, prefix, anchor, suffix)
               <=> /\ prefix = plan.prefix /\ anchor = plan.anchor
                   /\ ValidTrace(prefix \o <<anchor>> \o suffix)
<1> DEFINE plan == AnchoredReplay(events, k)
           w == prefix \o <<anchor>> \o suffix
           n == Len(prefix)
<1>1. plan.anchor = events[k] /\ plan.prefixLength = k - 1 /\ plan.prefix = SubSeq(events, 1, k - 1)
  BY DEF AnchoredReplay
<1>2. Len(SubSeq(events, 1, k - 1)) = k - 1
  <2>1. k \in 1 .. Len(events) /\ Len(events) \in Nat
    BY LenProperties
  <2>2. 1 \in Int /\ k - 1 \in Int /\ k - 1 =< Len(events) /\ 1 =< (k - 1) + 1
    BY <2>1
  <2>3. \A i \in 1 .. k - 1 : events[i] \in S
    BY <2>1, ElementOfSeq
  <2> QED
    BY <2>1, <2>2, <2>3, SubSeqProperties
<1>3. /\ w \in Seq(S) /\ n \in Nat /\ Len(suffix) \in Nat /\ Len(w) = n + 1 + Len(suffix)
      /\ DOMAIN w = 1 .. Len(w) /\ DOMAIN prefix = 1 .. n /\ DOMAIN suffix = 1 .. Len(suffix)
      /\ \A i \in 1 .. n : w[i] = prefix[i]
      /\ w[n + 1] = anchor
      /\ \A i \in 1 .. Len(suffix) : w[n + 1 + i] = suffix[i]
  <2> DEFINE u == prefix \o <<anchor>>
  <2>1. /\ <<anchor>> \in Seq(S) /\ Len(<<anchor>>) = 1 /\ <<anchor>>[1] = anchor
        /\ n \in Nat /\ Len(suffix) \in Nat
    BY LenProperties
  <2> HIDE DEF n
  <2>2. /\ u \in Seq(S) /\ Len(u) = n + 1
        /\ \A i \in 1 .. n + 1 : u[i] = IF i <= n THEN prefix[i] ELSE <<anchor>>[i - n]
    <3>1. /\ u \in Seq(S) /\ Len(u) = Len(prefix) + Len(<<anchor>>)
          /\ \A i \in 1 .. Len(prefix) + Len(<<anchor>>) :
               u[i] = IF i <= Len(prefix) THEN prefix[i] ELSE <<anchor>>[i - Len(prefix)]
      BY <2>1, ConcatProperties
    <3> QED
      BY <2>1, <3>1 DEF n
  <2>3. \A i \in 1 .. n : u[i] = prefix[i]
    BY <2>1, <2>2
  <2>4. u[n + 1] = anchor
    <3>1. n + 1 \in 1 .. n + 1 /\ ~ (n + 1 <= n) /\ (n + 1) - n = 1
      BY <2>1
    <3> QED
      BY <2>1, <2>2, <3>1
  <2> HIDE DEF u
  <2>5. /\ u \o suffix \in Seq(S) /\ Len(u \o suffix) = (n + 1) + Len(suffix)
        /\ \A i \in 1 .. (n + 1) + Len(suffix) :
             (u \o suffix)[i] = IF i <= n + 1 THEN u[i] ELSE suffix[i - (n + 1)]
    BY <2>2, ConcatProperties
  <2>6. \A i \in 1 .. n + 1 : (u \o suffix)[i] = u[i]
    <3>1. \A i \in 1 .. n + 1 : i \in 1 .. (n + 1) + Len(suffix) /\ i <= n + 1
      BY <2>1
    <3> QED
      BY <2>5, <3>1
  <2>7. \A i \in 1 .. Len(suffix) : (u \o suffix)[n + 1 + i] = suffix[i]
    <3>1. \A i \in 1 .. Len(suffix) :
            /\ n + 1 + i \in 1 .. (n + 1) + Len(suffix) /\ ~ (n + 1 + i <= n + 1)
            /\ (n + 1 + i) - (n + 1) = i
      BY <2>1
    <3> QED
      BY <2>5, <3>1
  <2>8. \A i \in 1 .. n : i \in 1 .. n + 1
    BY <2>1
  <2>9. n + 1 \in 1 .. n + 1
    BY <2>1
  <2> QED
    BY <2>1, <2>3, <2>4, <2>5, <2>6, <2>7, <2>8, <2>9, LenProperties DEF u, n
<1> HIDE DEF w, n, plan
<1>4. ASSUME prefix = plan.prefix, anchor = plan.anchor, ValidTrace(w)
      PROVE  FinalizeReplay(plan, prefix, anchor, suffix)
  <2>1. /\ \A i, j \in DOMAIN w : w[i].id = w[j].id => i = j
        /\ \A i \in 2 .. Len(w) : w[i - 1].step < w[i].step
    BY <1>4 DEF ValidTrace, Repeats, EventId
  <2>2. /\ \A i \in 1 .. n : i \in DOMAIN w
        /\ \A i \in 1 .. Len(suffix) : n + 1 + i \in DOMAIN w /\ n + 1 < n + 1 + i
        /\ n + 1 \in DOMAIN w
    BY <1>3
  <2>3. ValidTrace(prefix)
    <3>1. \A i, j \in DOMAIN prefix : prefix[i].id = prefix[j].id => i = j
      BY <1>3, <2>1, <2>2
    <3>2. ASSUME NEW i \in 2 .. Len(prefix) PROVE prefix[i - 1].step < prefix[i].step
      <4>1. i \in 2 .. Len(w) /\ i \in 1 .. n /\ i - 1 \in 1 .. n
        BY <1>3 DEF n
      <4> QED
        BY <1>3, <2>1, <4>1
    <3> QED
      BY <3>1, <3>2 DEF ValidTrace, Repeats, EventId
  <2>4. ValidTrace(suffix)
    <3>1. ASSUME NEW i \in DOMAIN suffix, NEW j \in DOMAIN suffix, suffix[i].id = suffix[j].id
          PROVE  i = j
      <4>1. /\ i \in 1 .. Len(suffix) /\ j \in 1 .. Len(suffix)
            /\ w[n + 1 + i] = suffix[i] /\ w[n + 1 + j] = suffix[j]
        BY <1>3
      <4>2. n + 1 + i \in DOMAIN w /\ n + 1 + j \in DOMAIN w
        BY <2>2, <4>1
      <4>3. n + 1 + i = n + 1 + j
        BY <2>1, <3>1, <4>1, <4>2, Zenon
      <4> QED
        BY <1>3, <4>1, <4>3
    <3>2. ASSUME NEW i \in 2 .. Len(suffix) PROVE suffix[i - 1].step < suffix[i].step
      <4>1. /\ n + 1 + i \in 2 .. Len(w) /\ i \in 1 .. Len(suffix) /\ i - 1 \in 1 .. Len(suffix)
            /\ (n + 1 + i) - 1 = n + 1 + (i - 1)
        BY <1>3
      <4> QED
        BY <1>3, <2>1, <4>1
    <3> QED
      BY <3>1, <3>2 DEF ValidTrace, Repeats, EventId
  <2>5. ASSUME NEW e \in ToSet(suffix)
        PROVE  /\ e.step > anchor.step
               /\ e.id \notin {anchor.id} \cup {f.id : f \in ToSet(prefix)}
    <3>1. PICK i \in DOMAIN suffix : e = suffix[i]
      BY DEF ToSet
    <3>2. e = w[n + 1 + i] /\ n + 1 + i \in DOMAIN w /\ n + 1 < n + 1 + i /\ anchor = w[n + 1]
      BY <1>3, <2>2, <3>1
    <3>3. w[n + 1].step < w[n + 1 + i].step
      BY <1>3, <1>4, <2>2, <3>2, StepsAscend
    <3>4. e.step \in Int /\ anchor.step \in Int
      BY <1>3, <3>1, ElementOfSeq
    <3>5. e.id # anchor.id
      <4>1. n + 1 \in DOMAIN w /\ n + 1 + i # n + 1
        <5>1. i \in 1 .. Len(suffix)
          BY <1>3
        <5>2. n + 1 + i # n + 1
          BY <1>3, <5>1
        <5> QED
          BY <2>2, <5>2
      <4> QED
        BY <2>1, <3>2, <4>1, Zenon
    <3>6. ASSUME NEW f \in ToSet(prefix) PROVE e.id # f.id
      <4>1. PICK j \in DOMAIN prefix : f = prefix[j]
        BY DEF ToSet
      <4>2. f = w[j] /\ j \in DOMAIN w /\ j # n + 1 + i
        BY <1>3, <2>2, <3>1, <4>1
      <4> QED
        BY <2>1, <3>2, <4>2
    <3> QED
      BY <3>2, <3>3, <3>4, <3>5, <3>6
  <2>6. VerifyReplayPrefix(plan, prefix)
    BY <1>1, <1>2, <1>4, <2>3 DEF VerifyReplayPrefix
  <2> QED
    BY <1>4, <2>4, <2>5, <2>6 DEF FinalizeReplay, w
<1>5. ASSUME FinalizeReplay(plan, prefix, anchor, suffix)
      PROVE  prefix = plan.prefix /\ anchor = plan.anchor /\ ValidTrace(w)
  BY <1>5 DEF FinalizeReplay, VerifyReplayPrefix, w
<1> QED
  BY <1>4, <1>5 DEF plan, w

\* Without repeated identifiers the events cited are those the claim names.
LEMMA CitedIs ==
  ASSUME NEW S, NEW trace \in Seq(S), ~Repeats(trace, EventId), NEW claim
  PROVE  Cited(claim, trace) = {e \in ToSet(trace) : e.id \in claim.evidence}
<1>1. Len(trace) \in Nat /\ DOMAIN trace = 1 .. Len(trace)
  BY LenProperties
<1>2. \A i, j \in DOMAIN trace : trace[i].id = trace[j].id => i = j
  BY DEF Repeats, EventId
<1>3. ASSUME NEW j \in DOMAIN trace, NEW i \in 1 .. j - 1 PROVE trace[i].id # trace[j].id
  <2>1. i \in DOMAIN trace /\ i # j
    BY <1>1
  <2> QED
    BY <1>2, <2>1
<1> QED
  BY <1>3 DEF Cited, ToSet

\* A certificate holds for the trace it was issued for, in any order, and for
\* no other.
LEMMA CertificateBinds ==
  ASSUME NEW S, NEW old \in Seq(S), NEW trace \in Seq(S), NEW claims,
         CompletionFailures(claims, old) = {}
  PROVE  LET certificate == Certificate(claims, old)
         IN  VerifyCertificate(certificate, trace)
               <=> ToSet(trace) = certificate.traceHash /\ IsInjective(trace)
<1> DEFINE certificate == Certificate(claims, old)
<1>1. /\ certificate.traceHash = ToSet(old)
      /\ {certified.claim : certified \in certificate.claims} = claims
  <2>1. /\ certificate.traceHash = ToSet(old)
        /\ certificate.claims
             = {[claim |-> claim, evidence |-> Cited(claim, old)] : claim \in claims}
    BY DEF Certificate
  <2> HIDE DEF certificate
  <2>2. \A x : [claim |-> x, evidence |-> Cited(x, old)].claim = x
    OBVIOUS
  <2>3. \A c \in certificate.claims : c.claim \in claims
    BY <2>1, <2>2
  <2>4. \A x \in claims : \E c \in certificate.claims : c.claim = x
    BY <2>1, <2>2
  <2>5. {certified.claim : certified \in certificate.claims} = claims
    BY <2>3, <2>4, Zenon
  <2> QED
    BY <2>1, <2>5
<1>2. VerifyCertificate(certificate, trace)
        <=> CompletionFailures(claims, trace) = {} /\ Certificate(claims, trace) = certificate
  BY <1>1 DEF VerifyCertificate
<1>3. /\ claims # {} /\ ~Repeats(old, EventId)
      /\ \A claim \in claims : ClaimFailures(claim, old) = {}
  BY DEF CompletionFailures
<1> HIDE DEF certificate
<1>4. ASSUME VerifyCertificate(certificate, trace)
      PROVE  ToSet(trace) = ToSet(old) /\ IsInjective(trace)
  <2>1. ~Repeats(trace, EventId) /\ Certificate(claims, trace) = certificate
    BY <1>2, <1>4 DEF CompletionFailures
  <2>2. IsInjective(trace)
    BY <2>1 DEF IsInjective, Repeats, EventId
  <2>3. ToSet(trace) = Certificate(claims, trace).traceHash
    BY DEF Certificate
  <2> QED
    BY <1>1, <2>1, <2>2, <2>3
<1>5. ASSUME ToSet(trace) = ToSet(old), IsInjective(trace)
      PROVE  VerifyCertificate(certificate, trace)
  <2>1. \A e, f \in ToSet(old) : e.id = f.id => e = f
    BY <1>3 DEF ToSet, Repeats, EventId
  <2>2. ~Repeats(trace, EventId)
    <3>1. ASSUME NEW i \in DOMAIN trace, NEW j \in DOMAIN trace, trace[i].id = trace[j].id
          PROVE  i = j
      <4>1. trace[i] \in ToSet(old) /\ trace[j] \in ToSet(old)
        BY <1>5 DEF ToSet
      <4> QED
        BY <1>5, <2>1, <3>1, <4>1 DEF IsInjective
    <3> QED
      BY <3>1 DEF Repeats, EventId
  <2>3. \A claim : Cited(claim, trace) = Cited(claim, old)
    BY <1>3, <1>5, <2>2, CitedIs
  <2>4. \A claim : ClaimFailures(claim, trace) = ClaimFailures(claim, old)
    BY <2>3 DEF ClaimFailures
  <2>5. Certificate(claims, trace) = certificate
    <3>1. {[claim |-> claim, evidence |-> Cited(claim, trace)] : claim \in claims}
            = {[claim |-> claim, evidence |-> Cited(claim, old)] : claim \in claims}
      BY <2>3
    <3> QED
      BY <1>5, <3>1, Zenon DEF Certificate, certificate
  <2>6. CompletionFailures(claims, trace) = {}
    BY <1>3, <2>2, <2>4 DEF CompletionFailures
  <2> QED
    BY <1>2, <2>5, <2>6
<1> QED
  BY <1>1, <1>4, <1>5 DEF certificate

\* A ruOS observation by what is wrong with it and what it lacks, and a pair by
\* its observations.
Runs(r) == {e \in ToSet(r) : e.kind = "run"}
Entries(r) == ToSet(r) \ Runs(r)

Broken(p, a, r, now) ==
  \/ p # a \/ Repeats(r, EntryOf)
  \/ \E e \in Runs(r) : e.refuted \/ e.says # e.executed \/ Ahead(p, e, now)
  \/ \E e \in Entries(r) : ~Declared(p, e)
  \/ \E e \in Entries(r) : e.kind = "assertion" /\ ~e.pass

Wanting(p, r, now) ==
  \/ \E e \in Runs(r) : e.lacking \/ Stale(p, e, now)
  \/ ({"assertion"} \X p.assertions) \cup ({"case"} \X p.cases)
        # {<<e.kind, e.id>> : e \in Entries(r)}
  \/ \E e \in Entries(r) : e.kind = "case" /\ e.samples < p.minSamples

LEMMA ObservationIs ==
  ASSUME NEW p, NEW a, NEW r, NEW now
  PROVE  EvaluateObservation(p, a, r, now)
           = IF ~ValidPolicy(p) THEN "REJECT" ELSE IF Runs(r) = {} THEN "INCONCLUSIVE"
             ELSE IF Broken(p, a, r, now) THEN "REJECT"
             ELSE IF Wanting(p, r, now) THEN "INCONCLUSIVE" ELSE "ACCEPT"
BY DEF EvaluateObservation, Runs, Entries, Broken, Wanting

OfArm(p, a, arm, r, now) == EvaluateObservation(p, a, ArmOf(arm, r), now)

Worse(p, r) ==
  \/ \E e \in ToSet(r) : e.kind = "run" /\ e.says # e.arm
  \/ \E b \in {e \in ToSet(r) : e.kind = "case" /\ e.arm = "baseline"},
        c \in {e \in ToSet(r) : e.kind = "case" /\ e.arm = "candidate"} :
       b.id = c.id /\ Regresses(p, b, c)

LEMMA PairIs ==
  ASSUME NEW p, NEW a, NEW r, NEW now
  PROVE  EvaluatePair(p, a, r, now)
           = IF OfArm(p, a, "baseline", r, now) = "REJECT" \/ OfArm(p, a, "candidate", r, now) = "REJECT"
             THEN "REJECT"
             ELSE IF OfArm(p, a, "baseline", r, now) = "INCONCLUSIVE"
                     \/ OfArm(p, a, "candidate", r, now) = "INCONCLUSIVE"
             THEN "INCONCLUSIVE" ELSE IF Worse(p, r) THEN "REJECT" ELSE "ACCEPT"
<1> DEFINE observed == [arm \in {"baseline", "candidate"} |-> ArmOf(arm, r)]
           statuses == {EvaluateObservation(p, a, observed[arm], now) : arm \in DOMAIN observed}
<1>1. statuses = {OfArm(p, a, "baseline", r, now), OfArm(p, a, "candidate", r, now)}
  BY DEF OfArm
<1>2. EvaluatePair(p, a, r, now)
        = IF "REJECT" \in statuses THEN "REJECT"
          ELSE IF "INCONCLUSIVE" \in statuses THEN "INCONCLUSIVE"
          ELSE IF Worse(p, r) THEN "REJECT" ELSE "ACCEPT"
  BY Zenon DEF EvaluatePair, Worse
<1> HIDE DEF statuses
<1> QED
  BY <1>1, <1>2

LEMMA ArmStatus ==
  \A p, a, arm, r, now : OfArm(p, a, arm, r, now) \in {"REJECT", "INCONCLUSIVE", "ACCEPT"}
BY ObservationIs DEF OfArm

\* An accepted pair has two accepted observations under the anchored policy.
LEMMA AcceptedPair ==
  ASSUME NEW p, NEW a, NEW r, NEW now, EvaluatePair(p, a, r, now) = "ACCEPT"
  PROVE  /\ p = a /\ ValidPolicy(p)
         /\ \A arm \in {"baseline", "candidate"} :
              /\ Runs(ArmOf(arm, r)) # {}
              /\ ~Broken(p, a, ArmOf(arm, r), now) /\ ~Wanting(p, ArmOf(arm, r), now)
<1>1. ASSUME NEW arm \in {"baseline", "candidate"} PROVE OfArm(p, a, arm, r, now) = "ACCEPT"
  BY PairIs, ArmStatus
<1>2. ASSUME NEW arm \in {"baseline", "candidate"}
      PROVE  /\ ValidPolicy(p) /\ Runs(ArmOf(arm, r)) # {}
             /\ ~Broken(p, a, ArmOf(arm, r), now) /\ ~Wanting(p, ArmOf(arm, r), now)
  BY <1>1, ObservationIs DEF OfArm
<1>3. p = a
  BY <1>2 DEF Broken
<1> QED
  BY <1>2, <1>3

\* What was submitted are records of the gate, and what was issued was issued
\* for such records.
GateInv ==
  /\ gate \in GateNames /\ policy \in PoliciesOf[gate]
  /\ evidence \in Seq(RecordsOf[gate] \cup ToSet(Baseline))
  /\ gate # "ruos" => evidence \in Seq(RecordsOf[gate])
  /\ issued # Unissued =>
       /\ gate = "completion" =>
            \E claims \in PoliciesOf[gate], old \in Seq(RecordsOf[gate]) :
              CompletionFailures(claims, old) = {} /\ issued = Certificate(claims, old)
       /\ gate = "replay" =>
            \E events \in Seq(RecordsOf[gate]) : \E k \in DOMAIN events :
              issued = AnchoredReplay(events, k)
       /\ gate = "report" =>
            \E report \in Seq(RecordsOf[gate]), commit \in PoliciesOf[gate] :
              issued = Stamp(report, commit)
       /\ gate = "ruos" =>
            \E p \in PoliciesOf[gate], now \in Nat,
               records \in Seq(RecordsOf[gate] \cup ToSet(Baseline)) :
              /\ issued = Receipt(p, records, now)
              /\ EvaluatePair(p, frozen, records, now) = "ACCEPT"
  /\ clock \in Nat

LEMMA GateInvHolds == GatesSpec => []GateInv
<1>1. GatesInit => GateInv
  <2> SUFFICES ASSUME GatesInit PROVE GateInv
    OBVIOUS
  <2>1. evidence = (IF gate = "ruos" THEN Baseline ELSE << >>)
    BY DEF GatesInit
  <2>2. /\ << >> \in Seq(RecordsOf[gate])
        /\ << >> \in Seq(RecordsOf[gate] \cup ToSet(Baseline))
        /\ Baseline \in Seq(RecordsOf[gate] \cup ToSet(Baseline))
    <3>1. /\ Len(Baseline) \in Nat /\ Baseline \in [1 .. Len(Baseline) -> ToSet(Baseline)]
      BY GatesAssumption, LenProperties
    <3>2. Baseline \in [1 .. Len(Baseline) -> RecordsOf[gate] \cup ToSet(Baseline)]
      BY <3>1
    <3> QED
      BY <3>1, <3>2, EmptySeq, IsASeq
  <2> QED
    BY <2>1, <2>2 DEF GateInv, GatesInit
<1>2. ASSUME GateInv, [GatesNext]_gateVars PROVE GateInv'
  <2>1. CASE Submit
    <3>1. PICK record \in RecordsOf[gate] : evidence' = Append(evidence, record)
      BY <2>1 DEF Submit
    <3>2. /\ evidence' \in Seq(RecordsOf[gate] \cup ToSet(Baseline))
          /\ gate # "ruos" => evidence' \in Seq(RecordsOf[gate])
      BY <1>2, <3>1, AppendProperties DEF GateInv
    <3>3. UNCHANGED <<gate, policy, frozen, issued, clock>>
      BY <2>1 DEF Submit
    <3> QED
      BY <1>2, <3>2, <3>3 DEF GateInv
  <2>2. CASE Amend
    BY <1>2, <2>2 DEF GateInv, Amend
  <2>3. CASE Issue
    <3>1. UNCHANGED <<gate, policy, frozen, evidence, clock>>
      BY <2>3 DEF Issue
    <3>2. CASE gate = "completion" /\ Status = "COMPLETE" /\ issued' = Certificate(policy, evidence)
      <4>1. CompletionFailures(policy, evidence) = {}
        BY <3>2, Zenon DEF Status
      <4> QED
        BY <1>2, <3>1, <3>2, <4>1 DEF GateInv
    <3>3. CASE gate = "replay" /\ \E k \in DOMAIN evidence : issued' = AnchoredReplay(evidence, k)
      BY <1>2, <3>1, <3>3 DEF GateInv
    <3>4. CASE gate = "report" /\ issued' = Stamp(evidence, policy)
      BY <1>2, <3>1, <3>4 DEF GateInv
    <3>5. CASE gate = "ruos" /\ Status = "ACCEPT" /\ issued' = Receipt(policy, evidence, clock)
      <4>1. EvaluatePair(policy, frozen, evidence, clock) = "ACCEPT"
        BY <3>5, Zenon DEF Status
      <4>2. frozen' = frozen /\ policy \in PoliciesOf[gate] /\ clock \in Nat
            /\ evidence \in Seq(RecordsOf[gate] \cup ToSet(Baseline))
        BY <1>2, <3>1 DEF GateInv
      <4> QED
        BY <1>2, <3>1, <3>5, <4>1, <4>2 DEF GateInv
    <3> QED
      BY <2>3, <3>2, <3>3, <3>4, <3>5 DEF Issue
  <2>4. CASE SetClock
    BY <1>2, <2>4, GatesAssumption DEF GateInv, SetClock
  <2>5. CASE UNCHANGED gateVars
    BY <1>2, <2>5 DEF GateInv, gateVars
  <2> QED
    BY <1>2, <2>1, <2>2, <2>3, <2>4, <2>5 DEF GatesNext
<1> QED
  BY <1>1, <1>2, PTL DEF GatesSpec

LEMMA BoundedAreSeqs == \A S : BoundedSeq(S, 2) \subseteq Seq(S)
<1>1. ASSUME NEW S, NEW s \in BoundedSeq(S, 2) PROVE s \in Seq(S)
  <2>1. PICK m \in 0 .. 2 : s \in [1 .. m -> S]
    BY <1>1 DEF BoundedSeq, SeqOf
  <2> QED
    BY <2>1, IsASeq
<1> QED
  BY <1>1

\* What is anchored holds for that and nothing else (the digest comparisons of
\* the evidence gates), for every set of policies and records.
THEOREM AnchorsBindCorrect == GatesSpec => []AnchorsBind
<1>1. ASSUME GateInv PROVE AnchorsBind
  <2>1. ASSUME gate = "claim", PassedNow PROVE policy.assignments = frozen.assignments
    <3>1. VerifyClaimEvidence(policy, frozen, evidence) # "INVALID"
      BY <2>1 DEF PassedNow, Status
    <3> QED
      BY <3>1 DEF VerifyClaimEvidence
  <2>2. ASSUME gate = "discovery", PassedNow PROVE policy = frozen
    <3>1. EvaluateDiscovery(policy, frozen, evidence) # "INVALID"
      BY <2>2 DEF PassedNow, Status
    <3> QED
      BY <3>1 DEF EvaluateDiscovery
  <2>3. ASSUME gate = "ruos", PassedNow PROVE policy = frozen
    <3>1. EvaluatePair(policy, frozen, evidence, clock) = "ACCEPT"
      <4>1. EvaluatePair(policy, frozen, evidence, clock) \in {"REJECT", "INCONCLUSIVE", "ACCEPT"}
        BY DEF EvaluatePair
      <4>2. EvaluatePair(policy, frozen, evidence, clock) \in {"PASS", "ACCEPT", "ACCEPTED", "SUFFICIENT", "COMPLETE"}
        BY <2>3 DEF PassedNow, Status
      <4> QED
        BY <4>1, <4>2
    <3> QED
      BY <3>1, AcceptedPair, Zenon
  <2>4. ASSUME issued # Unissued, gate = "completion",
               NEW trace \in BoundedSeq(RecordsOf[gate], 2) \cup {evidence}
        PROVE  VerifyCertificate(issued, trace)
                 <=> ToSet(trace) = issued.traceHash /\ IsInjective(trace)
    <3>1. PICK claims \in PoliciesOf[gate], old \in Seq(RecordsOf[gate]) :
            CompletionFailures(claims, old) = {} /\ issued = Certificate(claims, old)
      BY <1>1, <2>4 DEF GateInv
    <3>2. trace \in Seq(RecordsOf[gate])
      BY <1>1, <2>4, BoundedAreSeqs DEF GateInv
    <3> QED
      BY <3>1, <3>2, CertificateBinds
  <2>5. ASSUME issued # Unissued, gate = "replay",
               NEW prefix \in BoundedSeq(RecordsOf[gate], 2),
               NEW suffix \in BoundedSeq(RecordsOf[gate], 2), NEW anchor \in RecordsOf[gate]
        PROVE  FinalizeReplay(issued, prefix, anchor, suffix)
                 <=> /\ prefix = issued.prefix /\ anchor = issued.anchor
                     /\ ValidTrace(prefix \o <<anchor>> \o suffix)
    <3>1. PICK events \in Seq(RecordsOf[gate]) : \E k \in DOMAIN events :
            issued = AnchoredReplay(events, k)
      BY <1>1, <2>5 DEF GateInv
    <3>2. PICK k \in DOMAIN events : issued = AnchoredReplay(events, k)
      BY <3>1
    <3>3. prefix \in Seq(RecordsOf[gate]) /\ suffix \in Seq(RecordsOf[gate])
      BY BoundedAreSeqs
    <3>4. \A event \in RecordsOf[gate] : event.step \in Int
      BY <2>5, GatesAssumption
    <3> QED
      BY <3>2, <3>3, <3>4, ReplayBinds
  <2>6. ASSUME issued # Unissued, gate = "report", NEW commit \in PoliciesOf[gate]
        PROVE  VerifyStamp(evidence, commit, issued)
                 <=> evidence = issued.reportHash /\ commit = issued.sessionCommit
    <3>1. PICK report \in Seq(RecordsOf[gate]), sha \in PoliciesOf[gate] : issued = Stamp(report, sha)
      BY <1>1, <2>6 DEF GateInv
    <3> QED
      BY <3>1 DEF VerifyStamp, Stamp
  <2> QED
    BY <2>1, <2>2, <2>3, <2>4, <2>5, <2>6 DEF AnchorsBind
<1> QED
  BY <1>1, GateInvHolds, PTL

\* One record more, for the records of every gate.
Extends(s, t, x) ==
  \E n : /\ DOMAIN t = DOMAIN s \cup {n} /\ n \notin DOMAIN s
         /\ t[n] = x /\ \A i \in DOMAIN s : t[i] = s[i]

LEMMA AppendExtends ==
  ASSUME NEW S, NEW s \in Seq(S), NEW x
  PROVE  Extends(s, Append(s, x), x)
<1>1. s \in Seq(S \cup {x}) /\ x \in S \cup {x}
  BY SeqMonotonic, S \subseteq S \cup {x}
<1> DEFINE t == Append(s, x)
           n == Len(s) + 1
<1>2. /\ DOMAIN t = DOMAIN s \cup {n} /\ n \notin DOMAIN s
      /\ t[n] = x /\ \A i \in DOMAIN s : t[i] = s[i]
  BY <1>1, AppendGrows
<1> HIDE DEF t, n
<1>3. Extends(s, t, x)
  BY <1>2 DEF Extends
<1> QED
  BY <1>3 DEF t

LEMMA ExtendsSet ==
  ASSUME NEW s, NEW t, NEW x, Extends(s, t, x)
  PROVE  /\ ToSet(t) = ToSet(s) \cup {x} /\ DOMAIN s \subseteq DOMAIN t
         /\ \A i \in DOMAIN s : t[i] = s[i]
BY DEF Extends, ToSet

\* A key met twice stays met twice.
LEMMA RepeatsStay ==
  ASSUME NEW s, NEW t, DOMAIN s \subseteq DOMAIN t, \A i \in DOMAIN s : t[i] = s[i]
  PROVE  /\ Repeats(s, Identity) => Repeats(t, Identity)
         /\ Repeats(s, Criterion) => Repeats(t, Criterion)
         /\ Repeats(s, Case) => Repeats(t, Case)
         /\ Repeats(s, PathOf) => Repeats(t, PathOf)
         /\ Repeats(s, EventId) => Repeats(t, EventId)
         /\ Repeats(s, EntryOf) => Repeats(t, EntryOf)
<1>1. Repeats(s, Identity) => Repeats(t, Identity)
  BY DEF Repeats
<1>2. Repeats(s, Criterion) => Repeats(t, Criterion)
  BY DEF Repeats
<1>3. Repeats(s, Case) => Repeats(t, Case)
  BY DEF Repeats
<1>4. Repeats(s, PathOf) => Repeats(t, PathOf)
  BY DEF Repeats
<1>5. Repeats(s, EventId) => Repeats(t, EventId)
  BY DEF Repeats
<1>6. Repeats(s, EntryOf) => Repeats(t, EntryOf)
  BY DEF Repeats
<1> QED
  BY <1>1, <1>2, <1>3, <1>4, <1>5, <1>6

\* Claims: what is wrong with the records stays wrong, and what they cover
\* stays covered.
LEMMA ClaimFinal ==
  ASSUME NEW p, NEW a, NEW s, NEW t, NEW x, Extends(s, t, x)
  PROVE  /\ VerifyClaimEvidence(p, a, s) = "INVALID" => VerifyClaimEvidence(p, a, t) = "INVALID"
         /\ VerifyClaimEvidence(p, a, s) = "PASS"
              => VerifyClaimEvidence(p, a, t) \in {"INVALID", "PASS"}
<1> DEFINE assigned(r) == {k.assignment : k \in ToSet(r)}
           terminal(r) == {k.assignment : k \in {l \in ToSet(r) : l.terminal}}
           wrong(r) == \/ ~SoundClaim(p) \/ p.assignments # a.assignments
                       \/ Repeats(r, Identity) \/ ~(assigned(r) \subseteq p.assignments)
           uncovered(r) == p.terminal /\ ~(p.assignments \subseteq terminal(r))
           missing(r) == MissingFields(p, ToSet(r)) # {}
<1>1. \A r : VerifyClaimEvidence(p, a, r)
              = IF wrong(r) THEN "INVALID"
                ELSE IF uncovered(r) THEN "INCONCLUSIVE_COVERAGE"
                ELSE IF missing(r) THEN "INCONCLUSIVE_SUFFICIENCY" ELSE "PASS"
  BY DEF VerifyClaimEvidence
<1>2. ToSet(s) \subseteq ToSet(t)
  BY ExtendsSet
<1>3. wrong(s) => wrong(t)
  BY <1>2, ExtendsSet, RepeatsStay
<1>4. uncovered(t) => uncovered(s)
  BY <1>2
<1>5. missing(t) => missing(s)
  BY <1>2 DEF MissingFields
<1> HIDE DEF wrong, uncovered, missing
<1> QED
  BY <1>1, <1>3, <1>4, <1>5

\* Discovery: of a passing set a further record repeats a criterion or names
\* none that is required.
LEMMA DiscoveryFinal ==
  ASSUME NEW p, NEW a, NEW s, NEW t, NEW x, Extends(s, t, x)
  PROVE  /\ EvaluateDiscovery(p, a, s) \in {"INVALID", "REJECTED"}
              => EvaluateDiscovery(p, a, t) \in {"INVALID", "REJECTED"}
         /\ EvaluateDiscovery(p, a, s) = "PASS" => EvaluateDiscovery(p, a, t) = "INVALID"
<1> DEFINE wrong(r) == \/ p.required = {} \/ p.minReplicates < 1 \/ p # a
                       \/ Repeats(r, Criterion)
                       \/ \E k \in ToSet(r) : k.criterion \notin p.required \/ k.replicates < 1
           failed(r) == \E k \in ToSet(r) : ~k.pass \/ (p.independent /\ ~k.independent)
           lacking(r) == \/ {k.criterion : k \in ToSet(r)} # p.required
                         \/ \E k \in ToSet(r) : k.replicates < p.minReplicates
<1>1. \A r : EvaluateDiscovery(p, a, r)
              = IF wrong(r) THEN "INVALID" ELSE IF failed(r) THEN "REJECTED"
                ELSE IF lacking(r) THEN "INCONCLUSIVE" ELSE "PASS"
  BY DEF EvaluateDiscovery
<1>2. ToSet(t) = ToSet(s) \cup {x}
  BY ExtendsSet
<1>3. (wrong(s) => wrong(t)) /\ (failed(s) => failed(t))
  BY <1>2, ExtendsSet, RepeatsStay
<1>4. ASSUME ~lacking(s) PROVE wrong(t)
  <2>1. CASE x.criterion \notin p.required
    BY <1>2, <2>1
  <2>2. CASE x.criterion \in p.required
    <3>1. PICK k \in ToSet(s) : k.criterion = x.criterion
      BY <1>4, <2>2
    <3>2. PICK i \in DOMAIN s : s[i] = k
      BY <3>1 DEF ToSet
    <3>3. Repeats(t, Criterion)
      BY <3>1, <3>2 DEF Repeats, Criterion, Extends
    <3> QED
      BY <3>3
  <2> QED
    BY <2>1, <2>2
<1> HIDE DEF wrong, failed, lacking
<1> QED
  BY <1>1, <1>3, <1>4

\* Security: a failed, unexpected or doubled result stays, and none is missing
\* again.
LEMMA SecurityFinal ==
  ASSUME NEW p, NEW s, NEW t, NEW x, Extends(s, t, x)
  PROVE  /\ EvaluateSecurityPatch(p, s) \in {"INVALID", "REFUSED"}
              => EvaluateSecurityPatch(p, t) \in {"INVALID", "REFUSED"}
         /\ EvaluateSecurityPatch(p, s) = "ACCEPTED"
              => EvaluateSecurityPatch(p, t) \in {"INVALID", "REFUSED", "ACCEPTED"}
<1> DEFINE open(r) == {<<"missing", case>> : case \in p.cases \ {Case(k) : k \in ToSet(r)}}
           bad(r) == {<<"failed", Case(k)>> : k \in {l \in ToSet(r) : ~l.passed /\ Case(l) \in p.cases}}
                     \cup {<<"unexpected", Case(k)>> : k \in {l \in ToSet(r) : Case(l) \notin p.cases}}
                     \cup (IF p.checks THEN {} ELSE {<<"check", "failed">>})
<1>1. \A r : SecurityReasons(p, r) = open(r) \cup bad(r)
  BY Zenon DEF SecurityReasons
<1>2. ToSet(t) = ToSet(s) \cup {x}
  BY ExtendsSet
<1>3. open(t) \subseteq open(s) /\ bad(s) \subseteq bad(t)
  BY <1>2
<1>4. \A r : (\A reason \in open(r) : reason[1] = "missing")
             /\ (\A reason \in bad(r) : reason[1] # "missing")
  OBVIOUS
<1> HIDE DEF open, bad
<1>5. \A r : EvaluateSecurityPatch(p, r)
              = IF Repeats(r, Case) THEN "INVALID"
                ELSE IF open(r) = {} /\ bad(r) = {} THEN "ACCEPTED"
                ELSE IF bad(r) = {} THEN "INCOMPLETE" ELSE "REFUSED"
  BY <1>1, <1>4 DEF EvaluateSecurityPatch
<1>6. Repeats(s, Case) => Repeats(t, Case)
  BY ExtendsSet, RepeatsStay
<1> QED
  BY <1>3, <1>5, <1>6

\* Reconstruction: a gap that is required and an artifact unverified stay.
LEMMA ReconstructionFinal ==
  ASSUME NEW s, NEW t, NEW x, Extends(s, t, x)
  PROVE  /\ ReconstructionReceipt(s) \in {"INVALID", "INSUFFICIENT"}
              => ReconstructionReceipt(t) \in {"INVALID", "INSUFFICIENT"}
         /\ ReconstructionReceipt(t) \in {"INVALID", "INSUFFICIENT", "SUFFICIENT"}
<1>1. ToSet(s) \subseteq ToSet(t)
  BY ExtendsSet
<1>2. Repeats(s, PathOf) => Repeats(t, PathOf)
  BY ExtendsSet, RepeatsStay
<1>3. TaskSufficient(t) => TaskSufficient(s)
  BY <1>1 DEF TaskSufficient
<1> QED
  BY <1>2, <1>3 DEF ReconstructionReceipt

\* Completion: what the trace cites it goes on citing, and when it cites all
\* that a claim names it cites nothing else.
LEMMA CitedGrows ==
  ASSUME NEW S, NEW s \in Seq(S), NEW x, NEW claim
  PROVE  LET t == Append(s, x)
         IN  /\ Cited(claim, s) \subseteq Cited(claim, t)
             /\ claim.evidence \subseteq {e.id : e \in Cited(claim, s)}
                  => Cited(claim, t) = Cited(claim, s)
<1> DEFINE t == Append(s, x)
<1>1. s \in Seq(S \cup {x}) /\ x \in S \cup {x}
  BY SeqMonotonic, S \subseteq S \cup {x}
<1>2. /\ Len(s) \in Nat /\ DOMAIN s = 1 .. Len(s) /\ DOMAIN t = DOMAIN s \cup {Len(s) + 1}
      /\ t[Len(s) + 1] = x /\ \A i \in DOMAIN s : t[i] = s[i]
  BY <1>1, AppendGrows
<1> HIDE DEF t
<1>3. \A j \in DOMAIN s : \A k \in 1 .. j - 1 : k \in DOMAIN s
  BY <1>2
<1>4. Cited(claim, s) \subseteq Cited(claim, t)
  BY <1>2, <1>3 DEF Cited
<1>5. ASSUME claim.evidence \subseteq {e.id : e \in Cited(claim, s)},
             NEW e \in Cited(claim, t)
      PROVE  e \in Cited(claim, s)
  <2>1. PICK j \in DOMAIN t : /\ e = t[j] /\ t[j].id \in claim.evidence
                             /\ \A k \in 1 .. j - 1 : t[k].id # t[j].id
    BY DEF Cited
  <2>2. PICK c \in Cited(claim, s) : c.id = e.id
    BY <1>5, <2>1
  <2>3. PICK i \in DOMAIN s : c = s[i]
    BY <2>2 DEF Cited
  <2>4. j # Len(s) + 1
    <3>1. i \in 1 .. (Len(s) + 1) - 1 /\ t[i].id = e.id
      BY <1>2, <2>2, <2>3
    <3> QED
      BY <2>1, <3>1
  <2>5. j \in DOMAIN s
    BY <1>2, <2>1, <2>4
  <2> QED
    BY <1>2, <1>3, <2>1, <2>5 DEF Cited
<1> QED
  BY <1>4, <1>5 DEF t

LEMMA CompletionFinal ==
  ASSUME NEW S, NEW s \in Seq(S), NEW x, NEW claims
  PROVE  LET old  == CompletionFailures(claims, s)
             next == CompletionFailures(claims, Append(s, x))
         IN  /\ old \ {"missing-evidence"} \subseteq next
             /\ "missing-evidence" \in next => "missing-evidence" \in old
<1> DEFINE t == Append(s, x)
           absent(claim, r) == claim.evidence \ {e.id : e \in Cited(claim, r)}
           outside(claim, r) == {e \in Cited(claim, r) : e.scope \notin claim.scopes}
           mismatch(claim, r) ==
             /\ claim.evidence # {} /\ absent(claim, r) = {} /\ outside(claim, r) = {}
             /\ ReplayClaim(Cited(claim, r)) # claim.value
<1>1. \A claim, r : ClaimFailures(claim, r)
              = (IF claim.evidence = {} THEN {"empty-evidence"} ELSE {})
                \cup (IF absent(claim, r) # {} THEN {"missing-evidence"} ELSE {})
                \cup (IF outside(claim, r) # {} THEN {"out-of-scope-evidence"} ELSE {})
                \cup (IF mismatch(claim, r) THEN {"replay-mismatch"} ELSE {})
  BY Zenon DEF ClaimFailures
<1>2. \A claim : /\ absent(claim, t) \subseteq absent(claim, s)
                 /\ outside(claim, s) \subseteq outside(claim, t)
  BY CitedGrows
<1>3. ASSUME NEW claim, mismatch(claim, s) PROVE mismatch(claim, t)
  <2>1. claim.evidence \subseteq {e.id : e \in Cited(claim, s)}
    BY <1>3
  <2>2. Cited(claim, t) = Cited(claim, s)
    BY <2>1, CitedGrows
  <2> QED
    BY <1>3, <2>2
<1> HIDE DEF absent, outside, mismatch
<1>4. \A claim : /\ ClaimFailures(claim, s) \ {"missing-evidence"} \subseteq ClaimFailures(claim, t)
                 /\ "missing-evidence" \in ClaimFailures(claim, t)
                      => "missing-evidence" \in ClaimFailures(claim, s)
  BY <1>1, <1>2, <1>3
<1>5. Repeats(s, EventId) => Repeats(t, EventId)
  BY AppendExtends, ExtendsSet, RepeatsStay
<1> HIDE DEF t
<1>6. \A r : CompletionFailures(claims, r)
              = (IF claims = {} THEN {"empty-claims"} ELSE {})
                \cup (IF Repeats(r, EventId) THEN {"duplicate-evidence-id"} ELSE {})
                \cup UNION {ClaimFailures(claim, r) : claim \in claims}
  BY Zenon DEF CompletionFailures
<1>7. CompletionFailures(claims, s) \ {"missing-evidence"} \subseteq CompletionFailures(claims, t)
  BY <1>4, <1>5, <1>6
<1>8. "missing-evidence" \in CompletionFailures(claims, t)
         => "missing-evidence" \in CompletionFailures(claims, s)
  BY <1>4, <1>6
<1> QED
  BY <1>7, <1>8 DEF t

\* A ruOS pair: a rejection of one observation stays, and an accepted one,
\* which has every declared entry, takes no other.
LEMMA ArmGrows ==
  ASSUME NEW s, NEW t, NEW x, Extends(s, t, x), NEW arm
  PROVE  LET u == ArmOf(arm, s)
             v == ArmOf(arm, t)
         IN  /\ x.arm = arm => Extends(u, v, x)
             /\ x.arm # arm => v = u
             /\ \A i \in DOMAIN u : u[i].arm = arm /\ u[i] \in ToSet(s)
<1> DEFINE u == ArmOf(arm, s)
           v == ArmOf(arm, t)
<1>1. PICK n : /\ DOMAIN t = DOMAIN s \cup {n} /\ n \notin DOMAIN s
               /\ t[n] = x /\ \A i \in DOMAIN s : t[i] = s[i]
  BY DEF Extends
<1>2. /\ DOMAIN u = {i \in DOMAIN s : s[i].arm = arm} /\ \A i \in DOMAIN u : u[i] = s[i]
      /\ DOMAIN v = {i \in DOMAIN t : t[i].arm = arm} /\ \A i \in DOMAIN v : v[i] = t[i]
  BY DEF ArmOf
<1>3. ASSUME x.arm # arm PROVE v = u
  <2>1. {i \in DOMAIN t : t[i].arm = arm} = {i \in DOMAIN s : s[i].arm = arm}
    BY <1>1, <1>3
  <2>2. v = [i \in {j \in DOMAIN s : s[j].arm = arm} |-> t[i]]
    BY <2>1 DEF ArmOf
  <2>3. \A i \in {j \in DOMAIN s : s[j].arm = arm} : t[i] = s[i]
    BY <1>1
  <2> QED
    BY <2>2, <2>3 DEF ArmOf
<1> HIDE DEF u, v
<1>4. ASSUME x.arm = arm PROVE Extends(u, v, x)
  <2>1. /\ DOMAIN v = DOMAIN u \cup {n} /\ n \notin DOMAIN u
        /\ v[n] = x /\ \A i \in DOMAIN u : v[i] = u[i]
    BY <1>1, <1>2, <1>4
  <2> QED
    BY <2>1 DEF Extends
<1>5. \A i \in DOMAIN u : u[i].arm = arm /\ u[i] \in ToSet(s)
  BY <1>2 DEF ToSet
<1> QED
  BY <1>3, <1>4, <1>5 DEF u, v

LEMMA ObservationFinal ==
  ASSUME NEW p, NEW a, NEW now, NEW u, NEW v, NEW x, Extends(u, v, x)
  PROVE  /\ EvaluateObservation(p, a, u, now) = "REJECT"
              => EvaluateObservation(p, a, v, now) = "REJECT"
         /\ /\ EvaluateObservation(p, a, u, now) = "ACCEPT" /\ x.kind \in {"assertion", "case"}
            /\ \A i \in DOMAIN u : u[i].arm = x.arm
            => EvaluateObservation(p, a, v, now) = "REJECT"
<1>1. ToSet(v) = ToSet(u) \cup {x}
  BY ExtendsSet
<1>2. Runs(u) \subseteq Runs(v) /\ Entries(u) \subseteq Entries(v)
  BY <1>1 DEF Runs, Entries
<1>3. Repeats(u, EntryOf) => Repeats(v, EntryOf)
  BY ExtendsSet, RepeatsStay
<1>4. Broken(p, a, u, now) => Broken(p, a, v, now)
  BY <1>2, <1>3 DEF Broken
<1>5. ASSUME ~Wanting(p, u, now), x.kind \in {"assertion", "case"},
             \A i \in DOMAIN u : u[i].arm = x.arm
      PROVE  Broken(p, a, v, now)
  <2>1. x \in Entries(v)
    BY <1>1, <1>5 DEF Runs, Entries
  <2>2. CASE ~Declared(p, x)
    BY <2>1, <2>2 DEF Broken
  <2>3. CASE Declared(p, x)
    <3>1. <<x.kind, x.id>> \in ({"assertion"} \X p.assertions) \cup ({"case"} \X p.cases)
      BY <1>5, <2>3 DEF Declared
    <3>2. PICK e \in Entries(u) : <<e.kind, e.id>> = <<x.kind, x.id>>
      BY <1>5, <3>1 DEF Wanting
    <3>3. PICK i \in DOMAIN u : u[i] = e
      BY <3>2 DEF Entries, ToSet
    <3>4. u[i].arm = x.arm /\ u[i].kind = x.kind /\ u[i].id = x.id
      BY <1>5, <3>2, <3>3
    <3>5. Repeats(v, EntryOf)
      BY <3>4 DEF Repeats, EntryOf, Extends
    <3> QED
      BY <3>5 DEF Broken
  <2> QED
    BY <2>2, <2>3
<1>6. Runs(u) # {} => Runs(v) # {}
  BY <1>2
<1> QED
  BY <1>4, <1>5, <1>6, ObservationIs

LEMMA PairFinal ==
  ASSUME NEW p, NEW a, NEW now, NEW s, NEW t, NEW x, Extends(s, t, x),
         x.kind \in {"run", "assertion", "case"},
         x.kind = "run" <=> ~\E r \in ToSet(s) : r.kind = "run" /\ r.arm = x.arm
  PROVE  /\ EvaluatePair(p, a, s, now) = "REJECT" => EvaluatePair(p, a, t, now) = "REJECT"
         /\ EvaluatePair(p, a, s, now) = "ACCEPT"
              => EvaluatePair(p, a, t, now) \in {"REJECT", "ACCEPT"}
<1>1. ASSUME NEW arm
      PROVE  /\ OfArm(p, a, arm, s, now) = "REJECT" => OfArm(p, a, arm, t, now) = "REJECT"
             /\ OfArm(p, a, arm, s, now) = "ACCEPT"
                  => OfArm(p, a, arm, t, now) \in {"REJECT", "ACCEPT"}
  <2> DEFINE u == ArmOf(arm, s)
             v == ArmOf(arm, t)
  <2>1. CASE x.arm # arm
    <3>1. v = u
      BY <2>1, ArmGrows
    <3> QED
      BY <3>1 DEF OfArm
  <2>2. CASE x.arm = arm
    <3>1. Extends(u, v, x) /\ \A i \in DOMAIN u : u[i].arm = arm /\ u[i] \in ToSet(s)
      BY <2>2, ArmGrows
    <3>2. ASSUME OfArm(p, a, arm, s, now) = "ACCEPT" PROVE x.kind \in {"assertion", "case"}
      <4>1. Runs(u) # {}
        BY <3>2, ObservationIs DEF OfArm
      <4>2. PICK i \in DOMAIN u : u[i].kind = "run"
        BY <4>1 DEF Runs, ToSet
      <4>3. \E r \in ToSet(s) : r.kind = "run" /\ r.arm = x.arm
        BY <2>2, <3>1, <4>2
      <4> QED
        BY <4>3
    <3> HIDE DEF u, v
    <3>3. /\ EvaluateObservation(p, a, u, now) = "REJECT" => EvaluateObservation(p, a, v, now) = "REJECT"
          /\ EvaluateObservation(p, a, u, now) = "ACCEPT" /\ x.kind \in {"assertion", "case"}
               => EvaluateObservation(p, a, v, now) = "REJECT"
      BY <2>2, <3>1, ObservationFinal
    <3> QED
      BY <3>2, <3>3 DEF u, v, OfArm
  <2> QED
    BY <2>1, <2>2
<1>2. Worse(p, s) => Worse(p, t)
  <2>1. ToSet(s) \subseteq ToSet(t)
    BY ExtendsSet
  <2> QED
    BY <2>1 DEF Worse
<1> QED
  BY <1>1, <1>2, PairIs, ArmStatus

\* A ruOS pair as time passes: a run only gets older, so that what was wrong with
\* it stays wrong unless it was dated ahead, and what it lacked it lacks.
LEMMA ObservationAges ==
  ASSUME NEW p, NEW a, NEW r, NEW now \in Nat, NEW later \in Nat, now =< later,
         p.ttl \in Int, p.skew \in Int, \A e \in Runs(r) : e.timestamp \in Int
  PROVE  LET before == EvaluateObservation(p, a, r, now)
             after  == EvaluateObservation(p, a, r, later)
         IN  /\ before = "REJECT" /\ (\A e \in Runs(r) : ~Ahead(p, e, now)) => after = "REJECT"
             /\ before = "INCONCLUSIVE" => after = "INCONCLUSIVE"
             /\ before = "ACCEPT" => after = "ACCEPT" \/ (after = "INCONCLUSIVE" /\ \E e \in Runs(r) : Stale(p, e, later))
<1>1. \A e \in Runs(r) : /\ Ahead(p, e, later) => Ahead(p, e, now)
                         /\ Stale(p, e, now) => Stale(p, e, later)
  BY DEF Ahead, Stale
<1>2. Broken(p, a, r, later) => Broken(p, a, r, now)
  BY <1>1, Zenon DEF Broken
<1>3. (\A e \in Runs(r) : ~Ahead(p, e, now)) => (Broken(p, a, r, now) => Broken(p, a, r, later))
  BY Zenon DEF Broken
<1>4. Wanting(p, r, now) => Wanting(p, r, later)
  BY <1>1, Zenon DEF Wanting
<1>5. Wanting(p, r, later) => Wanting(p, r, now) \/ \E e \in Runs(r) : Stale(p, e, later)
  BY DEF Wanting
<1> QED
  BY <1>2, <1>3, <1>4, <1>5, ObservationIs

\* The runs of a pair.
DatedRuns(s) == \A e \in Runs(s) : e.timestamp \in Int /\ e.arm \in {"baseline", "candidate"} /\ e.id = "run"

LEMMA PairAges ==
  ASSUME NEW p, NEW a, NEW s, NEW now \in Nat, NEW later \in Nat, now =< later,
         p.ttl \in Int, p.skew \in Int, DatedRuns(s)
  PROVE  LET before == EvaluatePair(p, a, s, now)
             after  == EvaluatePair(p, a, s, later)
             aged   == \E e \in Runs(s) : Stale(p, e, later)
         IN  /\ before = "REJECT" /\ (\A e \in Runs(s) : ~Ahead(p, e, now))
                  => after = "REJECT" \/ (after = "INCONCLUSIVE" /\ aged)
             /\ before = "INCONCLUSIVE" => after # "ACCEPT"
             /\ before = "ACCEPT" => after = "ACCEPT" \/ (after = "INCONCLUSIVE" /\ aged)
<1>1. \A arm : Runs(ArmOf(arm, s)) \subseteq Runs(s)
  BY DEF Runs, ArmOf, ToSet
<1>2. ASSUME NEW arm
      PROVE  /\ OfArm(p, a, arm, s, now) = "REJECT" /\ (\A e \in Runs(s) : ~Ahead(p, e, now))
                  => OfArm(p, a, arm, s, later) = "REJECT"
             /\ OfArm(p, a, arm, s, now) = "INCONCLUSIVE" => OfArm(p, a, arm, s, later) = "INCONCLUSIVE"
             /\ OfArm(p, a, arm, s, now) = "ACCEPT"
                  => \/ OfArm(p, a, arm, s, later) = "ACCEPT"
                     \/ /\ OfArm(p, a, arm, s, later) = "INCONCLUSIVE"
                        /\ \E e \in Runs(s) : Stale(p, e, later)
  <2> DEFINE r == ArmOf(arm, s)
  <2>1. \A e \in Runs(r) : e \in Runs(s) /\ e.timestamp \in Int
    BY <1>1 DEF DatedRuns
  <2> HIDE DEF r
  <2>2. LET before == EvaluateObservation(p, a, r, now)
            after  == EvaluateObservation(p, a, r, later)
        IN  /\ before = "REJECT" /\ (\A e \in Runs(r) : ~Ahead(p, e, now)) => after = "REJECT"
            /\ before = "INCONCLUSIVE" => after = "INCONCLUSIVE"
            /\ before = "ACCEPT" => after = "ACCEPT" \/ (after = "INCONCLUSIVE" /\ \E e \in Runs(r) : Stale(p, e, later))
    BY <2>1, ObservationAges
  <2> QED
    BY <2>1, <2>2 DEF OfArm, r
<1> QED
  BY <1>2, PairIs, ArmStatus

\* The deadline of an accepted pair is the first of three, and no later than
\* that of any of its runs.
LEMMA DeadlineOf ==
  ASSUME NEW p, NEW a, NEW S, NEW s \in Seq(S), NEW now \in Nat, p.ttl \in Int, p.skew \in Int,
         DatedRuns(s), EvaluatePair(p, a, s, now) = "ACCEPT"
  PROVE  /\ ValidUntil(p, s, now) \in Int
         /\ \A e \in Runs(s) : ValidUntil(p, s, now) =< e.timestamp + p.ttl
         /\ \/ ValidUntil(p, s, now) = now + p.ttl
            \/ \E e \in Runs(s) : ValidUntil(p, s, now) = e.timestamp + p.ttl
<1> DEFINE TheRun(arm) == CHOOSE r \in ToSet(s) : r.kind = "run" /\ r.arm = arm
           b == TheRun("baseline")
           c == TheRun("candidate")
           dates == {now, b.timestamp, c.timestamp}
<1>1. ASSUME NEW arm \in {"baseline", "candidate"}
      PROVE  /\ TheRun(arm) \in Runs(s) /\ TheRun(arm).timestamp \in Int
             /\ \A e \in Runs(s) : e.arm = arm => e = TheRun(arm)
  <2> DEFINE r == ArmOf(arm, s)
  <2>1. Runs(r) # {} /\ ~Broken(p, a, r, now)
    BY AcceptedPair
  <2>2. PICK e0 \in Runs(r) : TRUE
    BY <2>1
  <2>3. e0 \in ToSet(s) /\ e0.kind = "run" /\ e0.arm = arm
    BY <2>2 DEF Runs, ArmOf, ToSet
  <2>4. TheRun(arm) \in ToSet(s) /\ TheRun(arm).kind = "run" /\ TheRun(arm).arm = arm
    BY <2>3
  <2>5. ~Repeats(r, EntryOf)
    BY <2>1 DEF Broken
  <2>6. ASSUME NEW e \in Runs(s), NEW f \in Runs(s), e.arm = arm, f.arm = arm PROVE e = f
    <3>1. PICK i \in DOMAIN s, j \in DOMAIN s : e = s[i] /\ f = s[j]
      BY <2>6 DEF Runs, ToSet
    <3>2. i \in DOMAIN r /\ j \in DOMAIN r /\ r[i] = e /\ r[j] = f
      BY <2>6, <3>1 DEF ArmOf
    <3>3. EntryOf(e) = EntryOf(f)
      BY <2>6 DEF EntryOf, DatedRuns, Runs
    <3> HIDE DEF r
    <3>4. i = j
      BY <2>5, <3>2, <3>3 DEF Repeats
    <3> QED
      BY <3>1, <3>4
  <2>7. TheRun(arm) \in Runs(s)
    BY <2>4 DEF Runs
  <2> HIDE DEF TheRun
  <2> QED
    BY <2>4, <2>6, <2>7 DEF DatedRuns
<1>2. ValidUntil(p, s, now) = p.ttl + Min(dates)
  BY DEF ValidUntil
<1>3. /\ b \in Runs(s) /\ b.timestamp \in Int /\ c \in Runs(s) /\ c.timestamp \in Int
      /\ \A e \in Runs(s) : e = b \/ e = c
  <2> HIDE DEF TheRun
  <2> QED
    BY <1>1 DEF DatedRuns
<1> HIDE DEF b, c
<1>4. Min(dates) \in dates /\ \A d \in dates : Min(dates) =< d
  <2>1. \E m \in dates : \A d \in dates : m =< d
    BY <1>3
  <2> QED
    BY <2>1 DEF Min
<1> DEFINE m == Min(dates)
<1>5. m \in {now, b.timestamp, c.timestamp} /\ m =< b.timestamp /\ m =< c.timestamp
  BY <1>4
<1> HIDE DEF m
<1>6. ValidUntil(p, s, now) = p.ttl + m
  BY <1>2 DEF m
<1>7. m \in Int /\ p.ttl + m \in Int
  BY <1>3, <1>5
<1>8. ASSUME NEW e \in Runs(s) PROVE p.ttl + m =< e.timestamp + p.ttl
  <2>1. e.timestamp \in Int /\ m =< e.timestamp
    BY <1>3, <1>5
  <2> QED
    BY <1>7, <2>1
<1>9. p.ttl + m = now + p.ttl \/ \E e \in Runs(s) : p.ttl + m = e.timestamp + p.ttl
  <2>1. CASE m = now
    BY <2>1
  <2>2. CASE m # now
    <3>1. PICK e \in Runs(s) : m = e.timestamp
      BY <1>3, <1>5, <2>2
    <3>2. p.ttl + m = e.timestamp + p.ttl
      BY <1>7, <3>1
    <3> QED
      BY <3>2
  <2> QED
    BY <2>1, <2>2
<1> QED
  BY <1>6, <1>7, <1>8, <1>9

\* A harness patch: what rejects it for good stays, and a holdout slice seen
\* is seen.
LEMMA HarnessFinal ==
  ASSUME NEW p, NEW s, NEW t, NEW x, Extends(s, t, x)
  PROVE  /\ HardReject(p, s) => HardReject(p, t)
         /\ HardReject(p, s) => EvaluateHarnessCandidate(p, s) = "REJECT"
         /\ HardReject(p, t) => EvaluateHarnessCandidate(p, t) = "REJECT"
         /\ EvaluateHarnessCandidate(p, s) = "ACCEPT"
              => EvaluateHarnessCandidate(p, t) \in {"REJECT", "ACCEPT"}
<1>1. ToSet(s) \subseteq ToSet(t)
  BY ExtendsSet
<1>2. t # << >>
  BY DEF Extends
<1>3. HardReject(p, s) => HardReject(p, t)
  BY <1>1 DEF HardReject
<1>4. ASSUME EvaluateHarnessCandidate(p, s) = "ACCEPT"
      PROVE  EvaluateHarnessCandidate(p, t) \in {"REJECT", "ACCEPT"}
  <2>1. p.requireHoldout => \E slice \in ToSet(s) : slice.split = "holdout"
    BY <1>4 DEF EvaluateHarnessCandidate
  <2>2. p.requireHoldout => \E slice \in ToSet(t) : slice.split = "holdout"
    BY <1>1, <2>1
  <2> QED
    BY <1>2, <2>2 DEF EvaluateHarnessCandidate
<1> QED
  BY <1>3, <1>4 DEF EvaluateHarnessCandidate

Refusals == {"INVALID", "REJECT", "REJECTED", "REFUSED", "INSUFFICIENT", "RECOVER"}
Passes == {"PASS", "ACCEPT", "ACCEPTED", "SUFFICIENT", "COMPLETE"}

LEMMA SubmitKeeps ==
  ASSUME GateInv, UNCHANGED <<gate, policy, frozen, clock>>, NEW x \in RecordsOf[gate],
         OneRun(x), evidence' = Append(evidence, x), gate # "harness"
  PROVE  /\ Status \in Refusals => Status' \in Refusals
         /\ Status \in Passes => Status' \in Refusals \cup Passes
<1> DEFINE t == Append(evidence, x)
<1>1. Extends(evidence, t, x) /\ gate \in GateNames
  BY AppendExtends DEF GateInv
<1>2. /\ evidence' = t /\ gate' = gate /\ policy' = policy /\ frozen' = frozen
      /\ clock' = clock
  OBVIOUS
<1> HIDE DEF t
<1>3. CASE gate = "claim"
  <2>1. /\ Status = VerifyClaimEvidence(policy, frozen, evidence)
        /\ Status' = VerifyClaimEvidence(policy, frozen, t)
    BY <1>2, <1>3 DEF Status
  <2>2. Status \in {"INVALID", "INCONCLUSIVE_COVERAGE", "INCONCLUSIVE_SUFFICIENCY", "PASS"}
    BY <2>1, Zenon DEF VerifyClaimEvidence
  <2> QED
    BY <1>1, <2>1, <2>2, ClaimFinal DEF Refusals, Passes
<1>4. CASE gate = "discovery"
  <2>1. /\ Status = EvaluateDiscovery(policy, frozen, evidence)
        /\ Status' = EvaluateDiscovery(policy, frozen, t)
    BY <1>2, <1>4 DEF Status
  <2>2. Status \in {"INVALID", "REJECTED", "INCONCLUSIVE", "PASS"}
    BY <2>1, Zenon DEF EvaluateDiscovery
  <2> QED
    BY <1>1, <2>1, <2>2, DiscoveryFinal DEF Refusals, Passes
<1>5. CASE gate = "security"
  <2>1. /\ Status = EvaluateSecurityPatch(policy, evidence)
        /\ Status' = EvaluateSecurityPatch(policy, t)
    BY <1>2, <1>5 DEF Status
  <2>2. Status \in {"INVALID", "ACCEPTED", "INCOMPLETE", "REFUSED"}
    BY <2>1, Zenon DEF EvaluateSecurityPatch
  <2> QED
    BY <1>1, <2>1, <2>2, SecurityFinal DEF Refusals, Passes
<1>6. CASE gate = "environment"
  <2>1. /\ Status = ReconstructionReceipt(evidence)
        /\ Status' = ReconstructionReceipt(t)
    BY <1>2, <1>6 DEF Status
  <2>2. Status \in {"INVALID", "SUFFICIENT", "INSUFFICIENT"}
    BY <2>1, Zenon DEF ReconstructionReceipt
  <2> QED
    BY <1>1, <2>1, <2>2, ReconstructionFinal DEF Refusals, Passes
<1>7. CASE gate = "completion"
  <2> DEFINE old == CompletionFailures(policy, evidence)
             next == CompletionFailures(policy, t)
  <2>1. /\ Status = (IF old = {} THEN "COMPLETE"
                     ELSE IF old = {"missing-evidence"} THEN "INCOMPLETE" ELSE "RECOVER")
        /\ Status' = (IF next = {} THEN "COMPLETE"
                      ELSE IF next = {"missing-evidence"} THEN "INCOMPLETE" ELSE "RECOVER")
    BY <1>2, <1>7 DEF Status
  <2>2. /\ old \ {"missing-evidence"} \subseteq next
        /\ "missing-evidence" \in next => "missing-evidence" \in old
    BY CompletionFinal DEF t, GateInv
  <2> HIDE DEF old, next
  <2> QED
    BY <2>1, <2>2 DEF Refusals, Passes
<1>8. CASE gate = "ruos"
  <2>1. /\ Status = EvaluatePair(policy, frozen, evidence, clock)
        /\ Status' = EvaluatePair(policy, frozen, t, clock)
    BY <1>2, <1>8 DEF Status
  <2>2. Status \in {"REJECT", "INCONCLUSIVE", "ACCEPT"}
    BY <2>1, Zenon DEF EvaluatePair
  <2>3. /\ x.kind \in {"run", "assertion", "case"}
        /\ x.kind = "run" <=> ~\E r \in ToSet(evidence) : r.kind = "run" /\ r.arm = x.arm
    BY <1>8, GatesAssumption DEF OneRun
  <2> QED
    BY <1>1, <2>1, <2>2, <2>3, PairFinal DEF Refusals, Passes
<1>9. CASE gate \in {"replay", "report"}
  <2>1. Status = "INCOMPLETE"
    BY <1>9 DEF Status
  <2> QED
    BY <2>1 DEF Refusals, Passes
<1> QED
  BY <1>1, <1>3, <1>4, <1>5, <1>6, <1>7, <1>8, <1>9 DEF GateNames

\* The runs of a ruOS pair in hand, with a policy whose periods are numbers.
LEMMA RunsAreDated ==
  ASSUME GateInv, gate = "ruos", NEW s \in Seq(RecordsOf[gate] \cup ToSet(Baseline)),
         NEW p \in PoliciesOf[gate]
  PROVE  DatedRuns(s) /\ p.ttl \in Int /\ p.skew \in Int
<1>1. \A e \in ToSet(s) : e \in RecordsOf[gate] \cup ToSet(Baseline)
  BY ElementOfSeq DEF ToSet
<1> QED
  BY <1>1, GatesAssumption DEF DatedRuns, Runs

\* Under one policy, while the clock is not set back, no further record turns a
\* refusal into a pass or an open question or reopens a pass, waiting makes a pass
\* only of a ruOS run refused as dated ahead, and reopens only what has gone out
\* of date (the duplicate, undeclared and failed record rules of every gate and
\* the comparisons with nowMs; of a harness patch the hard rejections alone).
THEOREM RefusalIsFinalCorrect == GatesSpec => RefusalIsFinal
<1> DEFINE Final ==
             /\ RefusedNow /\ ~(DatedAhead /\ clock' > clock) =>
                  ~PassedNow' /\ (RefusedNow' \/ (OutOfDate' /\ clock' > clock))
             /\ PassedNow => ~OpenNow' \/ (OutOfDate' /\ clock' > clock)
             /\ OpenNow /\ clock' > clock => ~PassedNow'
<1>1. ASSUME GateInv, [GatesNext]_gateVars, policy' = policy, clock' >= clock PROVE Final
  <2>0. clock \in Nat
    BY <1>1 DEF GateInv
  <2>1. CASE UNCHANGED <<gate, frozen, evidence, clock>>
    <3>1. /\ Status' = Status /\ (RefusedNow' <=> RefusedNow) /\ (PassedNow' <=> PassedNow)
          /\ ~(clock' > clock)
      BY <1>1, <2>0, <2>1 DEF Status, RefusedNow, PassedNow
    <3>2. RefusedNow => ~PassedNow
      <4>1. ASSUME gate = "harness", HardReject(policy, evidence) PROVE Status = "REJECT"
        BY <4>1 DEF Status, EvaluateHarnessCandidate
      <4> QED
        BY <4>1 DEF RefusedNow, PassedNow
    <3> QED
      BY <3>1, <3>2 DEF OpenNow
  <2>2. CASE Submit
    <3>1. PICK x \in RecordsOf[gate] : OneRun(x) /\ evidence' = Append(evidence, x)
      BY <2>2 DEF Submit
    <3>2. UNCHANGED <<gate, policy, frozen, clock>> /\ ~(clock' > clock)
      BY <2>0, <2>2 DEF Submit
    <3>3. CASE gate = "harness"
      <4> DEFINE t == Append(evidence, x)
      <4>1. /\ Status = EvaluateHarnessCandidate(policy, evidence)
            /\ Status' = EvaluateHarnessCandidate(policy, t)
        BY <3>1, <3>2, <3>3 DEF Status
      <4>2. /\ RefusedNow <=> HardReject(policy, evidence)
            /\ RefusedNow' <=> HardReject(policy, t)
        BY <3>1, <3>2, <3>3 DEF RefusedNow
      <4>3. Extends(evidence, t, x)
        BY <1>1, AppendExtends DEF GateInv
      <4>4. EvaluateHarnessCandidate(policy, evidence) \in {"REJECT", "INCONCLUSIVE", "ACCEPT"}
        BY Zenon DEF EvaluateHarnessCandidate
      <4> HIDE DEF t
      <4> QED
        BY <3>2, <4>1, <4>2, <4>3, <4>4, HarnessFinal DEF PassedNow, OpenNow
    <3>4. CASE gate # "harness"
      <4>1. /\ Status \in Refusals => Status' \in Refusals
            /\ Status \in Passes => Status' \in Refusals \cup Passes
        BY <1>1, <3>1, <3>2, <3>4, SubmitKeeps
      <4>2. /\ RefusedNow <=> Status \in Refusals
            /\ RefusedNow' <=> Status' \in Refusals
            /\ PassedNow <=> Status \in Passes
            /\ PassedNow' <=> Status' \in Passes
        BY <3>2, <3>4 DEF RefusedNow, PassedNow, Refusals, Passes
      <4>3. Refusals \cap Passes = {}
        BY DEF Refusals, Passes
      <4> QED
        BY <3>2, <4>1, <4>2, <4>3 DEF OpenNow
    <3> QED
      BY <3>3, <3>4
  <2>3. CASE SetClock
    <3>1. gate = "ruos" /\ UNCHANGED <<gate, frozen, evidence>> /\ clock' \in Nat /\ clock =< clock'
      BY <1>1, <2>0, <2>3, GatesAssumption DEF SetClock
    <3> DEFINE before == EvaluatePair(policy, frozen, evidence, clock)
               after == EvaluatePair(policy, frozen, evidence, clock')
    <3>2. Status = before /\ Status' = after
      BY <1>1, <3>1 DEF Status
    <3>3. DatedRuns(evidence) /\ policy.ttl \in Int /\ policy.skew \in Int
      BY <1>1, <3>1, RunsAreDated DEF GateInv
    <3>4. /\ before = "REJECT" /\ (\A e \in Runs(evidence) : ~Ahead(policy, e, clock))
               => after = "REJECT" \/ (after = "INCONCLUSIVE" /\ \E e \in Runs(evidence) : Stale(policy, e, clock'))
          /\ before = "INCONCLUSIVE" => after # "ACCEPT"
          /\ before = "ACCEPT"
               => after = "ACCEPT" \/ (after = "INCONCLUSIVE" /\ \E e \in Runs(evidence) : Stale(policy, e, clock'))
      BY <2>0, <3>1, <3>3, PairAges
    <3>5. /\ ~DatedAhead => \A e \in Runs(evidence) : ~Ahead(policy, e, clock)
          /\ (\E e \in Runs(evidence) : Stale(policy, e, clock')) => OutOfDate'
      BY <1>1, <3>1 DEF DatedAhead, OutOfDate, Runs
    <3>6. before \in {"REJECT", "INCONCLUSIVE", "ACCEPT"} /\ after \in {"REJECT", "INCONCLUSIVE", "ACCEPT"}
      BY PairIs
    <3> HIDE DEF before, after
    <3>7. /\ RefusedNow <=> before = "REJECT"
          /\ RefusedNow' <=> after = "REJECT"
          /\ PassedNow <=> before = "ACCEPT"
          /\ PassedNow' <=> after = "ACCEPT"
      BY <3>1, <3>2, <3>6 DEF RefusedNow, PassedNow
    <3>8. (OpenNow <=> before = "INCONCLUSIVE") /\ (OpenNow' <=> after = "INCONCLUSIVE")
      BY <3>2, <3>6, <3>7 DEF OpenNow
    <3>9. clock' > clock \/ after = before
      BY <2>0, <3>1 DEF before, after
    <3> QED
      BY <3>4, <3>5, <3>6, <3>7, <3>8, <3>9
  <2> QED
    BY <1>1, <2>1, <2>2, <2>3 DEF GatesNext, Amend, Issue, gateVars
<1>2. GateInv /\ [GatesNext]_gateVars => [policy' = policy /\ clock' >= clock => Final]_gateVars
  BY <1>1
<1> QED
  BY <1>2, GateInvHolds, PTL DEF GatesSpec, RefusalIsFinal

\* What is out of date when, in numbers.
LEMMA PastSkew ==
  /\ \A c, now, ttl, skew, time \in Int :
       c > (now + ttl) + skew => (c - time > ttl) \/ (time > now + skew)
  /\ \A c, ttl, skew, time \in Int : c > (time + ttl) + skew /\ skew >= 0 => c - time > ttl
OBVIOUS

\* The receipt of an accepted ruOS pair holds from its evaluation to its deadline
\* at every reading of the clock, and past the deadline and the skew at none
\* (receiptBindings against the comparisons with nowMs).
THEOREM ReceiptHoldsCorrect == GatesSpec => []ReceiptHolds
<1>1. ASSUME GateInv PROVE ReceiptHolds
  <2> SUFFICES ASSUME gate = "ruos", issued # Unissued
               PROVE  LET again == EvaluatePair(issued.policy, frozen, issued.records, clock)
                      IN  /\ clock \in issued.evaluatedAt .. issued.validUntil => again = "ACCEPT"
                          /\ clock > issued.validUntil + issued.policy.skew => again # "ACCEPT"
    BY DEF ReceiptHolds
  <2>1. PICK p \in PoliciesOf[gate], now \in Nat, s \in Seq(RecordsOf[gate] \cup ToSet(Baseline)) :
          issued = Receipt(p, s, now) /\ EvaluatePair(p, frozen, s, now) = "ACCEPT"
    BY <1>1 DEF GateInv
  <2> DEFINE until == ValidUntil(p, s, now)
             again == EvaluatePair(p, frozen, s, clock)
  <2>2. /\ issued.policy = p /\ issued.records = s /\ issued.evaluatedAt = now
        /\ issued.validUntil = until
    BY <2>1 DEF Receipt
  <2>3. DatedRuns(s) /\ p.ttl \in Int /\ p.skew \in Int /\ clock \in Nat
    BY <1>1, RunsAreDated DEF GateInv
  <2>4. /\ until \in Int /\ \A e \in Runs(s) : until =< e.timestamp + p.ttl
        /\ until = now + p.ttl \/ \E e \in Runs(s) : until = e.timestamp + p.ttl
    BY <2>1, <2>3, DeadlineOf
  <2> HIDE DEF until
  <2>5. ASSUME clock \in now .. until PROVE again = "ACCEPT"
    <3>1. ASSUME NEW e \in Runs(s) PROVE ~Stale(p, e, clock)
      <4>1. e.timestamp \in Int /\ until =< e.timestamp + p.ttl /\ clock =< until
        BY <2>3, <2>4, <2>5 DEF DatedRuns
      <4> QED
        BY <2>3, <2>4, <4>1 DEF Stale
    <3>2. again = "ACCEPT" \/ (again = "INCONCLUSIVE" /\ \E e \in Runs(s) : Stale(p, e, clock))
      BY <2>1, <2>3, <2>4, <2>5, PairAges
    <3> QED
      BY <3>1, <3>2
  <2>6. ASSUME clock > until + p.skew, again = "ACCEPT" PROVE FALSE
    <3>1. /\ ValidPolicy(p)
          /\ \A arm \in {"baseline", "candidate"} :
               /\ Runs(ArmOf(arm, s)) # {}
               /\ ~Broken(p, frozen, ArmOf(arm, s), now) /\ ~Wanting(p, ArmOf(arm, s), clock)
      BY <2>1, <2>6, AcceptedPair
    <3>2. \A e \in Runs(s) : \E arm \in {"baseline", "candidate"} : e \in Runs(ArmOf(arm, s))
      BY <2>3 DEF DatedRuns, Runs, ArmOf, ToSet
    <3>3. \A e \in Runs(s) : ~Stale(p, e, clock) /\ ~Ahead(p, e, now) /\ e.timestamp \in Int
      BY <2>3, <3>1, <3>2 DEF Broken, Wanting, DatedRuns
    <3>4. p.skew >= 0
      BY <3>1 DEF ValidPolicy
    <3>5. PICK r \in Runs(s) : TRUE
      BY <3>1 DEF Runs, ArmOf, ToSet
    <3>6. CASE until = now + p.ttl
      <4>1. clock > (now + p.ttl) + p.skew /\ now \in Int /\ clock \in Int
        BY <2>3, <2>6, <3>6
      <4>2. /\ ~(clock - r.timestamp > p.ttl) /\ ~(r.timestamp > now + p.skew)
            /\ r.timestamp \in Int
        BY <3>3 DEF Stale, Ahead
      <4> QED
        BY <2>3, <4>1, <4>2, PastSkew
    <3>7. CASE \E f \in Runs(s) : until = f.timestamp + p.ttl
      <4>1. PICK f \in Runs(s) : until = f.timestamp + p.ttl
        BY <3>7
      <4> QED
        BY <2>3, <2>6, <3>3, <3>4, <4>1, PastSkew DEF Stale
    <3> QED
      BY <2>4, <3>6, <3>7
  <2> QED
    BY <2>2, <2>5, <2>6
<1> QED
  BY <1>1, GateInvHolds, PTL
=============================================================================
