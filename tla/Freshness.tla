-------------------------------- MODULE Freshness --------------------------------
(***************************************************************************)
(* Evidence freshness (packages/witness/src/evidence-freshness.ts) and the *)
(* commands `freshness stamp` and `freshness verify` of the CLI.           *)
(*                                                                         *)
(* A stamp reads the declared paths one after another and writes their     *)
(* digests, with a digest of the whole, as the policy file of a candidate. *)
(* A verification reads that file, then the same paths one after another,  *)
(* and judges.  Nothing stops the tree: paths are written and removed      *)
(* between any two reads.  The commits are those the caller names, the     *)
(* days those the clock gives.  A digest is the value it digests.  A stamp *)
(* and a verification do not overlap: they share only the policy file,     *)
(* which a verification reads in one step.                                 *)
(***************************************************************************)
EXTENDS Integers, Sequences, Functions

CONSTANTS
  Paths,                (* paths an evaluation may depend on               *)
  Texts,                (* what a path may hold                            *)
  Absent,               (* what it holds when there is no file             *)
  NoLimit,              (* no --max-age                                    *)
  Declarable,           (* the lists --paths may give                      *)
  Ages,                 (* the limits --max-age may give                   *)
  Days,                 (* the days io.now() may give                      *)
  Commits,              (* what --base and --head may name                 *)
  Missing,              (* no value: nothing in progress, no file, no age  *)
  MaxWrites             (* bound: writes to the tree                       *)

ASSUME FreshnessAssumption ==
  /\ Absent \notin Texts /\ Declarable \subseteq Seq(Paths)
  /\ Days \subseteq Int /\ Ages \subseteq Nat \cup {NoLimit} /\ NoLimit \notin Int
  /\ Missing \notin Int

VARIABLES
  content,              (* per path: what the tree holds                   *)
  stamping,             (* the stamp command in progress                   *)
  policyFile,           (* the policy file                                 *)
  verifying,            (* the verify command in progress                  *)
  receipt,              (* the receipt printed, until another command runs *)
  held,                 (* history: per command and path, what it has held *)
  writes                (* history: writes to the tree                     *)

freshTree == <<content, writes>>
freshVars == <<freshTree, stamping, policyFile, verifying, receipt, held>>

NoDigests == [path \in {} |-> Absent]
Noted(digests, path, text) ==
  [p \in DOMAIN digests \cup {path} |-> IF p = path THEN text ELSE digests[p]]

\* What every path holds now, as the start of a history of it.
HeldNow == [p \in Paths |-> {content[p]}]
NothingHeld == [p \in Paths |-> {}]

-----------------------------------------------------------------------------
(* The receipt.                                                            *)

\* What evidenceFreshnessPolicyDigest refuses: a path twice, or no day at all.
WellFormed(policy) == IsInjective(policy.paths) /\ policy.maxAge # 0

\* The order of the paths does not count.
PolicyDigest(policy) ==
  [dependencies |-> policy.digests, base |-> policy.base,
   evaluated |-> policy.evaluated, maxAge |-> policy.maxAge]

InvalidReceipt ==
  [status |-> "INVALID", policyDigest |-> Missing, ageDays |-> Missing,
   ageExceeded |-> FALSE, drifted |-> {}, missing |-> {}]

\* Slip: a gate that fires whenever the base commit has moved.
StatusOfMoved(drifted, unverified, ageExceeded, moved) ==
  IF drifted # {} \/ ageExceeded \/ moved THEN "STALE"
  ELSE IF unverified # {} THEN "INDETERMINATE" ELSE "FRESH"

StatusOf(drifted, unverified, ageExceeded, moved) ==
  IF drifted # {} \/ ageExceeded THEN "STALE"
  ELSE IF unverified # {} THEN "INDETERMINATE" ELSE "FRESH"

Evaluate(policy, expected, observed, commit, day) ==
  LET declared    == DOMAIN policy.digests
      seen        == DOMAIN observed
      drifted     == {p \in declared \cap seen : observed[p] # policy.digests[p]}
      ageDays     == day - policy.evaluated
      ageExceeded == policy.maxAge # NoLimit /\ ageDays > policy.maxAge
  IN  IF PolicyDigest(policy) # expected \/ declared = {} \/ ageDays < 0
      THEN InvalidReceipt
      ELSE [status |-> StatusOf(drifted, (declared \ seen) \cup (seen \ declared),
                                ageExceeded, commit # policy.base),
            policyDigest |-> expected, ageDays |-> ageDays,
            ageExceeded |-> ageExceeded, drifted |-> drifted,
            missing |-> declared \ seen]

-----------------------------------------------------------------------------
(* freshness stamp.                                                        *)

StampBegin ==
  /\ stamping = Missing /\ verifying = Missing
  /\ \E paths \in Declarable, commit \in Commits, age \in Ages :
       stamping' = [paths |-> paths, left |-> paths, digests |-> NoDigests,
                    base |-> commit, maxAge |-> age]
  /\ held' = [held EXCEPT !.stamp = HeldNow]
  /\ receipt' = Missing
  /\ UNCHANGED <<freshTree, policyFile, verifying>>

\* A path that cannot be read ends the command.
StampRead ==
  /\ stamping # Missing /\ stamping.left # <<>>
  /\ LET path == Head(stamping.left)
     IN  stamping' = IF content[path] = Absent THEN Missing
                     ELSE [stamping EXCEPT !.left = Tail(@),
                             !.digests = Noted(@, path, content[path])]
  /\ UNCHANGED <<freshTree, policyFile, verifying, receipt, held>>

Stamped(day) ==
  [paths |-> stamping.paths, digests |-> stamping.digests, base |-> stamping.base,
   maxAge |-> stamping.maxAge, evaluated |-> day]

\* The file is written in place: a command ended meanwhile leaves half of it.
StampWrite ==
  /\ stamping # Missing /\ stamping.left = <<>>
  /\ stamping' = Missing
  /\ \E day \in Days :
       IF WellFormed(Stamped(day))
       THEN /\ \/ policyFile' = [policy |-> Stamped(day),
                                 policyDigest |-> PolicyDigest(Stamped(day))]
               \/ policyFile' = Missing
            /\ held' = [held EXCEPT !.policy = held.stamp, !.stamp = NothingHeld]
       ELSE UNCHANGED <<policyFile, held>>
  /\ UNCHANGED <<freshTree, verifying, receipt>>

-----------------------------------------------------------------------------
(* freshness verify.                                                       *)

\* Slip: the policy is taken as it stands, with a digest of its own.
AnchoredAsItStands(file) == WellFormed(file.policy)

\* The anchor is checked before any declared path is read.
Anchored(file) == WellFormed(file.policy) /\ PolicyDigest(file.policy) = file.policyDigest

VerifyBegin ==
  /\ stamping = Missing /\ verifying = Missing
  /\ policyFile # Missing /\ Anchored(policyFile)
  /\ \E commit \in Commits :
       verifying' = [policy |-> policyFile.policy, left |-> policyFile.policy.paths,
                     digests |-> NoDigests, head |-> commit]
  /\ held' = [held EXCEPT !.anchor = held.policy, !.verify = HeldNow]
  /\ receipt' = Missing
  /\ UNCHANGED <<freshTree, stamping, policyFile>>

\* A path that is gone is simply not observed.
VerifyRead ==
  /\ verifying # Missing /\ verifying.left # <<>>
  /\ LET path == Head(verifying.left)
     IN  verifying' = [verifying EXCEPT !.left = Tail(@),
                         !.digests = IF content[path] = Absent THEN @
                                     ELSE Noted(@, path, content[path])]
  /\ UNCHANGED <<freshTree, stamping, policyFile, receipt, held>>

VerifyJudge ==
  /\ verifying # Missing /\ verifying.left = <<>>
  /\ \E day \in Days :
       receipt' = Evaluate(verifying.policy, PolicyDigest(verifying.policy),
                           verifying.digests, verifying.head, day)
  /\ verifying' = Missing
  /\ UNCHANGED <<freshTree, stamping, policyFile, held>>

-----------------------------------------------------------------------------
(* The tree and the policy file change under the commands.                 *)

\* A history goes on while its command runs.
HeldAfter(path, text) ==
  [held EXCEPT
     !.stamp[path]  = IF stamping = Missing THEN @ ELSE @ \cup {text},
     !.verify[path] = IF verifying = Missing THEN @ ELSE @ \cup {text}]

WriteTree ==
  /\ writes < MaxWrites /\ writes' = writes + 1
  /\ \E path \in Paths, text \in Texts \cup {Absent} :
       /\ text # content[path]
       /\ content' = [content EXCEPT ![path] = text]
       /\ held' = HeldAfter(path, text)
  /\ UNCHANGED <<stamping, policyFile, verifying, receipt>>

\* One digest of the file is brought up to date by hand; bound: once.
EditPolicy ==
  /\ policyFile # Missing /\ Anchored(policyFile)
  /\ \E path \in DOMAIN policyFile.policy.digests, text \in Texts :
       policyFile' = [policyFile EXCEPT !.policy.digests[path] = text]
  /\ UNCHANGED <<freshTree, stamping, verifying, receipt, held>>

FreshInit ==
  /\ content \in [Paths -> Texts] /\ writes = 0
  /\ stamping = Missing /\ policyFile = Missing
  /\ verifying = Missing /\ receipt = Missing
  /\ held = [command \in {"stamp", "policy", "anchor", "verify"} |-> NothingHeld]

FreshNext ==
  \/ StampBegin \/ StampRead \/ StampWrite
  \/ VerifyBegin \/ VerifyRead \/ VerifyJudge
  \/ WriteTree \/ EditPolicy

FreshSpec == FreshInit /\ [][FreshNext]_freshVars

-----------------------------------------------------------------------------
(* Properties.                                                             *)

\* The type invariant.
FreshTypeOK ==
  /\ content \in [Paths -> Texts \cup {Absent}]
  /\ writes \in Nat
  /\ held \in [{"stamp", "policy", "anchor", "verify"} -> [Paths -> SUBSET (Texts \cup {Absent})]]

\* FRESH means that something was declared and that each declared path held,
\* at some moment of the verification, what it held at some moment of the
\* stamp: drift, removal, an edited policy file and a policy half written are
\* never FRESH (evaluateEvidenceFreshness, the anchor check of the command).
FreshMeansUnchanged ==
  receipt # Missing /\ receipt.status = "FRESH" =>
    LET declared == DOMAIN receipt.policyDigest.dependencies
    IN  /\ declared # {}
        /\ \A p \in declared : (held.anchor[p] \cap held.verify[p]) \ {Absent} # {}

\* The converse, without which the gate would be ignored: when no declared
\* path changed from the start of the stamp to its end and to the end of the
\* verification, the receipt is FRESH unless an age limit is exceeded, however
\* many commits and other paths have moved (evidence-freshness.ts, non-goals).
UntouchedIsFresh ==
  receipt # Missing /\ receipt.policyDigest # Missing /\ ~receipt.ageExceeded
  /\ (\A p \in DOMAIN receipt.policyDigest.dependencies :
        \E text \in Texts : held.anchor[p] = {text} /\ held.verify[p] = {text})
  => receipt.status = "FRESH"
=============================================================================
