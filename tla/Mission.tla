---------------------------------- MODULE Mission ----------------------------------
(***************************************************************************)
(* `mission run` and `mission verify` (scripts/mission.mjs) and the        *)
(* evidence bundles they make and read (scripts/mission-evidence.mjs).     *)
(*                                                                         *)
(* A run reads lockfile, HEAD and status, runs the repository check, reads *)
(* the three again, and writes its artifacts one by one into a new         *)
(* directory, the manifest last.  A verification reads the manifest, lists *)
(* the directory and reads the artifacts.  Around them the working tree    *)
(* changes, HEAD moves, the run may be killed and files of the bundle may  *)
(* be altered.  A digest is the value it digests.                          *)
(***************************************************************************)
EXTENDS Integers, FiniteSets

CONSTANTS
  CommitIds,
  Trees,                (* working trees, as records with their lockfile   *)
  TreeOf,               (* per commit: the tree it records                 *)
  None,                 (* no value                                        *)
  Spoiled,              (* what an altered or half-written file holds      *)
  MaxChanges            (* bound: changes of tree, HEAD and bundle         *)

ASSUME MissionAssumption ==
  /\ TreeOf \in [CommitIds -> Trees] /\ MaxChanges \in Nat
  /\ Spoiled # None /\ None \notin {"ACCEPT", "REJECT"}

VARIABLES
  tree, headId,         (* the working tree and HEAD                       *)
  mission,              (* the run: where it is and what it has read       *)
  files,                (* the bundle's directory: content by name         *)
  created,              (* manifest and artifacts createEvidenceBundle made *)
  checking,             (* a verification in progress                      *)
  verified,             (* the result of the last verification             *)
  passedBy,             (* history: trees between the two status readings  *)
  blurred,              (* history: see MoveHead and ChangeTree            *)
  changes               (* history: changes of tree, HEAD and bundle       *)

world == <<tree, headId, passedBy, blurred, changes>>
missionVars == <<world, mission, files, created, checking, verified>>

ManifestName == "manifest.json"
ArtifactNames == {"licenses.json", "sbom.cdx.json", "tests.json"}

NoFiles == [name \in {} |-> None]
With(fs, name, text) ==
  [n \in DOMAIN fs \cup {name} |-> IF n = name THEN text ELSE fs[n]]

-----------------------------------------------------------------------------
(* mission run: the readings around the check.                             *)

NoReading == [commit |-> None, dirty |-> FALSE, lock |-> None]

At(stage) == mission.at = stage
Goes(stage) == mission' = [mission EXCEPT !.at = stage]
Blocked == Goes("blocked") /\ UNCHANGED <<world, files, created, checking, verified>>
OnlyMission == UNCHANGED <<files, created, checking, verified>>

\* doctor and development policy; anything but two ACCEPTs blocks the run.
Preflight == At("start") /\ (Goes("lock") \/ Goes("blocked")) /\ UNCHANGED world /\ OnlyMission

Round == IF mission.check = None THEN 1 ELSE 2

ReadLock ==
  /\ At("lock")
  /\ mission' = [mission EXCEPT !.at = "revision", !.reading[Round].lock = tree.lock]
  /\ UNCHANGED world /\ OnlyMission

ReadRevision ==
  /\ At("revision")
  /\ mission' = [mission EXCEPT !.at = "status", !.reading[Round].commit = headId]
  /\ UNCHANGED world /\ OnlyMission

ReadStatus ==
  /\ At("status")
  /\ mission' = [mission EXCEPT !.at = IF Round = 1 THEN "check" ELSE "sbom",
                   !.reading[Round].dirty = (tree # TreeOf[headId])]
  /\ passedBy' = IF Round = 1 THEN {tree} ELSE passedBy
  /\ UNCHANGED <<tree, headId, blurred, changes>> /\ OnlyMission

\* npm run check and the simulator.
Check ==
  /\ At("check")
  /\ \E simulation \in {"ACCEPT", "REJECT"} :
       mission' = [mission EXCEPT !.at = "lock", !.check = simulation]
  /\ UNCHANGED world /\ OnlyMission

\* npm sbom reads the lockfile once more; the audit asks a service.
ReadSbom ==
  /\ At("sbom")
  /\ \E audit \in {"ACCEPT", "REJECT", "INCONCLUSIVE"} :
       mission' = [mission EXCEPT !.at = "create", !.sbom = tree.lock, !.audit = audit]
  /\ UNCHANGED world /\ OnlyMission

\* A command that fails or an assertion ends the run.
StepFails == mission.at \notin {"start", "done", "blocked", "writing"} /\ Blocked

\* Slip: only the second reading's status counts.
SourceGateLate(first, second) ==
  IF first.commit # second.commit \/ first.lock # second.lock THEN "REJECT"
  ELSE IF second.dirty THEN "INCONCLUSIVE" ELSE "ACCEPT"

SourceGate(first, second) ==
  IF first.commit # second.commit \/ first.lock # second.lock THEN "REJECT"
  ELSE IF first.dirty \/ second.dirty THEN "INCONCLUSIVE" ELSE "ACCEPT"

\* The gates whose verdict is not fixed.
Gates == [source       |-> SourceGate(mission.reading[1], mission.reading[2]),
          simulation   |-> mission.check,
          dependencies |-> mission.audit]

-----------------------------------------------------------------------------
(* createEvidenceBundle.                                                   *)

Artifacts ==
  [name \in ArtifactNames |->
     CASE name = "licenses.json" -> mission.reading[2].lock
       [] name = "sbom.cdx.json" -> mission.sbom
       [] OTHER                  -> "checked"]

CreateBundle ==
  /\ At("create") /\ Goes("writing")
  /\ created' = [artifacts |-> Artifacts,
                 manifest  |-> [source |-> mission.reading[2], artifacts |-> Artifacts,
                                gates |-> Gates]]
  /\ UNCHANGED <<world, files, checking, verified>>

WriteArtifact ==
  /\ At("writing")
  /\ \E name \in ArtifactNames \ DOMAIN files :
       files' = With(files, name, created.artifacts[name])
  /\ UNCHANGED <<world, mission, created, checking, verified>>

WriteManifest ==
  /\ At("writing") /\ ArtifactNames \subseteq DOMAIN files
  /\ files' = With(files, ManifestName, created.manifest)
  /\ Goes("done")
  /\ UNCHANGED <<world, created, checking, verified>>

\* The run is killed: the file being written may hold a part of its text.
RunKilled ==
  /\ At("writing") /\ Goes("blocked")
  /\ \/ UNCHANGED files
     \/ \E name \in (ArtifactNames \cup {ManifestName}) \ DOMAIN files :
          /\ name = ManifestName => ArtifactNames \subseteq DOMAIN files
          /\ files' = With(files, name, Spoiled)
  /\ UNCHANGED <<world, created, checking, verified>>

-----------------------------------------------------------------------------
(* verifyEvidenceBundle, by the run itself or later, with or without the   *)
(* digest the run returned.                                                *)

VerifyManifest ==
  /\ checking = None /\ ManifestName \in DOMAIN files
  /\ LET manifest == files[ManifestName]
     IN  /\ manifest # Spoiled
         /\ \E trusted \in BOOLEAN :
              /\ trusted => manifest = created.manifest
              /\ checking' = [manifest |-> manifest, trusted |-> trusted,
                              listed |-> FALSE, read |-> NoFiles]
  /\ verified' = None
  /\ UNCHANGED <<world, mission, files, created>>

\* Exactly the artifacts the manifest names, and the manifest.
VerifyNames ==
  /\ checking # None /\ ~checking.listed
  /\ checking' = IF DOMAIN files = DOMAIN checking.manifest.artifacts \cup {ManifestName}
                 THEN [checking EXCEPT !.listed = TRUE] ELSE None
  /\ UNCHANGED <<world, mission, files, created, verified>>

\* Size and content are those the manifest records.
Matches(name, text) == text = checking.manifest.artifacts[name]

VerifyArtifact ==
  /\ checking # None /\ checking.listed
  /\ \E name \in DOMAIN checking.manifest.artifacts \ DOMAIN checking.read :
       checking' = IF name \in DOMAIN files /\ Matches(name, files[name])
                   THEN [checking EXCEPT !.read = With(@, name, files[name])] ELSE None
  /\ UNCHANGED <<world, mission, files, created, verified>>

VerifyDone ==
  /\ checking # None /\ checking.listed
  /\ DOMAIN checking.read = DOMAIN checking.manifest.artifacts
  /\ verified' = [integrityVerdict |-> IF checking.trusted THEN "ACCEPT" ELSE "INCONCLUSIVE",
                  verdict |-> IF \E g \in DOMAIN checking.manifest.gates :
                                   checking.manifest.gates[g] = "REJECT"
                              THEN "REJECT" ELSE "INCONCLUSIVE",
                  manifest |-> checking.manifest, read |-> checking.read]
  /\ checking' = None
  /\ UNCHANGED <<world, mission, files, created>>

-----------------------------------------------------------------------------
(* The world around.                                                       *)

Changes == changes < MaxChanges /\ changes' = changes + 1
Observing == mission.at \in {"check", "lock", "revision", "status"} /\ passedBy # {}

\* A tree that comes back to what it was between the readings leaves no trace
\* in them.
TreeBecomes(t) ==
  /\ tree' = t
  /\ passedBy' = IF Observing THEN passedBy \cup {t} ELSE passedBy

Returns(t) == Observing /\ t # tree /\ t \in passedBy

ChangeTree ==
  /\ Changes
  /\ \E t \in Trees \ {tree} : TreeBecomes(t) /\ blurred' = (blurred \/ Returns(t))
  /\ UNCHANGED <<headId, mission>> /\ OnlyMission

\* A commit of the present tree, a checkout or a reset.  Between the reading of
\* HEAD and that of the status it makes them speak of two commits.
MoveHead ==
  /\ Changes
  /\ \E c \in CommitIds \ {headId}, t \in Trees :
       /\ t \in {tree, TreeOf[c]} /\ headId' = c /\ TreeBecomes(t)
       /\ blurred' = (blurred \/ At("status") \/ Returns(t))
  /\ UNCHANGED mission /\ OnlyMission

\* A file of the bundle is spoiled, removed or added, or a gate of the manifest
\* is rewritten by hand.
ChangeBundle ==
  /\ Changes /\ files # NoFiles
  /\ \E name \in DOMAIN files \cup {"notes.json"} :
       \/ files' = With(files, name, Spoiled)
       \/ files' = [n \in DOMAIN files \ {name} |-> files[n]]
       \/ /\ name = ManifestName /\ files[name] # Spoiled
          /\ files' = [files EXCEPT ![name].gates.source = "ACCEPT"]
  /\ UNCHANGED <<tree, headId, passedBy, blurred, mission, created, checking, verified>>

MissionInit ==
  /\ headId \in CommitIds /\ tree \in Trees
  /\ mission = [at |-> "start", reading |-> <<NoReading, NoReading>>,
                check |-> None, sbom |-> None, audit |-> None]
  /\ files = NoFiles /\ created = None /\ checking = None /\ verified = None
  /\ passedBy = {} /\ blurred = FALSE /\ changes = 0

MissionNext ==
  \/ Preflight \/ ReadLock \/ ReadRevision \/ ReadStatus \/ Check \/ ReadSbom \/ StepFails
  \/ CreateBundle \/ WriteArtifact \/ WriteManifest \/ RunKilled
  \/ VerifyManifest \/ VerifyNames \/ VerifyArtifact \/ VerifyDone
  \/ ChangeTree \/ MoveHead \/ ChangeBundle

MissionSpec == MissionInit /\ [][MissionNext]_missionVars

-----------------------------------------------------------------------------
(* Properties.                                                             *)

\* A bundle accepted under the digest its run returned was read whole and as it
\* was made; and if its source gate accepts, the repository check ran on
\* nothing but the tree of the commit the bundle names, unless the tree went
\* and came back between the readings or HEAD moved between the two git
\* commands of one reading (the sourceChanged and dirty gates of main).
VerifiedEvidence ==
  verified # None /\ verified.integrityVerdict = "ACCEPT" =>
    /\ verified.read = created.artifacts /\ verified.manifest = created.manifest
    /\ verified.manifest.gates.source = "ACCEPT" /\ ~blurred =>
         passedBy = {TreeOf[verified.manifest.source.commit]}
=============================================================================
