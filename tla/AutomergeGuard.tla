------------------------------ MODULE AutomergeGuard ------------------------------
(***************************************************************************)
(* The automerge guard (scripts/automerge-guard.mjs).  For the version of  *)
(* a pull request an event names, it reads the pull request, its files     *)
(* page by page, and the pull request again, and calls it eligible when    *)
(* both readings show that version and no file is protected.  Meanwhile    *)
(* authors push, the base moves and maintainers close, draft and label.    *)
(***************************************************************************)
EXTENDS Integers, SequencesExt

CONSTANTS
  Versions,             (* pairs of head and base commit                   *)
  FilesOf,              (* per version: the files of its diff              *)
  Protected,            (* paths reserved to people                        *)
  Unsound,              (* paths validPath refuses                         *)
  NoPath,               (* a file with no previous name                    *)
  PageSize,             (* 100 of the endpoint                             *)
  MaxFiles,             (* MAX_FILES                                       *)
  Undecided,
  MaxPushes             (* bound: changes of the pull request              *)

ASSUME GuardAssumption ==
  /\ PageSize \in Nat \ {0} /\ MaxFiles \in Nat /\ MaxPushes \in Nat
  /\ FilesOf \in [Versions -> Seq([name : STRING, previous : STRING \cup {NoPath}])]

VARIABLES
  version,              (* what the pull request shows                     *)
  ready,                (* open, no draft and labelled automerge-safe      *)
  guard,                (* the guard: where it is and what it has read     *)
  eligible,             (* its result                                      *)
  cameBack,             (* history: its version was replaced, then restored *)
  pushes                (* history: changes of the pull request            *)

pullRequest == <<version, ready, cameBack, pushes>>
guardVars == <<pullRequest, guard, eligible>>

-----------------------------------------------------------------------------
(* The verdict.                                                            *)

Snapshot == [version |-> version, ready |-> ready, changed |-> Len(FilesOf[version])]

ValidSnapshot(snapshot, expected) ==
  /\ snapshot.version = expected /\ snapshot.ready
  /\ snapshot.changed \in 1 .. MaxFiles

FullPages(pages) ==
  /\ pages # <<>> /\ Len(pages) * PageSize <= MaxFiles
  /\ \A i \in DOMAIN pages :
       Len(pages[i]) \in (IF i < Len(pages) THEN {PageSize} ELSE 1 .. PageSize)

ProtectedPath(path) == path \in Protected \cup Unsound

\* Slip: the second reading counts only the files.
SameReadingCounted(expected, first, second) ==
  ValidSnapshot(first, expected) /\ second.changed = first.changed

SameReading(expected, first, second) ==
  /\ ValidSnapshot(first, expected) /\ ValidSnapshot(second, expected)
  /\ second.changed = first.changed

EvaluateGuard(expected, first, pages, second) ==
  LET files == FlattenSeq(pages)
  IN  /\ SameReading(expected, first, second)
      /\ FullPages(pages)
      /\ Len(files) = first.changed
      /\ Cardinality({file.name : file \in ToSet(files)}) = Len(files)
      /\ \A file \in ToSet(files) :
           /\ ~ProtectedPath(file.name)
           /\ file.previous # NoPath => ~ProtectedPath(file.previous)

-----------------------------------------------------------------------------
(* The guard.                                                              *)

NoRead == [version |-> Undecided, ready |-> FALSE, changed |-> 0]

Decided(result) ==
  /\ eligible' = result
  /\ guard' = [guard EXCEPT !.at = "done"]
  /\ UNCHANGED pullRequest

\* The event shows the version it was sent for, perhaps an earlier one, and is
\* answered only if it shows it ready.
Receive ==
  /\ guard.at = "waiting"
  /\ \E expected \in Versions :
       /\ Len(FilesOf[expected]) \in 1 .. MaxFiles
       /\ guard' = [guard EXCEPT !.at = "first", !.expected = expected]
  /\ UNCHANGED <<pullRequest, eligible>>

ReadFirst ==
  /\ guard.at = "first"
  /\ IF ValidSnapshot(Snapshot, guard.expected)
     THEN /\ guard' = [guard EXCEPT !.at = "pages", !.first = Snapshot]
          /\ UNCHANGED <<pullRequest, eligible>>
     ELSE Decided(FALSE)

\* The page holds what the version shown now lists there, and the last page is
\* the one after which that version has no more.
ReadPage ==
  /\ guard.at = "pages"
  /\ LET listed == FilesOf[version]
         from   == Len(guard.pages) * PageSize
         page   == SubSeq(listed, from + 1, Min({from + PageSize, Len(listed)}))
     IN  guard' = [guard EXCEPT !.pages = Append(@, page),
                     !.at = IF Len(listed) > from + PageSize THEN @ ELSE "second"]
  /\ UNCHANGED <<pullRequest, eligible>>

ReadSecond ==
  /\ guard.at = "second"
  /\ Decided(EvaluateGuard(guard.expected, guard.first, guard.pages, Snapshot))

\* A call of the API that fails or times out ends the job without a result.
ApiFails ==
  /\ guard.at \in {"first", "pages", "second"}
  /\ Decided(FALSE)

-----------------------------------------------------------------------------
(* The pull request changes between any two readings.                      *)

Push ==
  /\ pushes < MaxPushes /\ pushes' = pushes + 1
  /\ \E v \in Versions \ {version} : version' = v
  /\ cameBack' = (cameBack \/ (guard.at \in {"pages", "second"} /\ version' = guard.expected))
  /\ UNCHANGED <<ready, guard, eligible>>

Relabel ==
  /\ pushes < MaxPushes /\ pushes' = pushes + 1
  /\ ready' = ~ready
  /\ UNCHANGED <<version, cameBack, guard, eligible>>

GuardInit ==
  /\ version \in Versions /\ ready \in BOOLEAN /\ cameBack = FALSE /\ pushes = 0
  /\ guard = [at |-> "waiting", expected |-> Undecided, first |-> NoRead, pages |-> <<>>]
  /\ eligible = FALSE

GuardNext ==
  \/ Receive \/ ReadFirst \/ ReadPage \/ ReadSecond \/ ApiFails
  \/ Push \/ Relabel

GuardSpec == GuardInit /\ [][GuardNext]_guardVars

-----------------------------------------------------------------------------
(* Properties.                                                             *)

\* Whoever pushes, retargets or relabels between the three readings, a version
\* called eligible has no protected path in its whole diff, under a present or
\* a previous name, unless it was replaced during the readings and restored
\* (inspectPullRequest and evaluateGuard).
EligibleIsOneHead ==
  eligible /\ ~cameBack =>
    \A file \in ToSet(FilesOf[guard.expected]) :
      /\ ~ProtectedPath(file.name)
      /\ file.previous # NoPath => ~ProtectedPath(file.previous)
=============================================================================
