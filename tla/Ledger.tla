---------------------------------- MODULE Ledger ----------------------------------
(***************************************************************************)
(* The night ledger (packages/ledger/src/index.ts) and the commands        *)
(* `ledger append`, `verify` and `signals` of the CLI.                     *)
(*                                                                         *)
(* An append reads the whole file, adds a row and writes the whole file    *)
(* back in place: opening it for writing empties it.  Commands of several  *)
(* nights may overlap, a read may fail and a command may be killed.  Of    *)
(* the ten columns the five that some code reads are kept.  A text is the  *)
(* sequence of words its pipes separate; a line is the sequence of words   *)
(* between all its pipes, since that is how it is split again.             *)
(***************************************************************************)
EXTENDS Integers, SequencesExt

CONSTANTS
  Nights,               (* commands that may append at the same time       *)
  Rows,                 (* the rows they may be asked to append            *)
  DayOf,                (* the day a well-formed date names                *)
  PullRequests,         (* texts that name a pull request by its number    *)
  MergedPrs,            (* the numbers --merged lists                      *)
  Pending,              (* the findings --pending lists                    *)
  Window,               (* nights the streaks look back                    *)
  Idle,
  MaxRows               (* bound: rows appended                            *)

VARIABLES
  ledger,               (* the lines of LEDGER.md                          *)
  appending,            (* per night: its append command                   *)
  appended,             (* history: rows whose command succeeded, in order *)
  calm                  (* history: no overlap, failed read or kill yet    *)

ledgerVars == <<ledger, appending, appended, calm>>

-----------------------------------------------------------------------------
(* Rows and lines.                                                         *)

\* A text holds a word before its first pipe, be it an empty one.
IsText(text) == text \in Seq([word : STRING, slash : {FALSE}]) /\ text # <<>>

Plain(word) == <<[word |-> word, slash |-> FALSE]>>
Verdicts == {Plain("ACCEPT"), Plain("REJECT"), Plain("INCONCLUSIVE")}
Evals == {Plain("yes"), Plain("no"), Plain("blocked")}

\* An escaped pipe leaves a backslash on the word before it.
EscapeCell(text) == [i \in DOMAIN text |-> [text[i] EXCEPT !.slash = i < Len(text)]]

RenderRow(row) ==
  EscapeCell(row.date) \o EscapeCell(row.finding) \o EscapeCell(row.pr)
  \o EscapeCell(row.evaluated) \o EscapeCell(row.verdict)

Header ==
  RenderRow([date |-> Plain("Date"), finding |-> Plain("Finding"), pr |-> Plain("PR"),
             evaluated |-> Plain("Evaluated?"), verdict |-> Plain("Verdict")])

EmptyLedger == <<Header>>

Line == {Header} \cup {RenderRow(row) : row \in Rows}

ASSUME LedgerAssumption ==
  /\ Window \in Nat \ {0} /\ MaxRows \in Nat
  /\ \A row \in Rows :
       /\ DOMAIN row = {"date", "finding", "pr", "evaluated", "verdict"}
       /\ row = [column \in DOMAIN row |-> row[column]]
       /\ \A column \in DOMAIN row : IsText(row[column])
  /\ DayOf \in [DOMAIN DayOf -> Int]
  /\ Pending \in Seq(Seq([word : STRING, slash : {FALSE}]))
  /\ Idle \notin [row : Rows, lines : Seq(Line), opened : BOOLEAN]

\* Slip: a new ledger starts without its header.
AppendRowBare(lines, row) == Append(lines, RenderRow(row))

AppendRow(lines, row) ==
  Append(IF lines = <<>> THEN EmptyLedger ELSE lines, RenderRow(row))

\* The words between all pipes, escaped or not, are taken for the cells.
CellsToRow(line) ==
  LET Cell(k) == IF k <= Len(line) THEN <<line[k]>> ELSE Plain("")
  IN  [date |-> Cell(1), finding |-> Cell(2), pr |-> Cell(3),
       evaluated |-> Cell(4), verdict |-> Cell(5)]

\* The first line is the header, whatever it holds.
ParseLedger(lines) ==
  IF lines = <<>> THEN <<>>
  ELSE [i \in 1 .. Len(lines) - 1 |-> CellsToRow(lines[i + 1])]

Dated(row) == row.date[1].word \in DOMAIN DayOf

\* An empty ledger is the one without a header.
VerifyLedger(lines) ==
  /\ lines # <<>>
  /\ \A i \in DOMAIN ParseLedger(lines) :
       LET row == ParseLedger(lines)[i]
       IN  /\ row.verdict \in Verdicts \cup {Plain("")}
           /\ row.evaluated \in Evals \cup {Plain("")}
           /\ Dated(row) \/ row.date = Plain("")

-----------------------------------------------------------------------------
(* Learning signals.                                                       *)

LastRows(n, rows) == SubSeq(rows, Max({1, Len(rows) - n + 1}), Len(rows))

\* Punctuation, and so pipes and backslashes, is no part of a direction.
DirectionKey(text) == [i \in DOMAIN text |-> text[i].word]

TimesSeen(key, rows) ==
  Cardinality({i \in DOMAIN rows : DirectionKey(rows[i].finding) = key})
  + Cardinality({i \in DOMAIN Pending : DirectionKey(Pending[i]) = key})

\* Slip: only the nights of the window are looked at.
DuplicateDirectionsRecent(rows) ==
  {key \in {DirectionKey(row.finding) : row \in ToSet(rows)} :
     TimesSeen(key, LastRows(Window, rows)) >= 3}

DuplicateDirections(rows) ==
  {key \in {DirectionKey(row.finding) : row \in ToSet(rows)}
           \cup {DirectionKey(text) : text \in ToSet(Pending)} :
     key # DirectionKey(Plain("")) /\ TimesSeen(key, rows) >= 3}

LearningSignals(rows, today) ==
  LET recent    == LastRows(Window, rows)
      prs       == {row.pr : row \in ToSet(recent)} \cap PullRequests
      lastThree == LastRows(3, recent)
      days      == {DayOf[row.date[1].word] : row \in {r \in ToSet(rows) : Dated(r)}}
  IN  [zeroMergeStreak |-> prs # {} /\ prs \cap MergedPrs = {},
       duplicateDirections |-> DuplicateDirections(rows),
       blockedEvalStreak |-> /\ Len(lastThree) = 3
                             /\ \A i \in 1 .. 3 : lastThree[i].evaluated = Plain("blocked"),
       ledgerStale |-> days # {} /\ today - Max(days) > 1]

-----------------------------------------------------------------------------
(* The commands.                                                           *)

Acceptable(row) == row.verdict \in Verdicts /\ row.evaluated \in Evals

\* Whatever stops the read, the command goes on from an empty ledger; a row
\* out of range is refused after it.
AppendRead(night) ==
  /\ appending[night] = Idle /\ Len(appended) < MaxRows
  /\ \E row \in {r \in Rows : Acceptable(r)} :
       \/ /\ appending' = [appending EXCEPT ![night] =
                              [row |-> row, lines |-> ledger, opened |-> FALSE]]
          /\ UNCHANGED calm
       \/ /\ appending' = [appending EXCEPT ![night] =
                              [row |-> row, lines |-> EmptyLedger, opened |-> FALSE]]
          /\ calm' = (calm /\ Len(ledger) <= 1)
  /\ UNCHANGED <<ledger, appended>>

\* Opening the file for writing empties it: whatever another command has put
\* there since the read is lost.
AppendOpen(night) ==
  /\ appending[night] # Idle /\ ~appending[night].opened
  /\ appending' = [appending EXCEPT ![night].opened = TRUE]
  /\ calm' = (calm /\ (ledger = appending[night].lines \/ Len(ledger) <= 1))
  /\ ledger' = <<>>
  /\ UNCHANGED appended

\* Where another command wrote meanwhile, what is left of its text is not kept:
\* nothing is claimed of such a ledger.
AppendWrite(night) ==
  /\ appending[night] # Idle /\ appending[night].opened
  /\ ledger' = AppendRow(appending[night].lines, appending[night].row)
  /\ appended' = Append(appended, appending[night].row)
  /\ calm' = (calm /\ ledger = <<>>)
  /\ appending' = [appending EXCEPT ![night] = Idle]

Killed(night) ==
  /\ appending[night] # Idle
  /\ calm' = (calm /\ (appending[night].opened => Len(appending[night].lines) <= 1))
  /\ appending' = [appending EXCEPT ![night] = Idle]
  /\ UNCHANGED <<ledger, appended>>

LedgerInit ==
  /\ ledger \in {<<>>, EmptyLedger} /\ appended = <<>> /\ calm = TRUE
  /\ appending = [night \in Nights |-> Idle]

LedgerNext ==
  \E night \in Nights :
    AppendRead(night) \/ AppendOpen(night) \/ AppendWrite(night) \/ Killed(night)

LedgerSpec == LedgerInit /\ [][LedgerNext]_ledgerVars

-----------------------------------------------------------------------------
(* Properties.                                                             *)

\* No command in progress, and none has overlapped another in a way that
\* shows, failed to read a ledger with rows or been killed while one was empty.
Settled == calm /\ \A night \in Nights : appending[night] = Idle

\* What a row says reads back if none of its cells has a pipe.
Unpiped(row) == \A column \in DOMAIN row : Len(row[column]) = 1

\* Nothing but overlaps, failed reads and kills loses a night: otherwise every
\* row whose command succeeded is in the ledger, once and in order, and one
\* without a pipe reads back as it was given; a ledger of such
\* rows with sound dates verifies (appendRow: exactly one row is added).
NightsKept ==
  Settled =>
    LET rows == ParseLedger(ledger)
    IN  /\ Len(rows) = Len(appended)
        /\ \A i \in DOMAIN rows : Unpiped(appended[i]) => rows[i] = appended[i]
        /\ appended # <<>> /\ (\A i \in DOMAIN rows : Unpiped(appended[i]) /\ Dated(appended[i]))
           => VerifyLedger(ledger)

\* The nights without a pipe that took the direction of night i.
SameDirection(i) ==
  {j \in DOMAIN appended : Unpiped(appended[j]) /\ appended[j].finding = appended[i].finding}

\* The signals see what the nights did: a direction three of them took and
\* named is a duplicate however long ago they were and a merged pull request of
\* the last nights ends the streak without merges, if no cell has a pipe; the
\* newest date, which no pipe displaces, always decides whether the ledger is
\* stale.
SignalsSeeNights ==
  Settled =>
    \A today \in {DayOf[date] : date \in DOMAIN DayOf} :
      LET signals == LearningSignals(ParseLedger(ledger), today)
          days == {DayOf[appended[i].date[1].word] : i \in {j \in DOMAIN appended : Dated(appended[j])}}
      IN  /\ \A i \in DOMAIN appended :
               Cardinality(SameDirection(i)) >= 3 /\ appended[i].finding # Plain("") =>
                 DirectionKey(appended[i].finding) \in signals.duplicateDirections
          /\ (\E i \in DOMAIN appended :
                /\ i > Len(appended) - Window /\ Unpiped(appended[i])
                /\ appended[i].pr \in PullRequests \cap MergedPrs) => ~signals.zeroMergeStreak
          /\ signals.ledgerStale = (days # {} /\ \A day \in days : today - day > 1)
=============================================================================
