-------------------------------- MODULE Schedule --------------------------------
(***************************************************************************)
(* The slot a cycle belongs to (cycleSlot in scripts/research/schedule.mjs)*)
(* while the local clock runs, over the ends of months and of February,    *)
(* and over the hours that summer time skips and repeats.                  *)
(***************************************************************************)
EXTENDS Integers, SequencesExt

CONSTANTS
  Configs,              (* the lists dailyHours may be; <<>>: undefined    *)
  FirstDays,            (* the local dates a behaviour may start on        *)
  NoSlot,               (* no slot: none passed yet, or a refused config   *)
  NoHour,               (* the hour of a slot named by its date alone      *)
  MaxTicks              (* bound: hours the clock runs                     *)


VARIABLES
  dailyHours,           (* config.dailyHours                               *)
  localDay, localHour,  (* the wall clock in config.timezone               *)
  passed,               (* history: the last slot the clock has passed     *)
  ticks,                (* history: hours the clock has run                *)
  shifted               (* history: summer time has begun or ended         *)

scheduleVars == <<dailyHours, localDay, localHour, passed, ticks, shifted>>

Leap(year) == year % 4 = 0 /\ (year % 100 # 0 \/ year % 400 = 0)
DaysIn(year, month) ==
  CASE month \in {4, 6, 9, 11} -> 30
    [] month = 2 -> IF Leap(year) THEN 29 ELSE 28
    [] OTHER -> 31

Date(year, month, day) == [year |-> year, month |-> month, day |-> day]

ValidDate(date) ==
  /\ date = Date(date.year, date.month, date.day)
  /\ date.year \in Int /\ date.month \in 1 .. 12
  /\ date.day \in 1 .. DaysIn(date.year, date.month)

ASSUME ScheduleAssumption ==
  /\ Configs \subseteq Seq(Int) /\ MaxTicks \in Nat
  /\ \A date \in FirstDays : ValidDate(date)

\* setUTCDate(day - 1) on the local date.
DayBefore(date) ==
  IF date.day > 1 THEN [date EXCEPT !.day = @ - 1]
  ELSE IF date.month > 1
  THEN Date(date.year, date.month - 1, DaysIn(date.year, date.month - 1))
  ELSE Date(date.year - 1, 12, 31)

DayAfter(date) ==
  IF date.day < DaysIn(date.year, date.month) THEN [date EXCEPT !.day = @ + 1]
  ELSE IF date.month < 12 THEN Date(date.year, date.month + 1, 1)
  ELSE Date(date.year + 1, 1, 1)

\* Hours that are not ascending, unique and of one day are refused.
ScheduledHours(hours) ==
  /\ Len(hours) \in 1 .. 24
  /\ \A i \in DOMAIN hours :
       hours[i] \in 0 .. 23 /\ (i > 1 => hours[i - 1] < hours[i])

\* Slip: before the first hour of a day its last one is taken, of the same day.
CycleSlotToday(hours, date, hour) ==
  LET due == {i \in DOMAIN hours : hours[i] =< hour}
  IN  IF hours = <<>> THEN [date |-> date, hour |-> NoHour]
      ELSE IF ~ScheduledHours(hours) THEN NoSlot
      ELSE [date |-> date, hour |-> IF due = {} THEN Last(hours) ELSE hours[Max(due)]]

CycleSlot(hours, date, hour) ==
  LET due == {i \in DOMAIN hours : hours[i] =< hour}
  IN  IF hours = <<>> THEN [date |-> date, hour |-> NoHour]
      ELSE IF ~ScheduledHours(hours) THEN NoSlot
      ELSE IF due # {} THEN [date |-> date, hour |-> hours[Max(due)]]
      ELSE [date |-> DayBefore(date), hour |-> Last(hours)]

-----------------------------------------------------------------------------
(* The clock.                                                              *)

NextHour(at) ==
  IF at.hour < 23 THEN [at EXCEPT !.hour = @ + 1]
                  ELSE [date |-> DayAfter(at.date), hour |-> 0]

\* The slot passed when the clock shows the hours `shown`, one after another.
PassedBy(shown) ==
  LET slots == {i \in DOMAIN shown : shown[i].hour \in ToSet(dailyHours)}
      days  == {i \in DOMAIN shown : shown[i].hour = 0}
  IN  IF dailyHours = <<>>
      THEN IF days = {} THEN passed ELSE [date |-> shown[Max(days)].date, hour |-> NoHour]
      ELSE IF slots = {} THEN passed ELSE shown[Max(slots)]

Run(shown) ==
  /\ ticks < MaxTicks /\ ticks' = ticks + 1
  /\ localDay' = Last(shown).date /\ localHour' = Last(shown).hour
  /\ passed' = PassedBy(shown)
  /\ UNCHANGED dailyHours

Clock == [date |-> localDay, hour |-> localHour]

Tick == Run(<<NextHour(Clock)>>) /\ UNCHANGED shifted

\* Summer time begins: the clock goes from one hour to the next but one.  Bound:
\* one shift.
SpringForward ==
  /\ ~shifted /\ shifted' = TRUE
  /\ Run(<<NextHour(Clock), NextHour(NextHour(Clock))>>)

\* Summer time ends: the clock shows the hour again.
FallBack ==
  /\ ~shifted /\ shifted' = TRUE
  /\ ticks < MaxTicks /\ ticks' = ticks + 1
  /\ UNCHANGED <<dailyHours, localDay, localHour, passed>>

ScheduleInit ==
  /\ dailyHours \in Configs
  /\ localDay \in FirstDays /\ localHour \in 0 .. 23
  /\ passed = NoSlot /\ ticks = 0 /\ shifted = FALSE

ScheduleNext == Tick \/ SpringForward \/ FallBack

ScheduleSpec == ScheduleInit /\ [][ScheduleNext]_scheduleVars

-----------------------------------------------------------------------------
(* Properties.                                                             *)

\* A list of hours that can be served in its own order.
OfOneDay(hours) ==
  /\ ToSet(hours) \subseteq 0 .. 23
  /\ \A i, j \in DOMAIN hours : i < j => hours[i] < hours[j]

\* The slot due is the last one the clock has passed: an hour that summer time
\* skips is still served, one it repeats is not served twice, and in the early
\* hours the slot is that of the day before, whatever month it was in; and only
\* a list that is not of one day, or in another order than that of the day, is
\* not served (cycleSlot: the runs of ResearchLab are named by the slot, one
\* run each).
SlotFollowsClock ==
  passed # NoSlot =>
    CycleSlot(dailyHours, localDay, localHour) = IF OfOneDay(dailyHours) THEN passed ELSE NoSlot
=============================================================================
