-------------------------- MODULE RecurrenceDates ---------------------------
(***************************************************************************)
(* When a schedule falls due (src/shared/recurrence-dates.ts), as the      *)
(* scheduler, the reminders and the browser's preview all compute it.      *)
(*                                                                         *)
(* A date is the number of its day, day 1 being the first of January of    *)
(* BaseYear; 0 stands for no date.  A rule is a record; its position is    *)
(* an <<ordinal, weekday>>, with ordinal -1 for the last and 0 for none.   *)
(***************************************************************************)
EXTENDS Integers

CONSTANTS BaseYear,
          BaseWeekday   \* of day 1; 0 is Sunday

ASSUME CalendarAssumption == BaseYear \in Nat \ {0} /\ BaseWeekday \in 0 .. 6

Frequencies == {"daily", "weekly", "monthly", "yearly"}
NoDate == 0
NoPosition == <<0, 0>>
Positions == {-1, 1, 2, 3, 4} \X (0 .. 6)

(* What the schema lets a schedule be; no weekend near the first day can   *)
(* move a date before it, as the calendar begins early enough.             *)
RuleFits(rule) ==
  /\ rule.interval \in Nat \ {0} /\ rule.anchor \in Nat \ {0, 1, 2}
  /\ \/ rule.position = NoPosition
     \/ rule.position \in Positions /\ rule.frequency \in {"monthly", "yearly"}

-----------------------------------------------------------------------------
(* The calendar.                                                           *)

LeapYear(year) == (year % 4) = 0 /\ (year % 100 # 0 \/ year % 400 = 0)

DaysInMonth(month) ==
  CASE month % 12 = 1 -> IF LeapYear(BaseYear + month \div 12) THEN 29 ELSE 28
    [] month % 12 \in {3, 5, 8, 10} -> 30
    [] OTHER -> 31

(* Days in the months of a year before each, leap days aside.              *)
DaysBefore == <<0, 31, 59, 90, 120, 151, 181, 212, 243, 273, 304, 334>>

LeapDaysTo(year) == year \div 4 - year \div 100 + year \div 400

FirstOfMonth(month) ==
  LET year == BaseYear + month \div 12
      leapDays == LeapDaysTo(year - 1) - LeapDaysTo(BaseYear - 1)
                    + (IF LeapYear(year) /\ month % 12 > 1 THEN 1 ELSE 0)
  IN  1 + 365 * (month \div 12) + DaysBefore[(month % 12) + 1] + leapDays

MonthOf(day) ==
  CHOOSE month \in (day - 1) \div 31 .. day \div 28 :
    FirstOfMonth(month) <= day /\ day < FirstOfMonth(month + 1)
DayOfMonth(day) == day - FirstOfMonth(MonthOf(day)) + 1
YearOf(day) == MonthOf(day) \div 12
WeekdayOf(day) == (day + BaseWeekday - 1) % 7
Weekend == {0, 6}

-----------------------------------------------------------------------------
(* The sequence of a rule.                                                 *)

(* "The second Tuesday", "the last Friday" of a month.                     *)
WeekdayOfMonth(month, position) ==
  LET last == FirstOfMonth(month + 1) - 1
      first == FirstOfMonth(month)
  IN  IF position[1] = -1 THEN last - ((WeekdayOf(last) - position[2]) % 7)
      ELSE first + ((position[2] - WeekdayOf(first)) % 7) + (position[1] - 1) * 7

(* What a monthly or yearly rule names in one month.                       *)
InMonth(rule, month) ==
  LET day == DayOfMonth(rule.anchor)
      length == DaysInMonth(month)
  IN  IF rule.position # NoPosition
      THEN [date |-> WeekdayOfMonth(month, rule.position), clamped |-> FALSE]
      ELSE [date |-> FirstOfMonth(month) + (IF day > length THEN length ELSE day) - 1,
            clamped |-> day > length]

(* Occurrence n, counted from the anchor and never from the one before it. *)
SequenceDate(rule, n) ==
  CASE rule.frequency = "daily" -> [date |-> rule.anchor + n * rule.interval, clamped |-> FALSE]
    [] rule.frequency = "weekly" ->
         [date |-> rule.anchor + n * rule.interval * 7, clamped |-> FALSE]
    [] rule.frequency = "monthly" -> InMonth(rule, MonthOf(rule.anchor) + n * rule.interval)
    [] OTHER -> InMonth(rule, MonthOf(rule.anchor) + n * rule.interval * 12)

(* The date it carries: moved off a weekend, or none when it is passed by. *)
PostedDateFor(rule, step) ==
  LET weekday == WeekdayOf(step.date) IN
  IF step.clamped /\ rule.monthPolicy = "skip" THEN NoDate
  ELSE IF weekday \notin Weekend \/ rule.weekendPolicy = "allow" THEN step.date
  ELSE CASE rule.weekendPolicy = "skip" -> NoDate
         [] rule.weekendPolicy = "previous_business_day" -> step.date - (IF weekday = 6 THEN 1 ELSE 2)
         [] OTHER -> step.date + (IF weekday = 6 THEN 2 ELSE 1)

Occurrence(rule, step) == [occurrence |-> step.date, posted |-> PostedDateFor(rule, step)]
OccurrenceAt(rule, n) == Occurrence(rule, SequenceDate(rule, n))

Ceil(a, b) == -((-a) \div b)

(* The first index whose date may be after `after', give or take.          *)
Guess(rule, after) ==
  CASE rule.frequency = "daily" -> Ceil(after - rule.anchor + 1, rule.interval)
    [] rule.frequency = "weekly" -> Ceil(after - rule.anchor + 1, rule.interval * 7)
    [] rule.frequency = "monthly" -> Ceil(MonthOf(after) - MonthOf(rule.anchor), rule.interval)
    [] OTHER -> Ceil(YearOf(after) - YearOf(rule.anchor), rule.interval)

(* The first index from start on whose date is after `after'.              *)
SeekFrom(rule, after, start) ==
  CHOOSE n \in start .. start + 3 :
    /\ SequenceDate(rule, n).date > after
    /\ \A earlier \in start .. n - 1 : SequenceDate(rule, earlier).date <= after

BackOff(guess, by) == IF guess < by THEN 0 ELSE guess - by

(* (Mutant: the guess is taken for exact.)                                 *)
FirstIndexGuessed(rule, after) == BackOff(Guess(rule, after), 0)

(* The guess backs off two and steps forward.                              *)
FirstIndexAfter(rule, after) == SeekFrom(rule, after, BackOff(Guess(rule, after), 2))

-----------------------------------------------------------------------------
(* The same schedule said day by day: whether the rule names this date.    *)

EveryInterval(rule, periods) == periods >= 0 /\ periods % rule.interval = 0

NamesInMonth(rule, day) ==
  LET inMonth == DayOfMonth(day)
      left == DaysInMonth(MonthOf(day)) - inMonth
  IN  CASE rule.position[1] = 0 ->
             \/ inMonth = DayOfMonth(rule.anchor)
             \/ left = 0 /\ inMonth < DayOfMonth(rule.anchor)
        [] rule.position[1] = -1 -> WeekdayOf(day) = rule.position[2] /\ left < 7
        [] OTHER -> WeekdayOf(day) = rule.position[2] /\ (inMonth - 1) \div 7 + 1 = rule.position[1]

Names(rule, day) ==
  CASE rule.frequency = "daily" -> EveryInterval(rule, day - rule.anchor)
    [] rule.frequency = "weekly" ->
         (day - rule.anchor) % 7 = 0 /\ EveryInterval(rule, (day - rule.anchor) \div 7)
    [] rule.frequency = "monthly" ->
         NamesInMonth(rule, day) /\ EveryInterval(rule, MonthOf(day) - MonthOf(rule.anchor))
    [] OTHER -> /\ NamesInMonth(rule, day)
                /\ MonthOf(day) % 12 = MonthOf(rule.anchor) % 12
                /\ EveryInterval(rule, YearOf(day) - YearOf(rule.anchor))

(* A policy passes this date of the rule by.                               *)
PassedBy(rule, day) ==
  \/ /\ rule.monthPolicy = "skip" /\ rule.position = NoPosition
     /\ rule.frequency \in {"monthly", "yearly"}
     /\ DayOfMonth(day) # DayOfMonth(rule.anchor)
  \/ rule.weekendPolicy = "skip" /\ WeekdayOf(day) \in Weekend
=============================================================================
