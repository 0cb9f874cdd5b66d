---------------------------- MODULE SlaCalendar -----------------------------
(***************************************************************************)
(* How the due time of an SLA clock is found (addBusinessMinutes of        *)
(* modules/sla.ts): a walk from the moment the ticket came in, over the    *)
(* business hours of its calendar, until the target is used up.  Time is   *)
(* counted in ticks, of which a minute has several: a ticket comes in at   *)
(* any second, and the walk counts whole minutes.  Day 0 is a Sunday.      *)
(***************************************************************************)
EXTENDS Integers, FiniteSets, FiniteSetsExt

CONSTANTS TicksPerMinute,
          DayMinutes, Opens, Closes,  \* the length of a day and its business hours, in minutes
          LastStart,                  \* bound on the moment a ticket comes in
          MaxTarget,                  \* bound on the minutes promised
          PublicHolidays              \* days a calendar may exclude

ASSUME CalendarAssumption ==
  /\ {TicksPerMinute, DayMinutes} \subseteq Nat \ {0}
  /\ {Opens, Closes} \subseteq Nat /\ Opens < Closes /\ Closes < DayMinutes
  /\ {LastStart, MaxTarget} \subseteq Nat
  /\ PublicHolidays \subseteq Nat /\ IsFiniteSet(PublicHolidays)

VARIABLES coverage,   \* "8x5" or "24x7"
          holidays,   \* days without business hours
          start,      \* when the ticket came in
          minutes,    \* what is promised
          cursor,     \* how far the walk has come
          remaining   \* minutes of the promise it has not used

calendarVars == <<coverage, holidays, start, minutes, cursor, remaining>>

CalendarInit ==
  /\ coverage \in {"8x5", "24x7"} /\ holidays \in SUBSET PublicHolidays
  /\ start \in 0 .. LastStart /\ minutes \in 0 .. MaxTarget
  /\ cursor = start /\ remaining = minutes

-----------------------------------------------------------------------------
DayTicks == DayMinutes * TicksPerMinute
Day(x) == x \div DayTicks
Opening(day) == day * DayTicks + Opens * TicksPerMinute
Closing(day) == day * DayTicks + Closes * TicksPerMinute

IsFree(day) == day % 7 \in {0, 6} \/ day \in holidays

NextOpening == cursor' = Opening(Day(cursor) + 1)

(* A calendar that is always open needs no walk.                           *)
AddMinutes ==
  /\ coverage = "24x7" /\ remaining > 0
  /\ cursor' = cursor + remaining * TicksPerMinute
  /\ remaining' = 0
  /\ UNCHANGED <<coverage, holidays, start, minutes>>

(* Weekends and holidays, and the hours before opening and after closing,  *)
(* are passed over.                                                        *)
PassOver ==
  /\ coverage = "8x5" /\ remaining > 0
  /\ IF IsFree(Day(cursor)) \/ cursor >= Closing(Day(cursor))
       THEN NextOpening
       ELSE cursor < Opening(Day(cursor)) /\ cursor' = Opening(Day(cursor))
  /\ UNCHANGED <<coverage, holidays, start, minutes, remaining>>

(* Mutant of AvailableToday: rounds the minute that has begun up. *)
AvailableTodayRoundedUp ==
  Min({Closes - Opens,
       (Closing(Day(cursor)) - cursor + TicksPerMinute - 1) \div TicksPerMinute})

(* The whole minutes that are left of the day.                             *)
AvailableToday ==
  Min({Closes - Opens, (Closing(Day(cursor)) - cursor) \div TicksPerMinute})

(* What the day has is used; if more is promised, the walk goes on to the  *)
(* next day.                                                               *)
UseDay ==
  LET take == Min({remaining, AvailableToday}) IN
  /\ coverage = "8x5" /\ remaining > 0 /\ ~IsFree(Day(cursor))
  /\ Opening(Day(cursor)) <= cursor /\ cursor < Closing(Day(cursor))
  /\ remaining' = remaining - take
  /\ IF remaining' > 0 THEN NextOpening ELSE cursor' = cursor + take * TicksPerMinute
  /\ UNCHANGED <<coverage, holidays, start, minutes>>

CalendarNext == AddMinutes \/ PassOver \/ UseDay

CalendarFairness == WF_calendarVars(CalendarNext)

CalendarSpec == CalendarInit /\ [][CalendarNext]_calendarVars /\ CalendarFairness

-----------------------------------------------------------------------------
(* The ticks of business time from one moment to another, counted.         *)
IsBusiness(x) ==
  \/ coverage = "24x7"
  \/ ~IsFree(Day(x)) /\ Opening(Day(x)) <= x /\ x < Closing(Day(x))

BusinessTicks(from, to) == Cardinality({x \in from .. to - 1 : IsBusiness(x)})

(* The due time is found, whenever the ticket comes in and whatever days   *)
(* are free: it lies at a moment of business time, and the business time   *)
(* before it is what was promised, or longer by less than a minute, and    *)
(* never shorter (addBusinessMinutes).                                     *)
Due ==
  /\ remaining = 0
  /\ minutes > 0 => IsBusiness(cursor - 1)
  /\ BusinessTicks(start, cursor) - minutes * TicksPerMinute \in 0 .. TicksPerMinute - 1

DueTimeIsFound == <>[]Due
=============================================================================
