----------------------------- MODULE Schedules -----------------------------
(***************************************************************************)
(* Which days a recurrence rule falls on, and which source slot each of    *)
(* them has: src/finance/date.rs, schedule_occurrences, step_occurrences   *)
(* and projection_slot of src/finance/repository.rs.                       *)
(*                                                                         *)
(* A date is a day number.  Months are numbered consecutively, Year of     *)
(* them to a year, and FirstDay gives the first day of each; the calendar  *)
(* of the `time` crate is one such function.  The numbers that the code    *)
(* writes out (12, 15, 7) are constants, so that a small calendar can be   *)
(* used where events are kept (StreamProjection).                          *)
(***************************************************************************)
EXTENDS Integers, Optional

CONSTANTS
    FirstMonth, LastMonth,  \* bounds: the months examined
    FirstDay,  \* first day of each of them and of the month that follows
    Year,      \* months in a year (12)
    MidDay,    \* the first of the two semimonthly days (15)
    Week       \* days in a week (7)

MonthNumbers == FirstMonth..LastMonth
Dates == FirstDay[FirstMonth]..(FirstDay[LastMonth + 1] - 1)

\* Whole years of months that follow one another without gaps, each of them
\* longer than MidDay.
ASSUME CalendarAssumption ==
    /\ FirstMonth \in Int /\ LastMonth \in Int /\ FirstMonth <= LastMonth
    /\ FirstDay \in [FirstMonth..(LastMonth + 1) -> Int]
    /\ Year \in Nat \ {0} /\ Week \in Nat \ {0} /\ MidDay \in Nat \ {0}
    /\ \A m \in MonthNumbers : FirstDay[m + 1] > FirstDay[m] + MidDay
    /\ \A m, n \in FirstMonth..(LastMonth + 1) :
            m < n => FirstDay[m + 1] <= FirstDay[n]
    /\ \A d \in Dates : \E m \in MonthNumbers :
            FirstDay[m] <= d /\ d < FirstDay[m + 1]
    /\ FirstMonth % Year = 0 /\ (LastMonth + 1) % Year = 0
    /\ None \notin Int

Frequencies == {"monthly", "semimonthly", "weekly", "biweekly", "annual",
                "one_time"}

-----------------------------------------------------------------------------
(* IsoDate.                                                                *)

month(d) == CHOOSE m \in MonthNumbers : FirstDay[m] <= d /\ d < FirstDay[m + 1]
year(d) == month(d) \div Year
day(d) == d - FirstDay[month(d)] + 1
last_of_month(m) == FirstDay[m + 1] - 1
with_day_clamped(m, n) ==
    IF FirstDay[m] + n - 1 <= last_of_month(m) THEN FirstDay[m] + n - 1
                                               ELSE last_of_month(m)
in_year_clamped(d, y) == with_day_clamped(y * Year + (month(d) % Year), day(d))

-----------------------------------------------------------------------------
(* The occurrences of a rule between two dates.  The code builds a list in *)
(* increasing order; what is done with it does not depend on the order.    *)

Within(ds, anchor, from, through) ==
    {d \in ds : anchor <= d /\ from <= d /\ d <= through}

\* Mutant: the distance is rounded down.
FirstStep_mutant(anchor, from, step) ==
    IF anchor < from THEN anchor + ((from - anchor) \div step) * step
                     ELSE anchor

\* The first date of the rule that is not before from.
FirstStep(anchor, from, step) ==
    IF anchor < from
    THEN anchor + ((from - anchor + step - 1) \div step) * step
    ELSE anchor

step_occurrences(anchor, from, through, step) ==
    LET cursor == FirstStep(anchor, from, step)
    IN  {d \in cursor..through : (d - cursor) % step = 0}

\* dom is day_of_month, which only monthly rules use; the anchor is the start
\* date of the schedule.
schedule_occurrences(frequency, anchor, from, through, dom) ==
    CASE frequency = "monthly" ->
            Within({with_day_clamped(m, dom) : m \in month(from)..month(through)},
                   anchor, from, through)
      [] frequency = "semimonthly" ->
            Within(UNION {{with_day_clamped(m, MidDay), last_of_month(m)} :
                             m \in month(from)..month(through)},
                   anchor, from, through)
      [] frequency = "weekly" -> step_occurrences(anchor, from, through, Week)
      [] frequency = "biweekly" ->
            step_occurrences(anchor, from, through, 2 * Week)
      [] frequency = "annual" ->
            Within({in_year_clamped(anchor, y) : y \in year(from)..year(through)},
                   anchor, from, through)
      [] frequency = "one_time" -> Within({anchor}, anchor, from, through)

\* Mutant: an event is named by its date where the rule is tied to the calendar.
projection_slot_by_date(frequency, anchor, d) ==
    CASE frequency \in {"monthly", "semimonthly", "annual"} -> <<frequency, d, 0>>
      [] frequency = "weekly"   -> <<frequency, (d - anchor) \div Week, 0>>
      [] frequency = "biweekly" -> <<frequency, (d - anchor) \div (2 * Week), 0>>
      [] frequency = "one_time" -> <<frequency, 0, 0>>

\* The period of the rule that d belongs to, which names the event of d.
projection_slot(frequency, anchor, d) ==
    CASE frequency = "monthly" -> <<frequency, month(d), 0>>
      [] frequency = "semimonthly" ->
            <<frequency, month(d), IF day(d) = MidDay THEN 0 ELSE 1>>
      [] frequency = "weekly"   -> <<frequency, (d - anchor) \div Week, 0>>
      [] frequency = "biweekly" -> <<frequency, (d - anchor) \div (2 * Week), 0>>
      [] frequency = "annual"   -> <<frequency, year(d), 0>>
      [] frequency = "one_time" -> <<frequency, 0, 0>>

-----------------------------------------------------------------------------
(* The rules day by day, without any enumeration of periods.               *)

\* d is the day dom of its month, or the last one if the month is shorter.
IsDay(d, dom) ==
    \/ day(d) = dom
    \/ day(d) < dom /\ d = last_of_month(month(d))

\* The rule falls on day d.
Due(frequency, anchor, d, dom) ==
    /\ d >= anchor
    /\ CASE frequency = "monthly"     -> IsDay(d, dom)
         [] frequency = "semimonthly" -> day(d) = MidDay
                                          \/ d = last_of_month(month(d))
         [] frequency = "weekly"      -> (d - anchor) % Week = 0
         [] frequency = "biweekly"    -> (d - anchor) % (2 * Week) = 0
         [] frequency = "annual"      -> /\ (month(d) - month(anchor)) % Year = 0
                                         /\ IsDay(d, day(anchor))
         [] frequency = "one_time"    -> d = anchor
=============================================================================
