---------------------------- MODULE MCAlgorithms ----------------------------
(***************************************************************************)
(* The pure algorithms of the program compared with reference definitions. *)
(* A behaviour examines one of them: a synchronisation cadence, while time *)
(* passes from before the epoch over several days; a recurrence rule in    *)
(* the Gregorian calendar of three years around a leap day, over windows   *)
(* that grow day by day, with the migrated events of the rule; or a        *)
(* forecast, over a list of events that grows.                             *)
(***************************************************************************)
EXTENDS Cadence, LegacyEvents, Forecast, FiniteSetsExt

CONSTANTS
    Past, Ahead, \* bounds: the instants examined, -Past to Ahead
    Doms,        \* the days of the month given to monthly rules
    MaxLength,   \* bound: days in the window of a rule
    LastDate,    \* bound: days of a forecast, 1 to LastDate
    MaxEvents    \* bound: events of a forecast

\* Days of a year before each of its months, without a leap day.
DaysBefore == <<0, 31, 59, 90, 120, 151, 181, 212, 243, 273, 304, 334>>

\* Day 1 is 1 January of the first year; within these bounds every fourth year
\* is a leap year.
Gregorian ==
    [m \in FirstMonth..(LastMonth + 1) |->
        LET y == m \div 12
            f == FirstMonth \div 12
            leaps == (y - 1) \div 4 - (f - 1) \div 4
            leap == IF y % 4 = 0 /\ m % 12 > 1 THEN 1 ELSE 0
        IN  1 + (365 * (y - f)) + leaps + DaysBefore[(m % 12) + 1] + leap]

\* Start dates of rules: ends of months, the leap day, mid-month, new year.
Anchors == {31, 45, 60, 365, 425, 546}
\* First days of windows: around the ends of a February and of two years.
Froms == {40, 59, 359, 365, 366, 386, 425, 731, 780}

\* A row that is projected, one that the user moved and changed, one that was
\* received earlier than expected, and rows that the query leaves out.
Event(stream, direction, expected, amount) ==
    [stream |-> stream, direction |-> direction, active |-> TRUE,
     excluded |-> FALSE, expected_date |-> expected, override_date |-> None,
     actual_date |-> None, amount |-> amount, override_amount |-> None,
     actual_amount |-> None]

EventsToAdd ==
    {Event("rent", "out", d, 1) : d \in 1..LastDate} \cup
    {[Event("pay", "in", LastDate, 2) EXCEPT !.override_date = 1,
                                             !.override_amount = 4],
     [Event("pay", "in", LastDate, 8) EXCEPT !.actual_date = 2,
                                             !.override_date = 3,
                                             !.actual_amount = 16],
     [Event("pay", "in", 2, 32) EXCEPT !.excluded = TRUE]}

\* What is examined lies within the days of Grid below and of the calendar.
ASSUME BoundsAssumption ==
    /\ Past \in 0..(168 * HourLen) /\ Ahead \in 0..(168 * HourLen)
    /\ Doms \subseteq Nat \ {0} /\ MaxLength \in Nat
    /\ Anchors \subseteq Dates /\ Froms \subseteq Dates
    /\ \A from \in Froms : from + MaxLength \in Dates
    /\ LastDate \in Nat /\ MaxEvents \in Nat

\* A source_id in place is told from NULL.
ASSUME SourceIdAssumption == \A d \in Dates : <<1, d>> # None

VARIABLES
    subject,  \* "cadence", "rule" or "forecast"
    input     \* what its algorithm is given

vars == <<subject, input>>

Init ==
    \/ /\ subject = "cadence"
       /\ input \in [cadence : Scheduled, now : {-Past}]
    \/ /\ subject = "rule"
       /\ \E f \in Frequencies, a \in Anchors, from \in Froms :
             \E dom \in IF f = "monthly" THEN Doms ELSE {1} :
                input = [frequency |-> f, anchor |-> a, dom |-> dom,
                         from |-> from, through |-> from]
    \/ /\ subject = "forecast"
       /\ \E anchor, from, through \in 1..LastDate,
             streams \in {{"rent"}, {"rent", "pay"}} :
             /\ from <= through
             /\ input = [store |-> << >>, streams |-> streams,
                         cash |-> [balance |-> 0, date |-> anchor],
                         from |-> from, through |-> through]

Tick ==
    /\ subject = "cadence"
    /\ input.now < Ahead
    /\ input' = [input EXCEPT !.now = @ + 1]

Widen ==
    /\ subject = "rule"
    /\ input.through < input.from + MaxLength - 1
    /\ input' = [input EXCEPT !.through = @ + 1]

AddEvent ==
    /\ subject = "forecast"
    /\ Len(input.store) < MaxEvents
    /\ \E e \in EventsToAdd : input' = [input EXCEPT !.store = Append(@, e)]

Next == (Tick \/ Widen \/ AddEvent) /\ UNCHANGED subject

Spec == Init /\ [][Next]_vars

-----------------------------------------------------------------------------
(* Cadences.                                                               *)

\* The grid of a cadence, written down independently: the multiples of its
\* hours counted from midnight, or from 06:00 for the daily one.
GridHours(c) == CASE c = "hourly"    -> 0..23
                  [] c = "every_6h"  -> {0, 6, 12, 18}
                  [] c = "every_12h" -> {0, 12}
                  [] c = "daily"     -> {6}
Days == -8..8
Grid(c) == {(24 * d + h) * HourLen : d \in Days, h \in GridHours(c)}

\* The slot cron claims (most_recent_slot) is the latest point of the grid
\* that is not in the future, before the epoch too, where div_euclid and /
\* differ; the next slot shown to the user (next_slot) is the first point after
\* now, also when now is itself a slot.
SlotsAreOnGrid ==
    subject = "cadence" =>
        LET grid == Grid(input.cadence)
        IN  /\ most_recent_slot(input.cadence, input.now) =
                  Max({t \in grid : t <= input.now})
            /\ next_slot(input.cadence, input.now) =
                  Min({t \in grid : t > input.now})

-----------------------------------------------------------------------------
(* Recurrence rules.                                                       *)

Occurrences == schedule_occurrences(input.frequency, input.anchor, input.from,
                                    input.through, input.dom)

\* The enumeration of months, steps and years by schedule_occurrences yields
\* exactly the days that the rule falls on: at month ends, in leap years, for
\* a window that starts in the middle of a period, and for a start date
\* before, in or after it.  No two of them share a source slot, so that the
\* upsert on (stream_id, source_type, source_id) does not merge them.
OccurrencesAreDue ==
    subject = "rule" =>
        /\ Occurrences = {d \in input.from..input.through :
                             Due(input.frequency, input.anchor, d, input.dom)}
        /\ \A d, e \in Occurrences :
              projection_slot(input.frequency, input.anchor, d)
                  = projection_slot(input.frequency, input.anchor, e) => d = e

\* The legacy row of an occurrence d, as generated or as the user changed it.
LegacyStream == [id |-> 1, name |-> "rent", default_account_id |-> 1]
LegacySchedule ==
    [id |-> 1, stream_id |-> 1, account_id |-> None, label |-> None,
     amount |-> -10, frequency |-> input.frequency, start_date |-> input.anchor]
LegacyEvent(d) ==
    [id |-> 1, stream_id |-> 1, account_id |-> 1, label |-> <<"rent", "due">>,
     expected_date |-> d, actual_date |-> None, amount |-> -10,
     status |-> "projected", source_type |-> "stream_schedule",
     source_id |-> <<1, d>>, fault |-> None]
LegacyVersions(d) ==
    LET e == LegacyEvent(d)
    IN  {e, [e EXCEPT !.expected_date = d + 1], [e EXCEPT !.amount = -12],
         [e EXCEPT !.label = None], [e EXCEPT !.account_id = None],
         [e EXCEPT !.status = "received", !.actual_date = d + 2]}

\* What a reader of a target row sees.
Shown(flag, over, generated) == IF flag THEN over ELSE generated

\* transform_event of the exporter and projection_slot of the program were
\* written apart and must agree: the next refresh of the stream finds the row of
\* every migrated occurrence under the slot and with the generated values that it
\* computes itself, so that it neither doubles nor changes it, and the date,
\* amount, label and account that the user saw are those shown afterwards.
LegacyEventsSurvive ==
    subject = "rule" =>
        \A d \in Occurrences : \A e \in LegacyVersions(d) :
            LET row == transform_event(e, {LegacyStream}, {LegacySchedule})
            IN  /\ transformable(e, {LegacyStream}, {LegacySchedule})
                /\ row.source_id =
                      <<1, projection_slot(input.frequency, input.anchor, d)>>
                /\ row.expected_date = d /\ row.amount = LegacySchedule.amount
                /\ e.expected_date = Shown(row.override_date # None,
                                           row.override_date, row.expected_date)
                /\ e.amount = Shown(row.override_amount # None,
                                    row.override_amount, row.amount)
                /\ e.label = Shown(row.has_label_override,
                                   row.override_label, row.label)
                /\ e.account_id = Shown(row.has_account_override,
                                        row.override_account_id,
                                        LegacyStream.default_account_id)
                /\ row.status = e.status /\ row.actual_date = e.actual_date

-----------------------------------------------------------------------------
(* Forecasts.                                                              *)

ForecastOf(cash, from, through) ==
    compute_forecast(input.store, input.streams, cash, from, through)

\* A forecast of compute_forecast adds up: the first row continues the opening
\* balance, every other row the one above it, and the ending balance is that of
\* the last row, on both sides of the anchor and across it, with several events
\* on one day and for a window that does not contain the anchor.
RowsAddUp(f) ==
    LET line == <<f.opening>> \o [n \in DOMAIN f.rows |-> f.rows[n].balance]
    IN  /\ \A n \in DOMAIN f.rows : line[n + 1] = line[n] + f.rows[n].amount
        /\ f.ending = line[Len(line)]

\* Every forecast adds up, and paging through one changes nothing: a window and
\* the one after it show the rows and balances of one window over both, and the
\* second one opens where the first one ends.
WindowsConnect ==
    subject = "forecast" =>
        LET first == ForecastOf(input.cash, input.from, input.through)
        IN  /\ RowsAddUp(first)
            /\ \A last \in (input.through + 1)..LastDate :
                  LET whole == ForecastOf(input.cash, input.from, last)
                      second == ForecastOf(input.cash, input.through + 1, last)
                  IN  /\ whole.rows = first.rows \o second.rows
                      /\ first.ending = second.opening

\* The forecast does not depend on where its anchor is: when the balance that it
\* shows for the end of another day becomes the balance on record, every figure
\* stays the same.
AnchorMoves ==
    subject = "forecast" =>
        \A d \in 1..LastDate :
            LET cash == [balance |-> ForecastOf(input.cash, d, d).ending,
                         date |-> d]
            IN  ForecastOf(cash, input.from, input.through)
                    = ForecastOf(input.cash, input.from, input.through)
=============================================================================
