------------------------------ MODULE Forecast ------------------------------
(***************************************************************************)
(* The cash forecast of src/finance/repository.rs: the balance of the      *)
(* primary account is known on one day, its anchor, and the events of the  *)
(* streams are added to it after that day and taken from it before.        *)
(*                                                                         *)
(* Dates are day numbers and amounts are whole cents.  A stored event is a *)
(* row of stream_event together with the columns of its stream that the    *)
(* query joins; the rows are numbered by their id.                         *)
(***************************************************************************)
EXTENDS Integers, Sequences, Ordered, Optional

-----------------------------------------------------------------------------
(* forecast_events.                                                        *)

Coalesce(actual, override, seed) ==
    IF actual # None THEN actual ELSE IF override # None THEN override ELSE seed

effective_date(e) == Coalesce(e.actual_date, e.override_date, e.expected_date)
effective_amount(e) == Coalesce(e.actual_amount, e.override_amount, e.amount)

abs(n) == IF n < 0 THEN -n ELSE n
signed(direction, magnitude) ==
    IF direction = "in" THEN abs(magnitude) ELSE -abs(magnitude)

\* ORDER BY effective_date, id.
Before(store, i, j) ==
    \/ effective_date(store[i]) < effective_date(store[j])
    \/ effective_date(store[i]) = effective_date(store[j]) /\ i < j

\* Mutant: the days are compared with the date first expected.
InRange_mutant(e, from, through) == e.expected_date \in from..through

InRange(e, from, through) == effective_date(e) \in from..through

\* The rows between two days of the streams that were asked for: one of them,
\* those of a view, or all.
forecast_events(store, streams, from, through) ==
    LET ids == {i \in DOMAIN store :
                    /\ store[i].active /\ ~store[i].excluded
                    /\ store[i].stream \in streams
                    /\ InRange(store[i], from, through)}
        order == InOrder(ids, LAMBDA i, j : Before(store, i, j))
    IN  [n \in DOMAIN order |->
            [id |-> order[n], date |-> effective_date(store[order[n]]),
             amount |-> signed(store[order[n]].direction,
                               effective_amount(store[order[n]]))]]

-----------------------------------------------------------------------------
(* Balances.                                                               *)

\* A running sum: from the start on, each amount is added in turn.
Running(start, amounts) ==
    LET sum[n \in 0..Len(amounts)] ==
            IF n = 0 THEN start ELSE sum[n - 1] + amounts[n]
    IN  sum

Total(events, first, last) ==
    LET within == [n \in 1..Len(events) |->
                      IF first <= events[n].date /\ events[n].date <= last
                      THEN events[n].amount ELSE 0]
    IN  Running(0, within)[Len(events)]

\* The balance at the end of the target day.
balance_at(start, anchor, target, events) ==
    IF target >= anchor THEN start + Total(events, anchor + 1, target)
                        ELSE start - Total(events, target + 1, anchor)

\* The balance at the beginning of the first day of the window.
balance_before(start, anchor, window_start, events) ==
    IF window_start > anchor
    THEN start + Total(events, anchor + 1, window_start - 1)
    ELSE start - Total(events, window_start, anchor)

\* The balance after each event: forwards from the anchor for the events after
\* it, backwards for the others, so that the last of those has the anchor's.
Balances(start, anchor, events) ==
    LET size == Len(events)
        future == [n \in 1..size |->
                      IF events[n].date > anchor THEN events[n].amount ELSE 0]
        past == [n \in 1..size |->
                    LET e == events[size + 1 - n]
                    IN  IF e.date <= anchor THEN -e.amount ELSE 0]
        future_balance == Running(start, future)
        past_balance == Running(start, past)
    IN  [n \in 1..size |-> IF events[n].date > anchor
                           THEN future_balance[n] ELSE past_balance[size - n]]

-----------------------------------------------------------------------------
(* compute_forecast.                                                       *)

\* Mutant: only the events of the window are loaded.
Envelope_mutant(anchor, from, through) == <<from, through>>

\* The window extended to the anchor.
Envelope(anchor, from, through) ==
    <<IF anchor < from THEN anchor ELSE from,
      IF anchor > through THEN anchor ELSE through>>

\* cash is the primary account's balance and its date.
compute_forecast(store, streams, cash, from, through) ==
    LET envelope == Envelope(cash.date, from, through)
        events == forecast_events(store, streams, envelope[1], envelope[2])
        balances == Balances(cash.balance, cash.date, events)
        row == [n \in 1..Len(events) |->
                   [id |-> events[n].id, date |-> events[n].date,
                    amount |-> events[n].amount, balance |-> balances[n]]]
        shown == Ascending({n \in 1..Len(events) : /\ from <= events[n].date
                                                   /\ events[n].date <= through})
    IN  [opening |-> balance_before(cash.balance, cash.date, from, events),
         rows |-> [n \in DOMAIN shown |-> row[shown[n]]],
         ending |-> balance_at(cash.balance, cash.date, through, events)]
=============================================================================
