---------------------------- MODULE LegacyEvents ----------------------------
(***************************************************************************)
(* How tools/pg-to-turso turns an event of the legacy database into one of *)
(* the target (schedule_transform.rs).  The legacy program names the event *)
(* of a schedule by the date it falls on and writes the user's changes     *)
(* into the columns of the row; the target names it by the slot of the     *)
(* schedule and keeps the changes beside the generated values.             *)
(*                                                                         *)
(* A source_id is a tuple: <<schedule, date>> as the legacy program writes *)
(* it for schedules, <<schedule, slot>> in the target, <<external>> for    *)
(* other sources.  A label is a tuple of words.                            *)
(***************************************************************************)
EXTENDS Schedules, Sequences

\* An id or a date that is not in canonical form has no such tuple.
parse_legacy_source_id(id) == Len(id) = 2

indexed_slot(frequency, anchor, occurrence, step) ==
    [ok   |-> occurrence >= anchor /\ (occurrence - anchor) % step = 0,
     slot |-> <<frequency, (occurrence - anchor) \div step, 0>>]

\* The slot of the target that the occurrence of a legacy event belongs to.
legacy_projection_slot(frequency, anchor, occurrence) ==
    LET m == month(occurrence)
    IN  CASE frequency = "monthly" ->
                [ok |-> TRUE, slot |-> <<frequency, m, 0>>]
          [] frequency = "semimonthly" ->
                [ok   |-> \/ day(occurrence) = MidDay
                          \/ occurrence = last_of_month(m),
                 slot |-> <<frequency, m,
                            IF day(occurrence) = MidDay THEN 0 ELSE 1>>]
          [] frequency = "weekly" ->
                indexed_slot(frequency, anchor, occurrence, Week)
          [] frequency = "biweekly" ->
                indexed_slot(frequency, anchor, occurrence, 2 * Week)
          [] frequency = "annual" ->
                [ok |-> TRUE, slot |-> <<frequency, year(occurrence), 0>>]
          [] frequency = "one_time" ->
                [ok |-> TRUE, slot |-> <<frequency, 0, 0>>]

FromSchedule(e) == e.source_type = "stream_schedule"
Overridden(changed, value) == IF changed THEN value ELSE None

\* The conditions under which transform_event yields a row.
transformable(e, streams, schedules) ==
    /\ (e.status = "received") <=> (e.actual_date # None)
    /\ FromSchedule(e) =>
          /\ e.source_id # None
          /\ parse_legacy_source_id(e.source_id)
          /\ \E s \in schedules :
                /\ s.id = e.source_id[1]
                /\ s.stream_id = e.stream_id
                /\ \E t \in streams : t.id = e.stream_id
                /\ legacy_projection_slot(s.frequency, s.start_date,
                                          e.source_id[2]).ok

Target(e, account, label, expected, amount, source) ==
    [id |-> e.id, stream_id |-> e.stream_id, account_id |-> account,
     label |-> label, expected_date |-> expected, amount |-> amount,
     override_label |-> None, has_label_override |-> FALSE,
     override_date |-> None, override_amount |-> None,
     override_account_id |-> None, has_account_override |-> FALSE,
     actual_date |-> e.actual_date,
     actual_amount |-> Overridden(e.actual_date # None, e.amount),
     status |-> e.status, is_excluded |-> FALSE,
     source_type |-> e.source_type, source_id |-> source, fault |-> e.fault]

\* The generated values of a legacy event: its occurrence, not the date that
\* the user moved it to, and the values of its schedule.
Generator(e, schedules) == CHOOSE s \in schedules : s.id = e.source_id[1]
SeedLabel(s, t) == IF s.label # None THEN s.label ELSE <<t.name, "due">>
SeedAccount(s, t) ==
    IF s.account_id # None THEN s.account_id ELSE t.default_account_id

\* Mutant: the moved date becomes the generated one, so that nothing is marked.
transform_event_moved(e, streams, schedules) ==
    IF ~FromSchedule(e)
    THEN Target(e, e.account_id, e.label, e.expected_date, e.amount, e.source_id)
    ELSE LET s == Generator(e, schedules)
             t == CHOOSE t \in streams : t.id = e.stream_id
             slot == legacy_projection_slot(s.frequency, s.start_date,
                                            e.source_id[2]).slot
         IN  Target(e, s.account_id, SeedLabel(s, t), e.expected_date,
                    s.amount, <<s.id, slot>>)

transform_event(e, streams, schedules) ==
    IF ~FromSchedule(e)
    THEN Target(e, e.account_id, e.label, e.expected_date, e.amount, e.source_id)
    ELSE LET s == Generator(e, schedules)
             t == CHOOSE t \in streams : t.id = e.stream_id
             occurrence == e.source_id[2]
             slot == legacy_projection_slot(s.frequency, s.start_date,
                                            occurrence).slot
             label_changed == e.label # SeedLabel(s, t)
             account_changed == e.account_id # SeedAccount(s, t)
         IN  [Target(e, s.account_id, SeedLabel(s, t), occurrence, s.amount,
                     <<s.id, slot>>) EXCEPT
                 !.override_label = Overridden(label_changed, e.label),
                 !.has_label_override = label_changed,
                 !.override_date =
                     Overridden(e.expected_date # occurrence, e.expected_date),
                 !.override_amount = Overridden(e.amount # s.amount, e.amount),
                 !.override_account_id =
                     Overridden(account_changed, e.account_id),
                 !.has_account_override = account_changed]
=============================================================================
