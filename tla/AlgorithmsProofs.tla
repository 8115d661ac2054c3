-------------------------- MODULE AlgorithmsProofs --------------------------
(***************************************************************************)
(* What the run of MCAlgorithms compares, for every length of the hour,    *)
(* every calendar and all bounds: the slots of the cadences with their     *)
(* grids, the occurrences of a rule with the days that it falls on, the    *)
(* migrated events with those that the program projects, and a forecast    *)
(* with those of other windows and of another anchor.                      *)
(*                                                                         *)
(* The forecasts rest on one closed form, ForecastIs: with all the events  *)
(* listed in order and A[k] the sum of the first k amounts, the balance    *)
(* after the first k events is the one on record, plus A[k], less A at the *)
(* day on record, wherever the window and that day lie.                    *)
(***************************************************************************)
EXTENDS MCAlgorithms, CalendarProofs, FiniteSetTheorems, WellFoundedInduction,
        SequenceTheorems

-----------------------------------------------------------------------------
(* What is examined.                                                       *)

CadenceInput == [cadence : Scheduled, now : Int]
RuleInput == [frequency : Frequencies, anchor : Dates, dom : Nat \ {0},
              from : Dates, through : Dates]

\* What a behaviour examines stays within the bounds.
Examined ==
    /\ subject = "cadence" => input \in CadenceInput /\ input.now \in (-Past)..Ahead
    /\ subject = "rule" =>
          /\ input \in RuleInput /\ input.from \in Froms
          /\ input.through \in input.from..(input.from + MaxLength)

\* The bounds of MCAlgorithms hold in every reachable state.
LEMMA AlwaysExamined == Spec => []Examined
  <1>1. \A from \in Froms : /\ from \in Dates /\ from \in Int
                            /\ from..(from + MaxLength) \subseteq Dates
    <2> SUFFICES ASSUME NEW from \in Froms
                 PROVE  /\ from \in Dates /\ from \in Int
                        /\ from..(from + MaxLength) \subseteq Dates
      OBVIOUS
    <2>1. from \in Dates /\ from + MaxLength \in Dates
      BY BoundsAssumption
    <2> QED BY <2>1, WindowDates
  <1>2. Init => Examined
    <2> SUFFICES ASSUME Init PROVE Examined
      OBVIOUS
    <2>1. CASE subject = "cadence"
      <3>1. input \in [cadence : Scheduled, now : {-Past}]
        BY <2>1 DEF Init
      <3>2. -Past \in Int /\ -Past \in (-Past)..Ahead
        BY BoundsAssumption, HourAssumption
      <3> QED BY <2>1, <3>1, <3>2 DEF Examined, CadenceInput
    <2>2. CASE subject = "rule"
      <3>1. PICK f \in Frequencies, a \in Anchors, from \in Froms :
               \E dom \in IF f = "monthly" THEN Doms ELSE {1} :
                  input = [frequency |-> f, anchor |-> a, dom |-> dom,
                           from |-> from, through |-> from]
        BY <2>2 DEF Init
      <3>2. PICK dom \in Nat \ {0} :
               input = [frequency |-> f, anchor |-> a, dom |-> dom,
                        from |-> from, through |-> from]
        BY <3>1, BoundsAssumption
      <3>3. from \in Dates /\ from \in Int /\ from \in from..(from + MaxLength)
        BY <1>1, BoundsAssumption
      <3>4. a \in Dates
        BY BoundsAssumption
      <3> QED BY <2>2, <3>2, <3>3, <3>4 DEF Examined, RuleInput
    <2>3. CASE subject \notin {"cadence", "rule"}
      BY <2>3 DEF Examined
    <2> QED BY <2>1, <2>2, <2>3
  <1>3. Examined /\ [Next]_vars => Examined'
    <2> SUFFICES ASSUME Examined, [Next]_vars PROVE Examined'
      OBVIOUS
    <2>1. CASE Tick /\ UNCHANGED subject
      <3>1. input.now + 1 \in Int /\ input.now + 1 \in (-Past)..Ahead
        BY <2>1, BoundsAssumption, HourAssumption DEF Examined, CadenceInput, Tick
      <3> QED BY <2>1, <3>1 DEF Examined, CadenceInput, Tick
    <2>2. CASE Widen /\ UNCHANGED subject
      <3>1. /\ input.from \in Int /\ input.from..(input.from + MaxLength) \subseteq Dates
            /\ input.through + 1 \in input.from..(input.from + MaxLength)
        BY <1>1, <2>2, BoundsAssumption DEF Examined, RuleInput, Widen
      <3> QED BY <2>2, <3>1 DEF Examined, RuleInput, Widen
    <2>3. CASE AddEvent /\ UNCHANGED subject
      BY <2>3 DEF Examined, AddEvent
    <2>4. CASE UNCHANGED vars
      BY <2>4 DEF Examined, vars
    <2> QED BY <2>1, <2>2, <2>3, <2>4 DEF Next
  <1> QED BY <1>2, <1>3, PTL DEF Spec

-----------------------------------------------------------------------------
(* What the export makes of an event.                                      *)

\* On the days that a rule falls on, the exporter computes the slot that the
\* program computes.
LEMMA LegacySlot ==
    ASSUME NEW f \in Frequencies, NEW a, NEW d, NEW n, Due(f, a, d, n)
    PROVE  LET slot == legacy_projection_slot(f, a, d)
           IN  slot.ok /\ slot.slot = projection_slot(f, a, d)
  <1>1. CASE f = "weekly" \/ f = "biweekly"
    BY <1>1 DEF Due, legacy_projection_slot, projection_slot, indexed_slot
  <1>2. CASE f = "semimonthly"
    BY <1>2 DEF Due, legacy_projection_slot, projection_slot
  <1>3. CASE f = "monthly" \/ f = "annual" \/ f = "one_time"
    BY <1>3 DEF legacy_projection_slot, projection_slot
  <1> QED BY <1>1, <1>2, <1>3 DEF Frequencies

\* The columns of the row of an event that a schedule generated.
LEMMA TransformedColumns ==
    ASSUME NEW streams, NEW schedules, NEW e, FromSchedule(e),
           NEW s, s = Generator(e, schedules),
           NEW t, t = CHOOSE x \in streams : x.id = e.stream_id
    PROVE  LET row == transform_event(e, streams, schedules)
           IN  /\ row.stream_id = e.stream_id /\ row.status = e.status
               /\ row.actual_date = e.actual_date
               /\ row.actual_amount = Overridden(e.actual_date # None, e.amount)
               /\ row.source_type = e.source_type
               /\ row.source_id = <<s.id, legacy_projection_slot(s.frequency,
                                             s.start_date, e.source_id[2]).slot>>
               /\ row.expected_date = e.source_id[2] /\ row.amount = s.amount
               /\ row.label = SeedLabel(s, t) /\ row.account_id = s.account_id
               /\ row.has_label_override <=> e.label # SeedLabel(s, t)
               /\ row.override_label = Overridden(e.label # SeedLabel(s, t), e.label)
               /\ row.override_date = Overridden(e.expected_date # e.source_id[2],
                                                 e.expected_date)
               /\ row.override_amount = Overridden(e.amount # s.amount, e.amount)
               /\ row.has_account_override <=> e.account_id # SeedAccount(s, t)
               /\ row.override_account_id = Overridden(e.account_id # SeedAccount(s, t),
                                                       e.account_id)
  BY DEF transform_event, Target

\* The row that an event e of the occurrence d of a schedule s of a stream t has in
\* the target: it has the slot and the generated values that the program computes,
\* and it shows what the legacy program showed.
Migrated(e, s, t, d, row) ==
    /\ row.source_id = <<s.id, projection_slot(s.frequency, s.start_date, d)>>
    /\ row.expected_date = d /\ row.amount = s.amount
    /\ e.expected_date = (IF row.override_date # None THEN row.override_date
                                                      ELSE row.expected_date)
    /\ e.amount = (IF row.override_amount # None THEN row.override_amount
                                                 ELSE row.amount)
    /\ row.actual_date = e.actual_date /\ row.status = e.status
    /\ e.actual_date # None => row.actual_amount = e.amount
    /\ e.label = (IF row.has_label_override THEN row.override_label
                                            ELSE row.label)
    /\ e.account_id = (IF row.has_account_override THEN row.override_account_id
                       ELSE IF row.account_id # None THEN row.account_id
                       ELSE t.default_account_id)

\* transform_event and projection_slot, which were written apart, agree: an event
\* of a rule with one schedule and one stream of its ids gets the slot and the
\* generated values that the next refresh of the stream computes, so that it is
\* found and neither doubled nor changed, and the date, amount, label, account
\* and outcome that the user saw are those shown afterwards, for every calendar,
\* every rule and every change the user had made.
THEOREM MigratedEventsSurvive ==
    ASSUME NEW streams, NEW schedules, NEW s \in schedules, NEW t \in streams, NEW e,
           \A x \in schedules : x.id = s.id => x = s,
           \A x \in streams : x.id = t.id => x = t,
           s.frequency \in Frequencies, NEW n, NEW d \in Dates,
           Due(s.frequency, s.start_date, d, n),
           s.stream_id = t.id, e.stream_id = t.id,
           FromSchedule(e), e.source_id = <<s.id, d>>, e.source_id # None,
           e.expected_date \in Int, e.amount \in Int,
           (e.status = "received") <=> (e.actual_date # None)
    PROVE  /\ transformable(e, streams, schedules)
           /\ Migrated(e, s, t, d, transform_event(e, streams, schedules))
  <1> DEFINE row == transform_event(e, streams, schedules)
             slot == legacy_projection_slot(s.frequency, s.start_date, d)
  <1>1. e.source_id[1] = s.id /\ e.source_id[2] = d /\ Len(e.source_id) = 2
    OBVIOUS
  <1>2. Generator(e, schedules) = s
    BY <1>1 DEF Generator
  <1>3. (CHOOSE x \in streams : x.id = e.stream_id) = t
    OBVIOUS
  <1>4. slot.ok /\ slot.slot = projection_slot(s.frequency, s.start_date, d)
    BY LegacySlot
  <1>5. transformable(e, streams, schedules)
    <2>1. \E x \in schedules :
             /\ x.id = e.source_id[1] /\ x.stream_id = e.stream_id
             /\ \E y \in streams : y.id = e.stream_id
             /\ legacy_projection_slot(x.frequency, x.start_date, e.source_id[2]).ok
      BY <1>1, <1>4
    <2> QED BY <1>1, <2>1 DEF transformable, parse_legacy_source_id
  <1>6. /\ row.status = e.status /\ row.actual_date = e.actual_date
        /\ row.actual_amount = Overridden(e.actual_date # None, e.amount)
        /\ row.source_id = <<s.id, slot.slot>>
        /\ row.expected_date = d /\ row.amount = s.amount
        /\ row.label = SeedLabel(s, t) /\ row.account_id = s.account_id
        /\ row.has_label_override <=> e.label # SeedLabel(s, t)
        /\ row.override_label = Overridden(e.label # SeedLabel(s, t), e.label)
        /\ row.override_date = Overridden(e.expected_date # d, e.expected_date)
        /\ row.override_amount = Overridden(e.amount # s.amount, e.amount)
        /\ row.has_account_override <=> e.account_id # SeedAccount(s, t)
        /\ row.override_account_id = Overridden(e.account_id # SeedAccount(s, t),
                                                e.account_id)
    BY <1>1, <1>2, <1>3, TransformedColumns
  <1> HIDE DEF row, slot
  <1>7. None \notin Int
    BY CalendarAssumption
  <1>8. /\ e.expected_date = (IF row.override_date # None THEN row.override_date
                                                          ELSE row.expected_date)
        /\ e.amount = (IF row.override_amount # None THEN row.override_amount
                                                     ELSE row.amount)
        /\ e.actual_date # None => row.actual_amount = e.amount
    BY <1>6, <1>7 DEF Overridden
  <1>9. e.label = (IF row.has_label_override THEN row.override_label ELSE row.label)
    BY <1>6 DEF Overridden
  <1>10. e.account_id = (IF row.has_account_override THEN row.override_account_id
                         ELSE IF row.account_id # None THEN row.account_id
                         ELSE t.default_account_id)
    BY <1>6 DEF Overridden, SeedAccount
  <1>11. Migrated(e, s, t, d, row)
    BY <1>4, <1>6, <1>8, <1>9, <1>10 DEF Migrated
  <1> QED BY <1>5, <1>11 DEF row

-----------------------------------------------------------------------------
(* The occurrences of a rule, and their events.                            *)

\* In every window examined, the enumeration of a rule's occurrences finds the
\* days that the rule falls on, and no two of them share a source slot.
THEOREM OccurrencesAreAlwaysDue == Spec => []OccurrencesAreDue
  <1>1. Examined => OccurrencesAreDue
    <2> SUFFICES ASSUME Examined, subject = "rule" PROVE OccurrencesAreDue
      BY DEF OccurrencesAreDue
    <2>1. /\ input.frequency \in Frequencies /\ input.anchor \in Dates
          /\ input.dom \in Nat \ {0}
          /\ input.from \in Dates /\ input.through \in Dates
      BY DEF Examined, RuleInput
    <2>2. Occurrences = {d \in input.from..input.through :
                            Due(input.frequency, input.anchor, d, input.dom)}
      BY <2>1, OccurrencesExact DEF Occurrences
    <2>3. Occurrences \subseteq Dates
      BY <2>1, <2>2, WindowDates
    <2>4. \A d, e \in Occurrences :
             projection_slot(input.frequency, input.anchor, d)
                 = projection_slot(input.frequency, input.anchor, e) => d = e
      BY <2>1, <2>2, <2>3, SlotsInjective
    <2> QED BY <2>2, <2>4 DEF OccurrencesAreDue
  <1> QED BY <1>1, AlwaysExamined, PTL

\* Every version of the legacy event of an occurrence that is examined arrives
\* under the slot and with the generated values of the program's own projection,
\* and the date, amount, label, account and outcome that the user saw are those
\* that are shown afterwards.
THEOREM LegacyEventsAlwaysSurvive == Spec => []LegacyEventsSurvive
  <1>1. Examined /\ OccurrencesAreDue => LegacyEventsSurvive
    <2> SUFFICES ASSUME Examined, OccurrencesAreDue, subject = "rule",
                        NEW d \in Occurrences, NEW e \in LegacyVersions(d)
                 PROVE  LET row == transform_event(e, {LegacyStream}, {LegacySchedule})
                        IN  /\ transformable(e, {LegacyStream}, {LegacySchedule})
                            /\ row.source_id =
                                  <<1, projection_slot(input.frequency, input.anchor, d)>>
                            /\ row.expected_date = d /\ row.amount = LegacySchedule.amount
                            /\ e.expected_date = Shown(row.override_date # None,
                                                       row.override_date, row.expected_date)
                            /\ e.amount = Shown(row.override_amount # None,
                                                row.override_amount, row.amount)
                            /\ e.label = Shown(row.has_label_override,
                                               row.override_label, row.label)
                            /\ e.account_id = Shown(row.has_account_override,
                                                    row.override_account_id,
                                                    LegacyStream.default_account_id)
                            /\ row.status = e.status /\ row.actual_date = e.actual_date
      BY DEF LegacyEventsSurvive
    <2> DEFINE row == transform_event(e, {LegacyStream}, {LegacySchedule})
    <2>1. /\ input.frequency \in Frequencies /\ input.anchor \in Dates
          /\ input.from \in Dates /\ input.through \in Dates
      BY DEF Examined, RuleInput
    <2>2. d \in input.from..input.through
          /\ Due(input.frequency, input.anchor, d, input.dom)
      BY DEF OccurrencesAreDue
    <2>3. d \in Dates /\ d \in Int /\ None \notin Int
      BY <2>1, <2>2, WindowDates, CalendarAssumption
    <2>4. /\ LegacySchedule.id = 1 /\ LegacySchedule.stream_id = 1
          /\ LegacySchedule.frequency = input.frequency
          /\ LegacySchedule.start_date = input.anchor
          /\ LegacySchedule.account_id = None /\ LegacyStream.id = 1
      BY DEF LegacySchedule, LegacyStream
    <2>5. /\ e.stream_id = 1 /\ FromSchedule(e) /\ e.source_id = <<1, d>>
          /\ e.expected_date \in Int /\ e.amount \in Int
          /\ (e.status = "received") <=> (e.actual_date # None)
      <3>1. LegacyEvent(d) =
               [id |-> 1, stream_id |-> 1, account_id |-> 1, label |-> <<"rent", "due">>,
                expected_date |-> d, actual_date |-> None, amount |-> -10,
                status |-> "projected", source_type |-> "stream_schedule",
                source_id |-> <<1, d>>, fault |-> None]
        BY DEF LegacyEvent
      <3>2. d + 1 \in Int /\ d + 2 # None /\ -10 \in Int /\ -12 \in Int
        BY <2>3
      <3>3. CASE e = LegacyEvent(d)
        BY <2>3, <3>1, <3>2, <3>3 DEF FromSchedule
      <3>4. CASE e = [LegacyEvent(d) EXCEPT !.expected_date = d + 1]
        BY <2>3, <3>1, <3>2, <3>4 DEF FromSchedule
      <3>5. CASE e = [LegacyEvent(d) EXCEPT !.amount = -12]
        BY <2>3, <3>1, <3>2, <3>5 DEF FromSchedule
      <3>6. CASE e = [LegacyEvent(d) EXCEPT !.label = None]
        BY <2>3, <3>1, <3>2, <3>6 DEF FromSchedule
      <3>7. CASE e = [LegacyEvent(d) EXCEPT !.account_id = None]
        BY <2>3, <3>1, <3>2, <3>7 DEF FromSchedule
      <3>8. CASE e = [LegacyEvent(d) EXCEPT !.status = "received", !.actual_date = d + 2]
        BY <2>3, <3>1, <3>2, <3>8 DEF FromSchedule
      <3> QED BY <3>3, <3>4, <3>5, <3>6, <3>7, <3>8 DEF LegacyVersions
    <2>6. e.source_id # None
      BY <2>3, <2>5, SourceIdAssumption
    <2>7. /\ transformable(e, {LegacyStream}, {LegacySchedule})
          /\ row.source_id = <<LegacySchedule.id,
                               projection_slot(LegacySchedule.frequency,
                                               LegacySchedule.start_date, d)>>
          /\ row.expected_date = d /\ row.amount = LegacySchedule.amount
          /\ e.expected_date = (IF row.override_date # None THEN row.override_date
                                                           ELSE row.expected_date)
          /\ e.amount = (IF row.override_amount # None THEN row.override_amount
                                                      ELSE row.amount)
          /\ row.actual_date = e.actual_date /\ row.status = e.status
          /\ e.label = (IF row.has_label_override THEN row.override_label
                                                 ELSE row.label)
          /\ e.account_id = (IF row.has_account_override THEN row.override_account_id
                             ELSE IF row.account_id # None THEN row.account_id
                             ELSE LegacyStream.default_account_id)
      <3> DEFINE streams == {LegacyStream}
                 schedules == {LegacySchedule}
      <3>1. LegacySchedule \in schedules /\ LegacyStream \in streams
        OBVIOUS
      <3>2. \A x \in schedules : x.id = LegacySchedule.id => x = LegacySchedule
        OBVIOUS
      <3>3. \A x \in streams : x.id = LegacyStream.id => x = LegacyStream
        OBVIOUS
      <3>4. /\ LegacySchedule.frequency \in Frequencies
            /\ Due(LegacySchedule.frequency, LegacySchedule.start_date, d, input.dom)
            /\ LegacySchedule.stream_id = LegacyStream.id /\ e.stream_id = LegacyStream.id
            /\ e.source_id = <<LegacySchedule.id, d>>
        BY <2>1, <2>2, <2>4, <2>5
      <3> HIDE DEF streams, schedules
      <3>5. /\ transformable(e, streams, schedules)
            /\ Migrated(e, LegacySchedule, LegacyStream, d,
                        transform_event(e, streams, schedules))
        BY <2>3, <2>5, <2>6, <3>1, <3>2, <3>3, <3>4, MigratedEventsSurvive
      <3> QED BY <3>5 DEF streams, schedules, Migrated
    <2>8. row.account_id = None
      <3>1. /\ Generator(e, {LegacySchedule}) = LegacySchedule
            /\ (CHOOSE x \in {LegacyStream} : x.id = e.stream_id) = LegacyStream
        BY <2>4, <2>5 DEF Generator
      <3> QED BY <2>4, <2>5, <3>1, TransformedColumns
    <2> HIDE DEF row
    <2> QED BY <2>4, <2>7, <2>8 DEF Shown, row
  <1> QED BY <1>1, AlwaysExamined, OccurrencesAreAlwaysDue, PTL

-----------------------------------------------------------------------------
(* The slots of a cadence.                                                 *)

\* Multiples of a positive number are ordered as their factors are.
LEMMA FactorOrder ==
    ASSUME NEW h \in Nat \ {0}, NEW v \in Int, NEW w \in Int
    PROVE  /\ v * h \in Int /\ w * h \in Int
           /\ v * h <= w * h <=> v <= w
           /\ v * h < w * h <=> v < w
  <1>1. v * h \in Int /\ w * h \in Int
    OBVIOUS
  <1>2. v <= w => v * h <= w * h
    <2>1. w * h = v * h + (w - v) * h
      OBVIOUS
    <2>2. v <= w => (w - v) * h >= 0
      OBVIOUS
    <2> QED BY <1>1, <2>1, <2>2
  <1>3. w < v => w * h < v * h
    <2>1. v * h = w * h + (v - w) * h
      OBVIOUS
    <2>2. w < v => (v - w) * h > 0
      OBVIOUS
    <2> QED BY <1>1, <2>1, <2>2
  <1>4. v < w => v * h < w * h
    <2>1. w * h = v * h + (w - v) * h
      OBVIOUS
    <2>2. v < w => (w - v) * h > 0
      OBVIOUS
    <2> QED BY <1>1, <2>1, <2>2
  <1> QED BY <1>1, <1>2, <1>3, <1>4

\* The hour of day 1 at which the slots of a cadence begin.
StartHour(c) == IF c = "daily" THEN 6 ELSE 0

\* A slot is a whole number of hours.
LEMMA SlotInHours ==
    ASSUME NEW c \in Scheduled, NEW k \in Int
    PROVE  /\ period_hours[c] * k + StartHour(c) \in Int
           /\ k * period(c) + offset(c) = (period_hours[c] * k + StartHour(c)) * HourLen
  <1> USE HourAssumption DEF period, offset, period_hours, StartHour
  <1>1. CASE c = "hourly"  BY <1>1
  <1>2. CASE c = "every_6h"  BY <1>2
  <1>3. CASE c = "every_12h"  BY <1>3
  <1>4. CASE c = "daily"  BY <1>4
  <1> QED BY <1>1, <1>2, <1>3, <1>4 DEF Scheduled

\* The hours of the grid are those of the slots.
LEMMA HoursOfGrid ==
    ASSUME NEW c \in Scheduled, NEW v \in Int
    PROVE  /\ (\E k \in Int : v = period_hours[c] * k + StartHour(c))
                 <=> (v % 24 \in GridHours(c))
           /\ v = 24 * (v \div 24) + (v % 24) /\ v \div 24 \in Int /\ v % 24 \in 0..23
  <1>0. v = 24 * (v \div 24) + (v % 24) /\ v \div 24 \in Int /\ v % 24 \in 0..23
    BY Division
  <1> DEFINE d == v \div 24
             h == v % 24
  <1>3. v = 24 * d + h /\ d \in Int /\ h \in 0..23
    BY <1>0
  <1> HIDE DEF d, h
  <1>1. ASSUME NEW k \in Int, v = period_hours[c] * k + StartHour(c)
        PROVE  h \in GridHours(c)
    <2> USE <1>1 DEF period_hours, StartHour, GridHours
    <2>1. CASE c = "hourly"  BY <2>1, <1>3
    <2>2. CASE c = "every_6h"
      <3>1. k - 4 * d \in 0..3 /\ h = 6 * (k - 4 * d)
        BY <2>2, <1>3
      <3> QED BY <2>2, <3>1
    <2>3. CASE c = "every_12h"
      <3>1. k - 2 * d \in 0..1 /\ h = 12 * (k - 2 * d)
        BY <2>3, <1>3
      <3> QED BY <2>3, <3>1
    <2>4. CASE c = "daily"  BY <2>4, <1>3
    <2> QED BY <2>1, <2>2, <2>3, <2>4 DEF Scheduled
  <1>2. ASSUME h \in GridHours(c)
        PROVE  \E k \in Int : v = period_hours[c] * k + StartHour(c)
    <2> USE <1>3, <1>2 DEF period_hours, StartHour, GridHours
    <2>1. CASE c = "hourly"
      BY <2>1
    <2>2. CASE c = "every_6h"
      <3>1. PICK j \in 0..3 : h = 6 * j
        BY <2>2
      <3>2. v = 6 * (4 * d + j) /\ 4 * d + j \in Int
        BY <2>2, <3>1
      <3> QED BY <2>2, <3>2
    <2>3. CASE c = "every_12h"
      <3>1. PICK j \in 0..1 : h = 12 * j
        BY <2>3
      <3>2. v = 12 * (2 * d + j) /\ 2 * d + j \in Int
        BY <2>3, <3>1
      <3> QED BY <2>3, <3>2
    <2>4. CASE c = "daily"
      BY <2>4
    <2> QED BY <2>1, <2>2, <2>3, <2>4 DEF Scheduled
  <1> QED BY <1>0, <1>1, <1>2 DEF h

\* A point of the grid is a slot.
LEMMA GridIsSlots ==
    ASSUME NEW c \in Scheduled, NEW t \in Grid(c)
    PROVE  t \in Int /\ \E k \in Int : t = k * period(c) + offset(c)
  <1>1. PICK d \in Days, h \in GridHours(c) : t = (24 * d + h) * HourLen
    BY DEF Grid
  <1>2. d \in Int /\ h \in 0..23
    BY DEF Days, GridHours, Scheduled
  <1> DEFINE v == 24 * d + h
  <1>3. v \in Int /\ v % 24 = h
    BY <1>2, DivisionUnique
  <1>4. t = v * HourLen
    BY <1>1
  <1> HIDE DEF v
  <1>5. PICK k \in Int : v = period_hours[c] * k + StartHour(c)
    BY <1>1, <1>3, HoursOfGrid
  <1>6. t = k * period(c) + offset(c)
    BY <1>4, <1>5, SlotInHours
  <1>7. t \in Int
    BY <1>3, <1>4, HourAssumption
  <1> QED BY <1>6, <1>7

\* A slot within eight days of the epoch is a point of the grid.
LEMMA SlotsInGrid ==
    ASSUME NEW c \in Scheduled, NEW k \in Int,
           -192 * HourLen < k * period(c) + offset(c),
           k * period(c) + offset(c) <= 192 * HourLen
    PROVE  k * period(c) + offset(c) \in Grid(c)
  <1> DEFINE v == period_hours[c] * k + StartHour(c)
  <1>1. v \in Int /\ k * period(c) + offset(c) = v * HourLen
    BY SlotInHours
  <1>2. v % 24 \in GridHours(c)
    BY <1>1, HoursOfGrid
  <1> HIDE DEF v
  <1>3. -192 < v /\ v <= 192
    <2>1. -192 * HourLen < v * HourLen /\ v * HourLen <= 192 * HourLen
      BY <1>1
    <2>2. -192 \in Int /\ 192 \in Int
      OBVIOUS
    <2>3. -192 * HourLen < v * HourLen <=> -192 < v
      BY <1>1, <2>2, FactorOrder, HourAssumption
    <2>4. v * HourLen <= 192 * HourLen <=> v <= 192
      BY <1>1, <2>2, FactorOrder, HourAssumption
    <2> QED BY <2>1, <2>3, <2>4
  <1>4. v = 24 * (v \div 24) + (v % 24) /\ v \div 24 \in Int /\ v % 24 \in 0..23
    BY <1>1, HoursOfGrid
  <1>5. v \div 24 \in Days
    <2> DEFINE q == v \div 24
               h == v % 24
    <2>1. v = 24 * q + h /\ q \in Int /\ h \in 0..23
      BY <1>4
    <2> HIDE DEF q, h
    <2>2. q \in -8..8
      BY <1>1, <1>3, <2>1
    <2> QED BY <2>2 DEF Days, q
  <1>6. PICK d \in Days, h \in GridHours(c) : v = 24 * d + h
    BY <1>2, <1>4, <1>5
  <1>7. v * HourLen = (24 * d + h) * HourLen
    BY <1>6
  <1> QED BY <1>1, <1>7 DEF Grid

\* At every instant examined, the slot that cron claims is the latest point of the
\* cadence's grid that is not in the future, and the next slot the first one that is.
THEOREM SlotsAreAlwaysOnGrid == Spec => []SlotsAreOnGrid
  <1>1. Examined => SlotsAreOnGrid
    <2> SUFFICES ASSUME Examined, subject = "cadence"
                 PROVE  /\ most_recent_slot(input.cadence, input.now) =
                              Max({t \in Grid(input.cadence) : t <= input.now})
                        /\ next_slot(input.cadence, input.now) =
                              Min({t \in Grid(input.cadence) : t > input.now})
      BY DEF SlotsAreOnGrid
    <2> DEFINE c == input.cadence
               now == input.now
               p == period(c)
               o == offset(c)
               k == (now - o) \div p
               m == k * p + o
    <2>1. c \in Scheduled /\ now \in Int /\ now >= -168 * HourLen /\ now <= 168 * HourLen
      BY BoundsAssumption, HourAssumption DEF Examined, CadenceInput
    <2>2. p \in Nat \ {0} /\ o \in Nat
      BY <2>1, PeriodPositive
    <2>3. most_recent_slot(c, now) = m /\ next_slot(c, now) = m + p
      BY <2>1 DEF most_recent_slot, next_slot
    <2>4. p <= 24 * HourLen
      BY <2>1, HourAssumption DEF Scheduled, period, period_hours
    <2> HIDE DEF c, now, p, o
    <2>5. k \in Int /\ m \in Int /\ m <= now /\ now < m + p
      <3>1. now - o \in Int
        BY <2>1, <2>2
      <3>2. k \in Int /\ k * p <= now - o /\ now - o < k * p + p
        BY <2>2, <3>1, RoundDown
      <3> HIDE DEF k
      <3>3. k * p \in Int
        BY <2>2, <3>2
      <3> QED BY <2>1, <2>2, <3>2, <3>3
    <2> HIDE DEF k
    <2>6. m + p = (k + 1) * p + o /\ k + 1 \in Int
      BY <2>2, <2>5
    <2>7. m \in Grid(c) /\ m + p \in Grid(c)
      <3> HIDE DEF m
      <3>1. -192 * HourLen < m /\ m <= 192 * HourLen
            /\ -192 * HourLen < m + p /\ m + p <= 192 * HourLen
        BY <2>1, <2>2, <2>4, <2>5, HourAssumption
      <3>2. m \in Grid(c)
        BY <2>1, <2>5, <3>1, SlotsInGrid DEF m, p, o
      <3>3. m + p \in Grid(c)
        BY <2>1, <2>6, <3>1, SlotsInGrid DEF p, o
      <3> QED BY <3>2, <3>3
    <2>8. ASSUME NEW t \in Grid(c)
          PROVE  t \in Int /\ (t <= now => t <= m) /\ (t > now => t >= m + p)
      <3>1. PICK j \in Int : t = j * p + o
        BY <2>1, GridIsSlots DEF p, o
      <3>2. t \in Int
        BY <2>1, GridIsSlots
      <3>3. /\ j * p \in Int /\ k * p \in Int /\ (k + 1) * p \in Int
            /\ j * p <= k * p <=> j <= k
            /\ j * p < (k + 1) * p <=> j < k + 1
        BY <2>2, <2>5, <2>6, FactorOrder
      <3>4. (k + 1) * p = k * p + p
        BY <2>2, <2>5
      <3>5. t <= now => t <= m
        <4>1. t <= now => j * p < (k + 1) * p
          BY <2>1, <2>2, <2>5, <3>1, <3>3, <3>4
        <4>2. t <= now => j * p <= k * p
          BY <2>5, <3>3, <4>1
        <4> QED BY <2>2, <3>1, <3>3, <4>2
      <3>6. t > now => t >= m + p
        <4>1. t > now => ~(j * p <= k * p)
          BY <2>1, <2>2, <2>5, <3>1, <3>3
        <4>2. t > now => ~(j * p < (k + 1) * p)
          BY <2>5, <3>3, <4>1
        <4> QED BY <2>2, <3>1, <3>3, <3>4, <4>2
      <3> QED BY <3>2, <3>5, <3>6
    <2> HIDE DEF m
    <2>9. m = Max({t \in Grid(c) : t <= now})
      <3> DEFINE S == {t \in Grid(c) : t <= now}
      <3>1. m \in S /\ \A t \in S : m >= t
        BY <2>5, <2>7, <2>8
      <3>2. \A x \in S : (\A t \in S : x >= t) => x = m
        BY <2>5, <2>8, <3>1
      <3> HIDE DEF S
      <3> QED BY <3>1, <3>2 DEF Max, S
    <2>10. m + p = Min({t \in Grid(c) : t > now})
      <3> DEFINE S == {t \in Grid(c) : t > now}
                 n == m + p
      <3>1. n \in Int /\ n \in S /\ \A t \in S : n <= t
        BY <2>2, <2>5, <2>7, <2>8
      <3>2. \A x \in S : x \in Int
        BY <2>8
      <3> HIDE DEF S, n
      <3>3. \A x \in S : (\A t \in S : x <= t) => x = n
        BY <3>1, <3>2
      <3>4. n = Min(S)
        BY <3>1, <3>3 DEF Min
      <3> QED BY <3>4 DEF S, n
    <2> QED BY <2>3, <2>9, <2>10 DEF c, now
  <1> QED BY <1>1, AlwaysExamined, PTL


-----------------------------------------------------------------------------
(* Forecasts: the events in order.                                         *)

\* Induction over the numbers up to a bound.
LEMMA UpToBound ==
    ASSUME NEW N \in Nat, NEW P \in SUBSET (0..N), 0 \in P,
           \A n \in P : n < N => n + 1 \in P
    PROVE  P = 0..N
  <1> DEFINE S == 0..N
             B == {T \in SUBSET S : \E n \in S \ P : T = 0..n}
  <1> SUFFICES ASSUME P # 0..N PROVE FALSE
    OBVIOUS
  <1>1. IsFiniteSet(S)
    BY FS_Interval
  <1>2. FiniteSubsetsOf(S) = SUBSET S
    BY <1>1, FS_FiniteSubsetsOfFinite
  <1>3. PICK k \in S \ P : TRUE
    OBVIOUS
  <1>4. 0..k \in B
    OBVIOUS
  <1>5. B \subseteq FiniteSubsetsOf(S) /\ B # {}
    BY <1>2, <1>4
  <1>6. IsWellFoundedOn(StrictSubsetOrdering(S), FiniteSubsetsOf(S))
    BY FS_StrictSubsetOrderingWellFounded
  <1> HIDE DEF B
  <1>7. PICK X \in B : \A Y \in B : <<Y, X>> \notin StrictSubsetOrdering(S)
    BY <1>5, <1>6, WFMin
  <1>8. PICK n \in S \ P : X = 0..n
    BY <1>7 DEF B
  <1>9. n \in Nat /\ n # 0 /\ n - 1 \in S /\ n - 1 < N
    BY <1>8
  <1>10. CASE n - 1 \in P
    BY <1>8, <1>9, <1>10
  <1>11. CASE n - 1 \notin P
    <2>1. 0..(n - 1) \in B
      BY <1>9, <1>11 DEF B
    <2>2. 0..(n - 1) \subseteq 0..n /\ 0..(n - 1) # 0..n /\ 0..n \in SUBSET S
      BY <1>8, <1>9
    <2> QED BY <1>7, <1>8, <2>1, <2>2 DEF StrictSubsetOrdering
  <1> QED BY <1>10, <1>11

\* Numbered events, each with a date: the order of their dates and numbers.
Dated(D) == /\ IsFiniteSet(DOMAIN D) /\ DOMAIN D \subseteq Int
            /\ D \in [DOMAIN D -> Int]
Sooner(D, i, j) == D[i] < D[j] \/ (D[i] = D[j] /\ i < j)
Preceding(D, S, i) == {j \in S : Sooner(D, j, i)}
Rank(D, S, i) == Cardinality(Preceding(D, S, i))

\* It is a strict total order.
LEMMA SoonerOrders ==
    ASSUME NEW D, Dated(D), NEW i \in DOMAIN D, NEW j \in DOMAIN D
    PROVE  /\ ~Sooner(D, i, i)
           /\ i # j => Sooner(D, i, j) \/ Sooner(D, j, i)
           /\ \A k \in DOMAIN D : Sooner(D, k, i) /\ Sooner(D, i, j) => Sooner(D, k, j)
  <1>1. i \in Int /\ j \in Int /\ D[i] \in Int /\ D[j] \in Int
    BY DEF Dated
  <1>2. ASSUME NEW k \in DOMAIN D, Sooner(D, k, i), Sooner(D, i, j) PROVE Sooner(D, k, j)
    <2>1. k \in Int /\ D[k] \in Int
      BY DEF Dated
    <2> QED BY <1>1, <1>2, <2>1 DEF Sooner
  <1> QED BY <1>1, <1>2 DEF Sooner

\* How many events come before one is a number below how many there are, larger
\* for a later one, and each such number occurs.
LEMMA EventRanks ==
    ASSUME NEW D, Dated(D), NEW S \in SUBSET DOMAIN D, NEW n, n = Cardinality(S)
    PROVE  /\ n \in Nat /\ IsFiniteSet(S)
           /\ \A i \in DOMAIN D : IsFiniteSet(Preceding(D, S, i)) /\ Rank(D, S, i) \in Nat
           /\ \A i \in S : Rank(D, S, i) \in 0..(n - 1)
           /\ \A i, j \in S : Sooner(D, i, j) => Rank(D, S, i) < Rank(D, S, j)
           /\ \A i, j \in S : Rank(D, S, i) = Rank(D, S, j) => i = j
           /\ \A m \in 0..(n - 1) : \E i \in S : Rank(D, S, i) = m
  <1>1. IsFiniteSet(S) /\ n \in Nat
    BY FS_Subset, FS_CardinalityType DEF Dated
  <1>2. ASSUME NEW i \in DOMAIN D
        PROVE  IsFiniteSet(Preceding(D, S, i)) /\ Rank(D, S, i) \in Nat
    <2>1. Preceding(D, S, i) \in SUBSET S
      BY DEF Preceding
    <2>2. IsFiniteSet(Preceding(D, S, i))
      BY <1>1, <2>1, FS_Subset
    <2> QED BY <2>2, FS_CardinalityType DEF Rank
  <1>3. ASSUME NEW i \in S PROVE Rank(D, S, i) \in 0..(n - 1)
    <2>1. Preceding(D, S, i) \in SUBSET (S \ {i})
      BY SoonerOrders DEF Preceding
    <2>2. IsFiniteSet(S \ {i}) /\ Cardinality(S \ {i}) = n - 1
      BY <1>1, FS_RemoveElement
    <2>3. Cardinality(Preceding(D, S, i)) <= n - 1
      BY <2>1, <2>2, FS_Subset
    <2> QED BY <1>1, <1>2, <2>3 DEF Rank
  <1>4. ASSUME NEW i \in S, NEW j \in S, Sooner(D, i, j)
        PROVE  Rank(D, S, i) < Rank(D, S, j)
    <2>1. i \notin Preceding(D, S, i) /\ i \in Preceding(D, S, j)
      BY <1>4, SoonerOrders DEF Preceding
    <2>2. Preceding(D, S, i) \in SUBSET Preceding(D, S, j)
      BY <1>4, SoonerOrders DEF Preceding
    <2>3. /\ Rank(D, S, i) <= Rank(D, S, j)
          /\ Rank(D, S, j) = Rank(D, S, i) => Preceding(D, S, j) = Preceding(D, S, i)
      BY <1>2, <2>2, FS_Subset DEF Rank
    <2> QED BY <1>2, <2>1, <2>3
  <1>5. ASSUME NEW i \in S, NEW j \in S, Rank(D, S, i) = Rank(D, S, j), i # j
        PROVE  FALSE
    <2>1. Sooner(D, i, j) \/ Sooner(D, j, i)
      BY <1>5, SoonerOrders
    <2>2. Rank(D, S, i) \in Int
      BY <1>2
    <2> QED BY <1>4, <1>5, <2>1, <2>2
  <1>6. \A m \in 0..(n - 1) : \E i \in S : Rank(D, S, i) = m
    <2> DEFINE T == 0..(n - 1)
               f == [i \in S |-> Rank(D, S, i)]
    <2>1. IsFiniteSet(T) /\ Cardinality(T) = n
      <3>1. n - 1 \in Int /\ 0 \in Int /\ (0 > n - 1 => n = 0)
        BY <1>1
      <3>2. IsFiniteSet(T) /\ Cardinality(T) = IF 0 > n - 1 THEN 0 ELSE (n - 1) - 0 + 1
        BY <3>1, FS_Interval
      <3> QED BY <1>1, <3>1, <3>2
    <2>2. f \in [S -> T] /\ \A i, j \in S : f[i] = f[j] => i = j
      BY <1>3, <1>5
    <2>3. \A i \in S : f[i] = Rank(D, S, i)
      OBVIOUS
    <2> HIDE DEF T, f
    <2>4. f \in Injection(S, T)
      BY <2>2 DEF Injection, IsInjective
    <2>5. f \in Surjection(S, T)
      BY <1>1, <2>1, <2>4, FS_Injection
    <2>6. \A m \in T : \E i \in S : f[i] = m
      BY <2>5 DEF Surjection
    <2> QED BY <2>3, <2>6 DEF T
  <1> QED BY <1>1, <1>2, <1>3, <1>4, <1>5, <1>6


\* Events can be listed in their order.
LEMMA OrderExists ==
    ASSUME NEW D, Dated(D), NEW S \in SUBSET DOMAIN D, NEW n, n = Cardinality(S)
    PROVE  \E t \in [1..n -> S] : \A k, m \in 1..n : k < m => Sooner(D, t[k], t[m])
  <1> DEFINE r == [m \in 1..n |-> CHOOSE i \in S : Rank(D, S, i) = m - 1]
  <1>1. /\ n \in Nat /\ IsFiniteSet(S)
        /\ \A i, j \in S : Sooner(D, i, j) => Rank(D, S, i) < Rank(D, S, j)
        /\ \A m \in 0..(n - 1) : \E i \in S : Rank(D, S, i) = m
    BY EventRanks
  <1>2. ASSUME NEW m \in 1..n PROVE r[m] \in S /\ Rank(D, S, r[m]) = m - 1
    <2>1. m - 1 \in 0..(n - 1)
      BY <1>1
    <2>2. \E i \in S : Rank(D, S, i) = m - 1
      BY <1>1, <2>1
    <2> QED BY <2>2
  <1>3. r \in [1..n -> S]
    BY <1>2
  <1> HIDE DEF r
  <1>4. ASSUME NEW k \in 1..n, NEW m \in 1..n, k < m PROVE Sooner(D, r[k], r[m])
    <2>1. /\ r[k] \in S /\ r[m] \in S /\ k \in Int /\ m \in Int
          /\ Rank(D, S, r[k]) = k - 1 /\ Rank(D, S, r[m]) = m - 1
      BY <1>1, <1>2
    <2>2. ~Sooner(D, r[m], r[k]) /\ r[k] # r[m]
      BY <1>1, <1>4, <2>1
    <2> QED BY <2>1, <2>2, SoonerOrders
  <1> QED BY <1>3, <1>4

\* A list of events: each is at the place of its rank.
Listing(D, S, s) ==
    /\ s \in [1..Cardinality(S) -> S]
    /\ \A m \in 1..Cardinality(S) : Rank(D, S, s[m]) = m - 1

\* A list of events in their order is one.
LEMMA ListedByRank ==
    ASSUME NEW D, Dated(D), NEW S \in SUBSET DOMAIN D, NEW n, n = Cardinality(S),
           NEW s \in [1..n -> S], \A k, m \in 1..n : k < m => Sooner(D, s[k], s[m])
    PROVE  Listing(D, S, s)
  <1>1. n \in Nat /\ IsFiniteSet(S)
    BY EventRanks
  <1>5. s \in [1..n -> S] /\ \A k, m \in 1..n : k < m => Sooner(D, s[k], s[m])
    OBVIOUS
  <1>6. ASSUME NEW k \in 1..n, NEW m \in 1..n, Sooner(D, s[k], s[m]) PROVE k < m
    <2>1. s[k] \in DOMAIN D /\ s[m] \in DOMAIN D /\ k \in Int /\ m \in Int
      BY <1>1, <1>5
    <2>2. CASE m < k
      <3>1. Sooner(D, s[m], s[k])
        BY <1>5, <2>2
      <3> QED BY <1>6, <2>1, <3>1, SoonerOrders
    <2>3. CASE k = m
      BY <1>6, <2>1, <2>3, SoonerOrders
    <2> QED BY <2>1, <2>2, <2>3
  <1>7. \A k, m \in 1..n : s[k] = s[m] => k = m
    <2>1. ASSUME NEW k \in 1..n, NEW m \in 1..n, s[k] = s[m], k < m PROVE FALSE
      <3>1. Sooner(D, s[k], s[k]) /\ s[k] \in DOMAIN D
        BY <1>5, <2>1
      <3> QED BY <3>1, SoonerOrders
    <2> QED BY <1>1, <2>1
  <1>8. \A i \in S : \E k \in 1..n : s[k] = i
    <2> DEFINE I == 1..n
    <2>1. IsFiniteSet(I) /\ Cardinality(I) = n
      <3>1. n \in Int /\ 1 \in Int
        BY <1>1
      <3>2. IsFiniteSet(I) /\ Cardinality(I) = IF 1 > n THEN 0 ELSE n - 1 + 1
        BY <3>1, FS_Interval
      <3> QED BY <1>1, <3>2
    <2>2. s \in [I -> S] /\ \A k, m \in I : s[k] = s[m] => k = m
      BY <1>5, <1>7
    <2> HIDE DEF I
    <2>3. s \in Injection(I, S)
      BY <2>2 DEF Injection, IsInjective
    <2>4. s \in Surjection(I, S)
      BY <1>1, <2>1, <2>3, FS_Injection
    <2>5. \A i \in S : \E k \in I : s[k] = i
      BY <2>4 DEF Surjection
    <2> QED BY <2>5 DEF I
  <1>9. ASSUME NEW m \in 1..n PROVE Rank(D, S, s[m]) = m - 1
    <2> DEFINE P == Preceding(D, S, s[m])
               K == 1..(m - 1)
               f == [k \in K |-> s[k]]
    <2>1. K \subseteq 1..n /\ m \in Nat \ {0} /\ \A k \in K : k < m
      BY <1>1
    <2>2. IsFiniteSet(K) /\ Cardinality(K) = m - 1
      <3>1. m - 1 \in Int /\ 1 \in Int
        BY <2>1
      <3>2. IsFiniteSet(K) /\ Cardinality(K) = IF 1 > m - 1 THEN 0 ELSE (m - 1) - 1 + 1
        BY <3>1, FS_Interval
      <3> QED BY <2>1, <3>2
    <2>3. \A k \in K : s[k] \in P
      BY <1>5, <2>1 DEF Preceding
    <2>4. \A i \in P : \E k \in K : s[k] = i
      <3> SUFFICES ASSUME NEW i \in P PROVE \E k \in K : s[k] = i
        OBVIOUS
      <3>1. i \in S /\ Sooner(D, i, s[m])
        BY DEF Preceding
      <3>2. PICK k \in 1..n : s[k] = i
        BY <1>8, <3>1
      <3>3. Sooner(D, s[k], s[m])
        BY <3>1, <3>2
      <3>4. k < m
        BY <1>6, <3>3
      <3>5. k \in K
        BY <1>1, <2>1, <3>4
      <3> QED BY <3>2, <3>5
    <2>5. \A k \in K : f[k] = s[k]
      OBVIOUS
    <2>6. f \in [K -> P]
      BY <2>3
    <2> HIDE DEF f, P, K
    <2>7. f \in Injection(K, P)
      BY <1>7, <2>1, <2>5, <2>6 DEF Injection, IsInjective
    <2>8. f \in Surjection(K, P)
      BY <2>4, <2>5, <2>6 DEF Surjection
    <2>9. Cardinality(P) = Cardinality(K)
      BY <2>2, <2>7, <2>8, FS_Surjection
    <2> QED BY <2>2, <2>9 DEF Rank, P
  <1> QED BY <1>5, <1>9 DEF Listing

\* How many events are dated up to a day, and those dated from one to another.
Cut(D, d) == Cardinality({i \in DOMAIN D : D[i] <= d})
Between(D, first, last) == {i \in DOMAIN D : first <= D[i] /\ D[i] <= last}

\* The events up to a day are the first ones in order.
LEMMA CutDecides ==
    ASSUME NEW D, Dated(D), NEW n, n = Cardinality(DOMAIN D)
    PROVE  /\ \A d \in Int : Cut(D, d) \in 0..n
           /\ \A d, e \in Int : d <= e => Cut(D, d) <= Cut(D, e)
           /\ \A d \in Int, i \in DOMAIN D : D[i] <= d <=> Rank(D, DOMAIN D, i) < Cut(D, d)
  <1> DEFINE E == DOMAIN D
             Upto(d) == {i \in E : D[i] <= d}
  <1>1. n \in Nat /\ IsFiniteSet(E)
    BY EventRanks
  <1>2. ASSUME NEW d \in Int
        PROVE  IsFiniteSet(Upto(d)) /\ Cut(D, d) = Cardinality(Upto(d)) /\ Cut(D, d) \in 0..n
    <2>1. Upto(d) \in SUBSET E
      OBVIOUS
    <2>2. IsFiniteSet(Upto(d)) /\ Cardinality(Upto(d)) <= n
      BY <1>1, <2>1, FS_Subset
    <2>3. Cardinality(Upto(d)) \in Nat
      BY <2>2, FS_CardinalityType
    <2> QED BY <1>1, <2>2, <2>3 DEF Cut
  <1>3. ASSUME NEW d \in Int, NEW e \in Int, d <= e PROVE Cut(D, d) <= Cut(D, e)
    <2>1. Upto(d) \in SUBSET Upto(e)
      BY <1>3 DEF Dated
    <2> HIDE DEF Upto
    <2> QED BY <1>2, <2>1, FS_Subset
  <1>4. ASSUME NEW d \in Int, NEW i \in E
        PROVE  D[i] <= d <=> Rank(D, E, i) < Cut(D, d)
    <2>1. IsFiniteSet(Preceding(D, E, i)) /\ Rank(D, E, i) \in Nat
      BY EventRanks
    <2>2. ASSUME D[i] <= d PROVE Rank(D, E, i) < Cut(D, d)
      <3>1. Preceding(D, E, i) \in SUBSET Upto(d) /\ i \in Upto(d)
        BY <2>2 DEF Preceding, Sooner, Dated
      <3>2. i \notin Preceding(D, E, i)
        BY SoonerOrders DEF Preceding
      <3> HIDE DEF Upto
      <3>3. /\ Cardinality(Preceding(D, E, i)) <= Cut(D, d)
            /\ Cut(D, d) = Cardinality(Preceding(D, E, i)) => Upto(d) = Preceding(D, E, i)
        BY <1>2, <3>1, FS_Subset
      <3> QED BY <1>2, <2>1, <3>1, <3>2, <3>3 DEF Rank
    <2>3. ASSUME ~(D[i] <= d) PROVE ~(Rank(D, E, i) < Cut(D, d))
      <3>1. Upto(d) \in SUBSET Preceding(D, E, i)
        BY <2>3 DEF Preceding, Sooner, Dated
      <3> HIDE DEF Upto
      <3>2. Cut(D, d) <= Rank(D, E, i)
        BY <1>2, <2>1, <3>1, FS_Subset DEF Rank
      <3> QED BY <1>1, <1>2, <2>1, <3>2
    <2> QED BY <2>2, <2>3
  <1> QED BY <1>2, <1>3, <1>4

\* The size of two sets that have nothing in common.
LEMMA DisjointUnion ==
    ASSUME NEW S, NEW T, IsFiniteSet(S), IsFiniteSet(T), S \cap T = {}
    PROVE  Cardinality(S \cup T) = Cardinality(S) + Cardinality(T)
  <1>1. Cardinality(S \cup T) = Cardinality(S) + Cardinality(T) - Cardinality(S \cap T)
    BY FS_Union
  <1>2. Cardinality(S \cap T) = 0
    BY FS_EmptySet
  <1>3. Cardinality(S) \in Nat /\ Cardinality(T) \in Nat
    BY FS_CardinalityType
  <1> QED BY <1>1, <1>2, <1>3

\* The events between two days follow those before the first.
LEMMA SliceRanks ==
    ASSUME NEW D, Dated(D), NEW first \in Int, NEW last \in Int, first <= last + 1,
           NEW S, S = Between(D, first, last)
    PROVE  /\ Cardinality(S) = Cut(D, last) - Cut(D, first - 1)
           /\ \A i \in S : Rank(D, DOMAIN D, i) = Cut(D, first - 1) + Rank(D, S, i)
  <1> DEFINE E == DOMAIN D
             Old == {i \in E : D[i] <= first - 1}
             All == {i \in E : D[i] <= last}
  <1>1. S \in SUBSET E /\ IsFiniteSet(E)
    BY DEF Between, Dated
  <1>2. IsFiniteSet(S) /\ IsFiniteSet(Old) /\ IsFiniteSet(All)
    BY <1>1, FS_Subset
  <1>3. /\ Cardinality(Old) = Cut(D, first - 1) /\ Cardinality(All) = Cut(D, last)
        /\ Cardinality(Old) \in Nat /\ Cardinality(All) \in Nat /\ Cardinality(S) \in Nat
    BY <1>2, FS_CardinalityType DEF Cut
  <1>4. All = Old \cup S /\ Old \cap S = {}
    BY DEF Between, Dated
  <1>5. ASSUME NEW i \in S
        PROVE  /\ Preceding(D, E, i) = Old \cup Preceding(D, S, i)
               /\ Old \cap Preceding(D, S, i) = {}
    BY DEF Between, Dated, Preceding, Sooner
  <1> HIDE DEF Old, All
  <1>7. Cardinality(All) = Cardinality(Old) + Cardinality(S)
    BY <1>2, <1>4, DisjointUnion
  <1>8. ASSUME NEW i \in S PROVE Rank(D, E, i) = Cut(D, first - 1) + Rank(D, S, i)
    <2>1. IsFiniteSet(Preceding(D, S, i)) /\ Rank(D, S, i) \in Nat
      BY <1>1, EventRanks
    <2> QED BY <1>2, <1>3, <1>5, <2>1, DisjointUnion DEF Rank
  <1> QED BY <1>3, <1>7, <1>8


\* In a list of all events those up to a day come first, and those between two
\* days are a part of it.
LEMMA SliceOfList ==
    ASSUME NEW D, Dated(D), NEW n, n = Cardinality(DOMAIN D), NEW g, Listing(D, DOMAIN D, g),
           NEW first \in Int, NEW last \in Int, first <= last + 1,
           NEW S, S = Between(D, first, last), NEW s, Listing(D, S, s),
           NEW lo, lo = Cut(D, first - 1), NEW hi, hi = Cut(D, last)
    PROVE  /\ n \in Nat /\ lo \in 0..n /\ hi \in lo..n /\ Cardinality(S) = hi - lo
           /\ s \in [1..(hi - lo) -> S]
           /\ \A m \in 1..(hi - lo) : lo + m \in 1..n /\ s[m] = g[lo + m]
  <1> DEFINE E == DOMAIN D
  <1>1. n \in Nat /\ \A i, j \in E : Rank(D, E, i) = Rank(D, E, j) => i = j
    BY EventRanks
  <1>2. lo \in 0..n /\ hi \in 0..n /\ lo <= hi
    BY CutDecides
  <1>3. Cardinality(S) = hi - lo /\ \A i \in S : Rank(D, E, i) = lo + Rank(D, S, i)
    BY SliceRanks
  <1>4. S \subseteq E
    BY DEF Between
  <1>5. ASSUME NEW m \in 1..(hi - lo) PROVE lo + m \in 1..n /\ s[m] = g[lo + m]
    <2>1. lo + m \in 1..n
      BY <1>1, <1>2
    <2>2. s[m] \in S /\ Rank(D, S, s[m]) = m - 1
      BY <1>3 DEF Listing
    <2>3. g[lo + m] \in E /\ Rank(D, E, g[lo + m]) = (lo + m) - 1
      BY <2>1 DEF Listing
    <2>4. Rank(D, E, s[m]) = lo + (m - 1)
      BY <1>3, <2>2
    <2>5. Rank(D, E, s[m]) = Rank(D, E, g[lo + m])
      BY <1>2, <2>3, <2>4
    <2> QED BY <1>1, <1>4, <2>1, <2>2, <2>3, <2>5
  <1>6. s \in [1..(hi - lo) -> S]
    BY <1>3 DEF Listing
  <1> QED BY <1>1, <1>2, <1>3, <1>5, <1>6

\* The days up to which a list goes.
LEMMA ListDates ==
    ASSUME NEW D, Dated(D), NEW n, n = Cardinality(DOMAIN D), NEW g, Listing(D, DOMAIN D, g),
           NEW k \in 1..n, NEW d \in Int
    PROVE  g[k] \in DOMAIN D /\ D[g[k]] \in Int /\ (D[g[k]] <= d <=> k <= Cut(D, d))
  <1>1. g[k] \in DOMAIN D /\ Rank(D, DOMAIN D, g[k]) = k - 1
    BY DEF Listing
  <1>2. D[g[k]] <= d <=> Rank(D, DOMAIN D, g[k]) < Cut(D, d)
    BY <1>1, CutDecides
  <1>3. n \in Nat /\ Cut(D, d) \in 0..n
    BY CutDecides, EventRanks
  <1>4. D[g[k]] \in Int
    BY <1>1 DEF Dated
  <1> QED BY <1>1, <1>2, <1>3, <1>4

\* An increasing list of the numbers from p + 1 to q.
LEMMA NumbersInOrder ==
    ASSUME NEW p \in Int, NEW q \in Int, p <= q, NEW s \in [1..(q - p) -> (p + 1)..q],
           \A k, m \in 1..(q - p) : k < m => s[k] < s[m]
    PROVE  \A m \in 1..(q - p) : s[m] = p + m
  <1> DEFINE S == (p + 1)..q
             D == [k \in S |-> k]
  <1>1. IsFiniteSet(S) /\ Cardinality(S) = q - p
    <2>1. p + 1 \in Int /\ q \in Int
      OBVIOUS
    <2>2. IsFiniteSet(S) /\ Cardinality(S) = IF p + 1 > q THEN 0 ELSE q - (p + 1) + 1
      BY <2>1, FS_Interval
    <2> QED BY <2>2
  <1>2. DOMAIN D = S /\ \A k \in S : D[k] = k /\ k \in Int
    OBVIOUS
  <1>3. D \in [S -> Int]
    OBVIOUS
  <1> HIDE DEF D
  <1>4. Dated(D)
    BY <1>1, <1>2, <1>3 DEF Dated
  <1>5. \A k, m \in 1..(q - p) : k < m => Sooner(D, s[k], s[m])
    BY <1>2 DEF Sooner
  <1>6. Listing(D, S, s)
    BY <1>1, <1>2, <1>4, <1>5, ListedByRank
  <1>7. ASSUME NEW m \in 1..(q - p) PROVE s[m] = p + m
    <2>1. s[m] \in S /\ s[m] \in Int /\ Rank(D, S, s[m]) = m - 1
      BY <1>1, <1>2, <1>6 DEF Listing
    <2>2. Preceding(D, S, s[m]) = (p + 1)..(s[m] - 1)
      BY <1>2, <2>1 DEF Preceding, Sooner
    <2>3. Cardinality((p + 1)..(s[m] - 1)) = (s[m] - 1) - p
      <3>1. p + 1 \in Int /\ s[m] - 1 \in Int
        BY <2>1
      <3>2. Cardinality((p + 1)..(s[m] - 1))
               = IF p + 1 > s[m] - 1 THEN 0 ELSE (s[m] - 1) - (p + 1) + 1
        BY <3>1, FS_Interval
      <3> QED BY <2>1, <3>2
    <2> QED BY <2>1, <2>2, <2>3 DEF Rank
  <1> QED BY <1>7

-----------------------------------------------------------------------------
(* Forecasts: running sums.                                                *)

\* The sums of a list of amounts.
Sums(N, x, A) ==
    /\ A \in [0..N -> Int] /\ A[0] = 0
    /\ \A k \in 1..N : A[k] = A[k - 1] + x[k]

\* Every list has them.
LEMMA SumsExist ==
    ASSUME NEW N \in Nat, NEW x \in [1..N -> Int]
    PROVE  \E A : Sums(N, x, A)
  <1> DEFINE P == {m \in 0..N : \E A : Sums(m, x, A)}
  <1>1. 0 \in P
    <2>1. Sums(0, x, [k \in 0..0 |-> 0])
      BY DEF Sums
    <2> QED BY <2>1
  <1>2. ASSUME NEW m \in P, m < N PROVE m + 1 \in P
    <2>1. PICK A : Sums(m, x, A)
      OBVIOUS
    <2> DEFINE B == [k \in 0..(m + 1) |-> IF k = m + 1 THEN A[m] + x[m + 1] ELSE A[k]]
    <2>2. m \in Nat /\ x[m + 1] \in Int /\ A[m] \in Int
      BY <1>2, <2>1 DEF Sums
    <2>3. /\ A \in [0..m -> Int] /\ A[0] = 0 /\ \A k \in 1..m : A[k] = A[k - 1] + x[k]
      BY <2>1 DEF Sums
    <2>4. /\ B[m + 1] = A[m] + x[m + 1] /\ \A k \in 0..m : B[k] = A[k]
      BY <2>2
    <2>5. B \in [0..(m + 1) -> Int]
      BY <2>2, <2>3
    <2> HIDE DEF B
    <2>6. ASSUME NEW k \in 1..(m + 1) PROVE B[k] = B[k - 1] + x[k]
      <3>1. CASE k = m + 1
        <4>1. k - 1 = m /\ m \in 0..m
          BY <2>2, <3>1
        <4> QED BY <2>4, <3>1, <4>1
      <3>2. CASE k # m + 1
        <4>1. k \in 1..m /\ k \in 0..m /\ k - 1 \in 0..m
          BY <2>2, <3>2
        <4> QED BY <2>3, <2>4, <4>1
      <3> QED BY <3>1, <3>2
    <2>7. B[0] = 0
      BY <2>2, <2>3, <2>4
    <2>8. Sums(m + 1, x, B)
      BY <2>5, <2>6, <2>7 DEF Sums
    <2> QED BY <1>2, <2>2, <2>8
  <1>3. P \in SUBSET (0..N)
    OBVIOUS
  <1> HIDE DEF P
  <1>4. P = 0..N
    BY <1>1, <1>2, <1>3, UpToBound
  <1>5. N \in P
    BY <1>4
  <1> QED BY <1>5 DEF P

\* A function on an interval is a sequence of its length.
LEMMA SequenceLength ==
    ASSUME NEW N \in Nat, NEW T, NEW x \in [1..N -> T]
    PROVE  Len(x) = N
  <1>1. x \in Seq(T) /\ DOMAIN x = 1..N
    OBVIOUS
  <1> QED BY <1>1

\* The equations of a running sum.
Adds(N, x, start, h) ==
    /\ h \in [0..N -> Int] /\ h[0] = start
    /\ \A k \in 1..N : h[k] = h[k - 1] + x[k]

\* A running sum is what satisfies its equations.
LEMMA RunningIs ==
    ASSUME NEW N \in Nat, NEW x \in [1..N -> Int], NEW start \in Int,
           NEW h, Adds(N, x, start, h)
    PROVE  \A k \in 0..N : Running(start, x)[k] = h[k]
  <1> DEFINE R == Running(start, x)
             P == {k \in 0..N : R[k] = h[k]}
  <1>1. h = [k \in 0..N |-> IF k = 0 THEN start ELSE h[k - 1] + x[k]]
    BY DEF Adds
  <1>2. R = CHOOSE f : f = [k \in 0..N |-> IF k = 0 THEN start ELSE f[k - 1] + x[k]]
    <2>1. Len(x) = N
      BY SequenceLength
    <2> QED BY <2>1 DEF Running
  <1> HIDE DEF R
  <1>3. R = [k \in 0..N |-> IF k = 0 THEN start ELSE R[k - 1] + x[k]]
    BY <1>1, <1>2
  <1>4. 0 \in P
    BY <1>3 DEF Adds
  <1>5. ASSUME NEW k \in P, k < N PROVE k + 1 \in P
    <2>1. k \in Nat /\ k + 1 \in 1..N /\ k + 1 \in 0..N /\ k + 1 # 0 /\ (k + 1) - 1 = k
      BY <1>5
    <2>2. R[k + 1] = R[k] + x[k + 1]
      BY <1>3, <2>1
    <2>3. h[k + 1] = h[k] + x[k + 1]
      BY <2>1 DEF Adds
    <2> QED BY <2>1, <2>2, <2>3
  <1>6. P \in SUBSET (0..N)
    OBVIOUS
  <1> HIDE DEF P
  <1>7. P = 0..N
    BY <1>4, <1>5, <1>6, UpToBound
  <1> QED BY <1>7 DEF P, R


\* The events of a forecast: those after the first lo of all and up to the first
\* hi of them, where all have the dates dd and the amounts x.
PartOf(events, lo, hi, n, dd, x) ==
    /\ n \in Nat /\ lo \in 0..n /\ hi \in lo..n
    /\ dd \in [1..n -> Int] /\ x \in [1..n -> Int]
    /\ Len(events) = hi - lo
    /\ \A m \in 1..(hi - lo) : /\ events[m].date = dd[lo + m]
                               /\ events[m].amount = x[lo + m]

\* The amounts y are those of x after the first u and up to the first v of all.
Selects(N, lo, u, v, x, y) ==
    /\ y \in [1..N -> Int]
    /\ \A m \in 1..N : (u < lo + m /\ lo + m <= v) => y[m] = x[lo + m]
    /\ \A m \in 1..N : ~(u < lo + m /\ lo + m <= v) => y[m] = 0

\* Their running sum.
Summed(N, lo, u, v, A, y, start) ==
    \A m \in 0..N :
        /\ lo + m <= u => Running(start, y)[m] = start
        /\ (u <= lo + m /\ lo + m <= v) => Running(start, y)[m] = start + A[lo + m] - A[u]
        /\ lo + m >= v => Running(start, y)[m] = start + A[v] - A[u]

\* What is summed between two positions is a difference of sums.
LEMMA SumBetween ==
    ASSUME NEW n \in Nat, NEW x \in [1..n -> Int], NEW A, Sums(n, x, A),
           NEW lo \in Nat, NEW N \in Nat, lo + N <= n,
           NEW u \in Nat, NEW v \in Nat, lo <= u, u <= v, v <= lo + N,
           NEW y, Selects(N, lo, u, v, x, y), NEW start \in Int
    PROVE  Summed(N, lo, u, v, A, y, start)
  <1> DEFINE w == [m \in 0..N |-> IF lo + m <= u THEN u ELSE IF lo + m > v THEN v ELSE lo + m]
             h == [m \in 0..N |-> start + A[w[m]] - A[u]]
  <1>1. /\ A \in [0..n -> Int] /\ \A k \in 1..n : A[k] = A[k - 1] + x[k]
    BY DEF Sums
  <1>2. u \in 0..n /\ v \in 0..n /\ A[u] \in Int /\ A[v] \in Int
    BY <1>1
  <1>3. ASSUME NEW m \in 0..N
        PROVE  /\ w[m] \in 0..n
               /\ lo + m <= u => w[m] = u
               /\ (u <= lo + m /\ lo + m <= v) => w[m] = lo + m
               /\ lo + m >= v => w[m] = v
    BY <1>2
  <1> HIDE DEF w
  <1>4. ASSUME NEW m \in 0..N PROVE h[m] = start + A[w[m]] - A[u] /\ h[m] \in Int
    <2>1. A[w[m]] \in Int
      BY <1>1, <1>3
    <2> QED BY <1>2, <2>1
  <1>5. h \in [0..N -> Int]
    BY <1>4
  <1> HIDE DEF h
  <1>6. h[0] = start
    <2>1. 0 \in 0..N /\ w[0] = u
      BY <1>3
    <2> QED BY <1>2, <1>4, <2>1
  <1>7. ASSUME NEW m \in 1..N PROVE h[m] = h[m - 1] + y[m]
    <2> DEFINE k == lo + m
    <2>1. /\ m \in 0..N /\ m - 1 \in 0..N /\ k \in 1..n /\ lo + (m - 1) = k - 1
          /\ k \in Int /\ k - 1 \in 0..n
      OBVIOUS
    <2>2. h[m] = start + A[w[m]] - A[u] /\ h[m - 1] = start + A[w[m - 1]] - A[u]
      BY <1>4, <2>1
    <2>3. /\ A[k] \in Int /\ A[k - 1] \in Int /\ A[k] = A[k - 1] + x[k] /\ x[k] \in Int
      BY <1>1, <2>1
    <2>4. /\ (u < k /\ k <= v) => y[m] = x[k]
          /\ ~(u < k /\ k <= v) => y[m] = 0
      BY DEF Selects
    <2>6. /\ k <= u => w[m] = u
          /\ (u <= k /\ k <= v) => w[m] = k
          /\ k >= v => w[m] = v
      BY <1>3, <2>1
    <2>7. /\ k - 1 <= u => w[m - 1] = u
          /\ (u <= k - 1 /\ k - 1 <= v) => w[m - 1] = k - 1
          /\ k - 1 >= v => w[m - 1] = v
      BY <1>3, <2>1
    <2> HIDE DEF k
    <2>8. CASE k <= u
      <3>1. w[m] = u /\ w[m - 1] = u /\ y[m] = 0
        BY <2>1, <2>4, <2>6, <2>7, <2>8
      <3> QED BY <1>2, <2>2, <3>1
    <2>9. CASE u < k /\ k <= v
      <3>1. w[m] = k /\ w[m - 1] = k - 1 /\ y[m] = x[k]
        BY <2>1, <2>4, <2>6, <2>7, <2>9
      <3>2. h[m] = start + A[k] - A[u] /\ h[m - 1] = start + A[k - 1] - A[u]
        BY <2>2, <3>1
      <3>3. start + A[k] - A[u] = (start + A[k - 1] - A[u]) + x[k]
        BY <1>2, <2>3
      <3> QED BY <3>1, <3>2, <3>3
    <2>10. CASE k > v
      <3>1. w[m] = v /\ w[m - 1] = v /\ y[m] = 0
        BY <2>1, <2>4, <2>6, <2>7, <2>10
      <3> QED BY <1>2, <2>2, <3>1
    <2> QED BY <2>1, <2>8, <2>9, <2>10
  <1>8. y \in [1..N -> Int]
    BY DEF Selects
  <1>9. \A m \in 0..N : Running(start, y)[m] = h[m]
    <2>1. Adds(N, y, start, h)
      BY <1>5, <1>6, <1>7 DEF Adds
    <2> HIDE DEF h, w
    <2> QED BY ONLY N \in Nat, start \in Int, <1>8, <2>1, RunningIs
  <1>10. ASSUME NEW m \in 0..N
         PROVE  /\ lo + m <= u => Running(start, y)[m] = start
                /\ (u <= lo + m /\ lo + m <= v)
                      => Running(start, y)[m] = start + A[lo + m] - A[u]
                /\ lo + m >= v => Running(start, y)[m] = start + A[v] - A[u]
    <2>1. Running(start, y)[m] = start + A[w[m]] - A[u]
      BY <1>4, <1>9
    <2> QED BY <1>2, <1>3, <2>1
  <1> QED BY <1>10 DEF Summed

\* The total of the events between two days is a difference of sums.
LEMMA TotalIs ==
    ASSUME NEW events, NEW lo, NEW hi, NEW n, NEW dd, NEW x,
           PartOf(events, lo, hi, n, dd, x), NEW A, Sums(n, x, A),
           NEW first \in Int, NEW last \in Int, NEW u \in Nat, NEW v \in Nat,
           lo <= u, u <= v, v <= hi,
           \A k \in 1..n : (first <= dd[k] /\ dd[k] <= last) <=> (u < k /\ k <= v)
    PROVE  Total(events, first, last) = A[v] - A[u]
  <1> DEFINE N == hi - lo
             y == [m \in 1..N |-> IF first <= events[m].date /\ events[m].date <= last
                                  THEN events[m].amount ELSE 0]
  <1>1. /\ n \in Nat /\ lo \in Nat /\ hi \in Nat /\ lo <= hi /\ hi <= n /\ N \in Nat
        /\ lo + N = hi
        /\ x \in [1..n -> Int] /\ Len(events) = N
    BY DEF PartOf
  <1>2. ASSUME NEW m \in 1..N
        PROVE  /\ lo + m \in 1..n /\ x[lo + m] \in Int
               /\ (u < lo + m /\ lo + m <= v) => y[m] = x[lo + m]
               /\ ~(u < lo + m /\ lo + m <= v) => y[m] = 0
    <2>1. lo + m \in 1..n
      BY <1>1
    <2>2. events[m].date = dd[lo + m] /\ events[m].amount = x[lo + m]
      BY DEF PartOf
    <2>3. (first <= dd[lo + m] /\ dd[lo + m] <= last) <=> (u < lo + m /\ lo + m <= v)
      BY <2>1
    <2> QED BY <1>1, <2>1, <2>2, <2>3
  <1>3. Total(events, first, last) = Running(0, y)[N]
    BY <1>1 DEF Total
  <1>4. y \in [1..N -> Int]
    <2>1. \A m \in 1..N : y[m] \in Int
      BY <1>2
    <2> QED BY <2>1
  <1> HIDE DEF y, N
  <1>5. lo + N >= v => Running(0, y)[N] = 0 + A[v] - A[u]
    <2>1. N \in 0..N /\ 0 \in Int /\ lo + N <= n /\ v <= lo + N
      BY <1>1
    <2>2. Selects(N, lo, u, v, x, y)
      BY <1>2, <1>4 DEF Selects
    <2>3. Summed(N, lo, u, v, A, y, 0)
      BY <1>1, <2>1, <2>2, SumBetween
    <2> QED BY <2>1, <2>3 DEF Summed
  <1>6. A[v] \in Int /\ A[u] \in Int
    <2>1. u \in 0..n /\ v \in 0..n
      BY <1>1
    <2> QED BY <2>1 DEF Sums
  <1> QED BY <1>1, <1>3, <1>5, <1>6


\* The amounts taken back, from the last on, and their sums.
Taken(n, x) == [k \in 1..n |-> -x[n + 1 - k]]
TakenSums(n, A) == [k \in 0..n |-> A[n - k] - A[n]]

\* What is taken back adds up as well.
LEMMA SumsBack ==
    ASSUME NEW n \in Nat, NEW x \in [1..n -> Int], NEW A, Sums(n, x, A)
    PROVE  Taken(n, x) \in [1..n -> Int] /\ Sums(n, Taken(n, x), TakenSums(n, A))
  <1> DEFINE z == Taken(n, x)
             B == TakenSums(n, A)
  <1>1. /\ A \in [0..n -> Int] /\ \A k \in 1..n : A[k] = A[k - 1] + x[k]
    BY DEF Sums
  <1>2. n \in 0..n /\ A[n] \in Int
    BY <1>1
  <1>3. ASSUME NEW k \in 0..n PROVE B[k] = A[n - k] - A[n] /\ A[n - k] \in Int
    <2>1. n - k \in 0..n
      OBVIOUS
    <2> QED BY <1>1, <2>1 DEF TakenSums
  <1>4. ASSUME NEW k \in 1..n
        PROVE  /\ z[k] = -x[n + 1 - k] /\ x[n + 1 - k] \in Int
               /\ A[n + 1 - k] = A[n - k] + x[n + 1 - k]
    <2>1. n + 1 - k \in 1..n /\ (n + 1 - k) - 1 = n - k
      OBVIOUS
    <2> QED BY <1>1, <2>1 DEF Taken
  <1>5. z \in [1..n -> Int]
    BY <1>4 DEF Taken
  <1>6. B \in [0..n -> Int]
    BY <1>2, <1>3 DEF TakenSums
  <1> HIDE DEF z, B
  <1>7. B[0] = 0
    <2>1. 0 \in 0..n /\ n - 0 = n
      OBVIOUS
    <2> QED BY <1>2, <1>3, <2>1
  <1>8. ASSUME NEW k \in 1..n PROVE B[k] = B[k - 1] + z[k]
    <2>1. k \in 0..n /\ k - 1 \in 0..n /\ n - (k - 1) = n + 1 - k
      OBVIOUS
    <2>2. B[k] = A[n - k] - A[n] /\ A[n - k] \in Int
      BY <1>3, <2>1
    <2>3. B[k - 1] = A[n + 1 - k] - A[n]
      BY <1>3, <2>1
    <2>4. A[n - k] - A[n] = (A[n + 1 - k] - A[n]) + (-x[n + 1 - k])
      BY <1>2, <1>4, <2>2
    <2> QED BY <1>4, <2>2, <2>3, <2>4
  <1>9. Sums(n, z, B)
    BY <1>5, <1>6, <1>7, <1>8 DEF Sums
  <1> QED BY <1>5, <1>9 DEF z, B

\* The balance after an event is the start and the sum from the anchor to it.
LEMMA BalancesAre ==
    ASSUME NEW events, NEW lo, NEW hi, NEW n, NEW dd, NEW x,
           PartOf(events, lo, hi, n, dd, x), NEW A, Sums(n, x, A),
           NEW start \in Int, NEW anchor \in Int, NEW c \in Nat, lo <= c, c <= hi,
           \A k \in 1..n : dd[k] <= anchor <=> k <= c
    PROVE  \A m \in 1..(hi - lo) :
              Balances(start, anchor, events)[m] = start + A[lo + m] - A[c]
  <1> DEFINE N == hi - lo
             future == [m \in 1..N |-> IF events[m].date > anchor
                                       THEN events[m].amount ELSE 0]
             past == [m \in 1..N |-> LET e == events[N + 1 - m]
                                     IN  IF e.date <= anchor THEN -e.amount ELSE 0]
             z == Taken(n, x)
             B == TakenSums(n, A)
  <1>1. /\ n \in Nat /\ lo \in Nat /\ hi \in Nat /\ lo <= hi /\ hi <= n /\ N \in Nat
        /\ lo + N = hi /\ Len(events) = N
        /\ x \in [1..n -> Int] /\ dd \in [1..n -> Int]
    BY DEF PartOf
  <1>2. A \in [0..n -> Int] /\ A[c] \in Int /\ A[n] \in Int
    <2>1. A \in [0..n -> Int]
      BY DEF Sums
    <2> QED BY <1>1, <2>1
  <1>3. ASSUME NEW m \in 1..N
        PROVE  /\ lo + m \in 1..n /\ x[lo + m] \in Int /\ events[m].amount = x[lo + m]
               /\ events[m].date > anchor <=> c < lo + m
               /\ events[m].date <= anchor <=> lo + m <= c
    <2>1. lo + m \in 1..n /\ lo + m \in Int
      BY <1>1
    <2>2. events[m].date = dd[lo + m] /\ events[m].amount = x[lo + m]
      BY DEF PartOf
    <2>3. dd[lo + m] <= anchor <=> lo + m <= c
      BY <2>1
    <2>4. dd[lo + m] \in Int /\ x[lo + m] \in Int
      BY <1>1, <2>1
    <2> QED BY <2>1, <2>2, <2>3, <2>4
  <1>4. \A m \in 1..N : Balances(start, anchor, events)[m]
            = IF events[m].date > anchor THEN Running(start, future)[m]
                                         ELSE Running(start, past)[N - m]
    BY <1>1 DEF Balances
  <1>5. Selects(N, lo, c, hi, x, future)
    <2>1. ASSUME NEW m \in 1..N
          PROVE  /\ future[m] \in Int
                 /\ (c < lo + m /\ lo + m <= hi) => future[m] = x[lo + m]
                 /\ ~(c < lo + m /\ lo + m <= hi) => future[m] = 0
      <3>1. lo + m <= hi
        BY <1>1
      <3> QED BY <1>3, <3>1
    <2>2. future \in [1..N -> Int]
      BY <2>1
    <2> HIDE DEF future
    <2> QED BY <2>1, <2>2 DEF Selects
  <1>6. z \in [1..n -> Int] /\ Sums(n, z, B)
    BY <1>1, SumsBack
  <1>7. Selects(N, n - hi, n - c, n - lo, z, past)
    <2>1. ASSUME NEW m \in 1..N
          PROVE  /\ past[m] \in Int
                 /\ (n - c < (n - hi) + m /\ (n - hi) + m <= n - lo)
                       => past[m] = z[(n - hi) + m]
                 /\ ~(n - c < (n - hi) + m /\ (n - hi) + m <= n - lo) => past[m] = 0
      <3>1. N + 1 - m \in 1..N /\ lo + (N + 1 - m) = hi + 1 - m
        BY <1>1
      <3>2. /\ hi + 1 - m \in 1..n /\ x[hi + 1 - m] \in Int
            /\ events[N + 1 - m].amount = x[hi + 1 - m]
            /\ events[N + 1 - m].date <= anchor <=> hi + 1 - m <= c
        BY <1>3, <3>1
      <3>3. (n - hi) + m \in 1..n /\ n + 1 - ((n - hi) + m) = hi + 1 - m
        BY <1>1
      <3>4. z[(n - hi) + m] = -x[hi + 1 - m]
        BY <3>3 DEF Taken
      <3>5. /\ (hi + 1 - m <= c) <=> (n - c < (n - hi) + m)
            /\ (n - hi) + m <= n - lo
        BY <1>1
      <3>6. past[m] = IF hi + 1 - m <= c THEN -x[hi + 1 - m] ELSE 0
        BY <3>2
      <3> HIDE DEF past, z
      <3> QED BY <3>2, <3>4, <3>5, <3>6
    <2>2. past \in [1..N -> Int]
      BY <2>1
    <2> HIDE DEF past, z
    <2> QED BY <2>1, <2>2 DEF Selects
  <1> HIDE DEF N, future, past, z
  <1>8. ASSUME NEW m \in 0..N, c <= lo + m
        PROVE  Running(start, future)[m] = start + A[lo + m] - A[c]
    <2>1. lo + N <= n /\ hi <= lo + N /\ lo + m <= hi
      BY <1>1
    <2>2. Summed(N, lo, c, hi, A, future, start)
      BY <1>1, <1>5, <2>1, SumBetween
    <2> QED BY <1>8, <2>1, <2>2 DEF Summed
  <1>9. ASSUME NEW m \in 0..N, lo + m <= c
        PROVE  Running(start, past)[N - m] = start + A[lo + m] - A[c]
    <2> DEFINE p == n - hi
               u == n - c
               v == n - lo
    <2>1. /\ p \in Nat /\ u \in Nat /\ v \in Nat /\ p + N <= n
          /\ p <= u /\ u <= v /\ v <= p + N
      BY <1>1
    <2>2. Selects(N, p, u, v, z, past)
      BY <1>7
    <2>3. /\ N - m \in 0..N /\ p + (N - m) = n - (lo + m)
          /\ u <= p + (N - m) /\ p + (N - m) <= v
          /\ n - (lo + m) \in 0..n /\ u \in 0..n /\ n - u = c
          /\ n - (n - (lo + m)) = lo + m
      BY <1>1, <1>9
    <2>4. B[n - (lo + m)] = A[lo + m] - A[n] /\ B[u] = A[c] - A[n]
      BY <2>3 DEF TakenSums
    <2> HIDE DEF p, u, v, B
    <2>5. Summed(N, p, u, v, B, past, start)
      BY <1>1, <1>6, <2>1, <2>2, SumBetween
    <2>6. Running(start, past)[N - m] = start + B[n - (lo + m)] - B[u]
      BY <2>3, <2>5 DEF Summed
    <2>7. A[lo + m] \in Int
      BY <1>1, <1>2, <1>9
    <2> QED BY <1>2, <2>4, <2>6, <2>7
  <1>10. ASSUME NEW m \in 1..N
         PROVE  Balances(start, anchor, events)[m] = start + A[lo + m] - A[c]
    <2>1. m \in 0..N /\ lo + m \in Int
      BY <1>1
    <2>2. CASE c < lo + m
      BY <1>3, <1>4, <1>8, <2>1, <2>2
    <2>3. CASE lo + m <= c
      <3>1. ~(events[m].date > anchor)
        BY <1>3, <2>1, <2>3
      <3>2. Balances(start, anchor, events)[m] = Running(start, past)[N - m]
        BY <1>4, <3>1
      <3> QED BY <1>9, <2>1, <2>3, <3>2
    <2> QED BY <2>1, <2>2, <2>3
  <1> QED BY <1>10 DEF N


-----------------------------------------------------------------------------
(* Forecasts: what the queries return.                                     *)

\* A table of events: its rows are numbered, and each has a date and an amount.
IsStore(store) ==
    /\ IsFiniteSet(DOMAIN store) /\ DOMAIN store \in SUBSET Int
    /\ \A i \in DOMAIN store : /\ effective_date(store[i]) \in Int
                               /\ effective_amount(store[i]) \in Int

\* The days of the rows of some streams that count, and the amount of a row.
EventDates(store, streams) ==
    [i \in {i \in DOMAIN store : /\ store[i].active /\ ~store[i].excluded
                                 /\ store[i].stream \in streams} |->
        effective_date(store[i])]
AmountOf(store, i) == signed(store[i].direction, effective_amount(store[i]))
EventRow(store, i) ==
    [id |-> i, date |-> effective_date(store[i]), amount |-> AmountOf(store, i)]

\* They are dated, and every amount is a number.
LEMMA StoreDated ==
    ASSUME NEW store, IsStore(store), NEW streams, NEW D, D = EventDates(store, streams)
    PROVE  Dated(D) /\ \A i \in DOMAIN D : AmountOf(store, i) \in Int
  <1> DEFINE E == {i \in DOMAIN store : /\ store[i].active /\ ~store[i].excluded
                                        /\ store[i].stream \in streams}
  <1>1. DOMAIN D = E /\ E \in SUBSET DOMAIN store /\ IsFiniteSet(DOMAIN store)
        /\ DOMAIN store \in SUBSET Int
    BY DEF EventDates, IsStore
  <1>2. D \in [E -> Int]
    BY DEF EventDates, IsStore
  <1>3. \A i \in E : effective_amount(store[i]) \in Int
    BY <1>1 DEF IsStore
  <1> HIDE DEF E
  <1>4. IsFiniteSet(E)
    BY <1>1, FS_Subset
  <1>5. Dated(D)
    BY <1>1, <1>2, <1>4 DEF Dated
  <1>6. ASSUME NEW i \in E PROVE AmountOf(store, i) \in Int
    BY <1>3 DEF AmountOf, signed, abs
  <1> QED BY <1>1, <1>5, <1>6

\* The rows that forecast_events returns are listed in their order.
LEMMA EventsListed ==
    ASSUME NEW store, IsStore(store), NEW streams, NEW D, D = EventDates(store, streams),
           NEW first \in Int, NEW last \in Int, NEW S, S = Between(D, first, last)
    PROVE  \E s : /\ Listing(D, S, s)
                  /\ forecast_events(store, streams, first, last)
                        = [m \in 1..Cardinality(S) |-> EventRow(store, s[m])]
  <1> DEFINE ids == {i \in DOMAIN store :
                        /\ store[i].active /\ ~store[i].excluded
                        /\ store[i].stream \in streams
                        /\ InRange(store[i], first, last)}
             s == InOrder(ids, LAMBDA i, j : Before(store, i, j))
             c == Cardinality(S)
  <1>1. Dated(D)
    BY StoreDated
  <1>2. S \in SUBSET DOMAIN D /\ \A i \in DOMAIN D : D[i] = effective_date(store[i])
    BY DEF Between, EventDates
  <1>3. ids = S
    BY DEF Between, EventDates, InRange, IsStore
  <1>4. \A i, j \in S : Before(store, i, j) <=> Sooner(D, i, j)
    BY <1>2 DEF Before, Sooner
  <1>5. s = CHOOSE t \in [1..c -> S] : \A m, n \in 1..c : m < n => Before(store, t[m], t[n])
    BY <1>3 DEF InOrder
  <1>6. forecast_events(store, streams, first, last)
           = [m \in DOMAIN s |-> EventRow(store, s[m])]
    BY DEF forecast_events, EventRow, AmountOf
  <1> HIDE DEF ids, s, c
  <1>7. \E t \in [1..c -> S] : \A m, n \in 1..c : m < n => Before(store, t[m], t[n])
    <2>1. PICK t \in [1..c -> S] : \A m, n \in 1..c : m < n => Sooner(D, t[m], t[n])
      BY <1>1, <1>2, OrderExists DEF c
    <2>2. \A m, n \in 1..c : m < n => Before(store, t[m], t[n])
      BY <1>4, <2>1
    <2> QED BY <2>2
  <1>8. s \in [1..c -> S] /\ \A m, n \in 1..c : m < n => Before(store, s[m], s[n])
    BY <1>5, <1>7
  <1>9. \A m, n \in 1..c : m < n => Sooner(D, s[m], s[n])
    BY <1>4, <1>8
  <1>10. Listing(D, S, s)
    BY <1>1, <1>2, <1>8, <1>9, ListedByRank DEF c
  <1>11. DOMAIN s = 1..c
    BY <1>8
  <1> QED BY <1>6, <1>10, <1>11 DEF c

\* The days and amounts of all the events in order.
DaysOf(D, g) == [k \in 1..Cardinality(DOMAIN D) |-> D[g[k]]]
AmountsOf(store, D, g) == [k \in 1..Cardinality(DOMAIN D) |-> AmountOf(store, g[k])]

\* What forecast_events returns is a part of all the events in order.
LEMMA EventsArePart ==
    ASSUME NEW store, IsStore(store), NEW streams, NEW D, D = EventDates(store, streams),
           NEW g, Listing(D, DOMAIN D, g), NEW first \in Int, NEW last \in Int, first <= last + 1,
           NEW lo, lo = Cut(D, first - 1), NEW hi, hi = Cut(D, last),
           NEW events, events = forecast_events(store, streams, first, last)
    PROVE  /\ PartOf(events, lo, hi, Cardinality(DOMAIN D), DaysOf(D, g), AmountsOf(store, D, g))
           /\ \A m \in 1..(hi - lo) : events[m].id = g[lo + m]
  <1> DEFINE S == Between(D, first, last)
             n == Cardinality(DOMAIN D)
             dd == DaysOf(D, g)
             x == AmountsOf(store, D, g)
  <1>1. Dated(D) /\ \A i \in DOMAIN D : AmountOf(store, i) \in Int /\ D[i] = effective_date(store[i])
    BY StoreDated DEF EventDates
  <1>2. PICK s : /\ Listing(D, S, s)
                 /\ events = [m \in 1..Cardinality(S) |-> EventRow(store, s[m])]
    <2> HIDE DEF S
    <2>1. S = Between(D, first, last)
      BY DEF S
    <2>2. \E s : /\ Listing(D, S, s)
                 /\ forecast_events(store, streams, first, last)
                       = [m \in 1..Cardinality(S) |-> EventRow(store, s[m])]
      BY <2>1, EventsListed
    <2> QED BY <2>2
  <1> HIDE DEF S, n
  <1>3. /\ n \in Nat /\ lo \in 0..n /\ hi \in lo..n /\ Cardinality(S) = hi - lo
        /\ s \in [1..(hi - lo) -> S]
        /\ \A m \in 1..(hi - lo) : lo + m \in 1..n /\ s[m] = g[lo + m]
    BY <1>1, <1>2, SliceOfList DEF S, n
  <1>4. \A k \in 1..n : g[k] \in DOMAIN D /\ D[g[k]] \in Int
    BY <1>1 DEF n, Listing, Dated
  <1>5. /\ \A k \in 1..n : dd[k] = D[g[k]] /\ x[k] = AmountOf(store, g[k])
        /\ dd \in [1..n -> Int] /\ x \in [1..n -> Int]
    BY <1>1, <1>4 DEF DaysOf, AmountsOf, n
  <1> HIDE DEF dd, x
  <1>6. \A m \in 1..(hi - lo) : events[m] = EventRow(store, s[m])
    BY <1>2, <1>3
  <1>7. Len(events) = hi - lo
    <2>1. hi - lo \in Nat
      BY <1>3
    <2>2. events \in [1..(hi - lo) -> {EventRow(store, i) : i \in S}]
      BY <1>2, <1>3
    <2> QED BY <2>1, <2>2, SequenceLength
  <1>8. ASSUME NEW m \in 1..(hi - lo)
        PROVE  /\ events[m].date = dd[lo + m] /\ events[m].amount = x[lo + m]
               /\ events[m].id = g[lo + m]
    <2>1. lo + m \in 1..n /\ s[m] = g[lo + m]
      BY <1>3
    <2>2. /\ events[m].id = g[lo + m] /\ events[m].date = effective_date(store[g[lo + m]])
          /\ events[m].amount = AmountOf(store, g[lo + m])
      <3>1. events[m] = EventRow(store, g[lo + m])
        BY <1>6, <2>1
      <3> DEFINE i == g[lo + m]
      <3> HIDE DEF i
      <3>2. EventRow(store, i).id = i /\ EventRow(store, i).date = effective_date(store[i])
            /\ EventRow(store, i).amount = AmountOf(store, i)
        BY DEF EventRow
      <3> QED BY <3>1, <3>2 DEF i
    <2> QED BY <1>1, <1>4, <1>5, <2>1, <2>2
  <1>9. PartOf(events, lo, hi, n, dd, x)
    BY <1>3, <1>5, <1>7, <1>8 DEF PartOf
  <1> QED BY <1>8, <1>9 DEF n, dd, x


\* The places of the events of a window.
WindowOf(events, from, through) ==
    {k \in 1..Len(events) : from <= events[k].date /\ events[k].date <= through}

\* The rows of a window: those of the events of its days.
LEMMA ShownAre ==
    ASSUME NEW events, NEW lo, NEW hi, NEW n, NEW dd, NEW x,
           PartOf(events, lo, hi, n, dd, x), NEW from \in Int, NEW through \in Int,
           NEW p \in Nat, NEW q \in Nat, lo <= p, p <= q, q <= hi,
           \A k \in 1..n : (from <= dd[k] /\ dd[k] <= through) <=> (p < k /\ k <= q),
           NEW shown, shown = Ascending(WindowOf(events, from, through))
    PROVE  DOMAIN shown = 1..(q - p) /\ \A m \in 1..(q - p) : shown[m] = (p - lo) + m
  <1> DEFINE a == p - lo
             b == q - lo
             S == {k \in 1..Len(events) : from <= events[k].date /\ events[k].date <= through}
             I == 1..(b - a)
  <1>1. /\ n \in Nat /\ lo \in Nat /\ hi \in Nat /\ lo <= hi /\ hi <= n
        /\ Len(events) = hi - lo
        /\ a \in Int /\ b \in Int /\ a \in Nat /\ a <= b /\ b - a = q - p /\ b <= hi - lo
    BY DEF PartOf
  <1>2. \A m \in 1..(hi - lo) : /\ events[m].date = dd[lo + m] /\ lo + m \in 1..n
                                /\ lo + m \in Int
    BY <1>1 DEF PartOf
  <1>3. S = (a + 1)..b
    <2>1. \A m \in 1..(hi - lo) : (from <= events[m].date /\ events[m].date <= through)
                                     <=> (p < lo + m /\ lo + m <= q)
      BY <1>2
    <2>2. \A m \in 1..(hi - lo) : (p < lo + m /\ lo + m <= q) <=> m \in (a + 1)..b
      BY <1>1
    <2>3. (a + 1)..b \subseteq 1..(hi - lo)
      BY <1>1
    <2> QED BY <1>1, <2>1, <2>2, <2>3
  <1>4. Cardinality(S) = b - a
    <2> HIDE DEF S, a, b
    <2>1. a + 1 \in Int /\ b \in Int
      BY <1>1
    <2>2. Cardinality((a + 1)..b) = IF a + 1 > b THEN 0 ELSE b - (a + 1) + 1
      BY <2>1, FS_Interval
    <2> QED BY <1>1, <1>3, <2>2
  <1>5. shown = CHOOSE t \in [I -> S] : \A k, m \in I : k < m => t[k] < t[m]
    BY <1>4 DEF Ascending, InOrder, WindowOf
  <1> DEFINE r == [m \in I |-> a + m]
  <1>6. r \in [I -> S] /\ \A k, m \in I : k < m => r[k] < r[m]
    BY <1>1, <1>3
  <1> HIDE DEF S, r, I
  <1>7. shown \in [I -> S] /\ \A k, m \in I : k < m => shown[k] < shown[m]
    BY <1>5, <1>6
  <1> HIDE DEF a, b
  <1>8. \A m \in 1..(b - a) : shown[m] = a + m
    <2>1. shown \in [1..(b - a) -> (a + 1)..b]
      BY <1>3, <1>7 DEF I
    <2>2. \A k, m \in 1..(b - a) : k < m => shown[k] < shown[m]
      BY <1>7 DEF I
    <2> QED BY <1>1, <2>1, <2>2, NumbersInOrder
  <1>9. DOMAIN shown = 1..(b - a)
    BY <1>7 DEF I
  <1> QED BY <1>1, <1>8, <1>9 DEF a

\* A forecast in terms of the sums A of all the events in order, g: the balance
\* that is on record is moved by what lies between its day and another.
BalanceAfter(cash, A, D, k) == cash.balance + A[k] - A[Cut(D, cash.date)]
ForecastRow(store, cash, g, A, D, k) ==
    [id |-> g[k], date |-> D[g[k]], amount |-> AmountOf(store, g[k]),
     balance |-> BalanceAfter(cash, A, D, k)]
ForecastFrom(store, cash, g, A, D, from, through) ==
    [opening |-> BalanceAfter(cash, A, D, Cut(D, from - 1)),
     rows |-> [m \in 1..(Cut(D, through) - Cut(D, from - 1)) |->
                 ForecastRow(store, cash, g, A, D, Cut(D, from - 1) + m)],
     ending |-> BalanceAfter(cash, A, D, Cut(D, through))]

\* What compute_forecast returns.
LEMMA ForecastIs ==
    ASSUME NEW store, IsStore(store), NEW streams, NEW D, D = EventDates(store, streams),
           NEW g, Listing(D, DOMAIN D, g),
           NEW A, Sums(Cardinality(DOMAIN D), AmountsOf(store, D, g), A),
           NEW cash \in [balance : Int, date : Int],
           NEW from \in Int, NEW through \in Int, from <= through
    PROVE  compute_forecast(store, streams, cash, from, through)
              = ForecastFrom(store, cash, g, A, D, from, through)
  <1> DEFINE bal == cash.balance
             anchor == cash.date
             first == IF anchor < from THEN anchor ELSE from
             last == IF anchor > through THEN anchor ELSE through
             n == Cardinality(DOMAIN D)
             dd == DaysOf(D, g)
             x == AmountsOf(store, D, g)
             lo == Cut(D, first - 1)
             hi == Cut(D, last)
             c == Cut(D, anchor)
             p == Cut(D, from - 1)
             q == Cut(D, through)
             events == forecast_events(store, streams, first, last)
             balances == Balances(bal, anchor, events)
             row == [k \in 1..Len(events) |->
                       [id |-> events[k].id, date |-> events[k].date,
                        amount |-> events[k].amount, balance |-> balances[k]]]
             shown == Ascending({k \in 1..Len(events) : /\ from <= events[k].date
                                                        /\ events[k].date <= through})
  <1>1. bal \in Int /\ anchor \in Int
    OBVIOUS
  <1>2. compute_forecast(store, streams, cash, from, through)
           = [opening |-> balance_before(bal, anchor, from, events),
              rows |-> [m \in DOMAIN shown |-> row[shown[m]]],
              ending |-> balance_at(bal, anchor, through, events)]
    <2>1. Envelope(cash.date, from, through)[1] = first
          /\ Envelope(cash.date, from, through)[2] = last
      BY DEF Envelope
    <2> HIDE DEF first, last
    <2> QED BY <2>1 DEF compute_forecast
  <1> HIDE DEF bal, anchor
  <1>3. /\ first \in Int /\ last \in Int /\ first <= last + 1
        /\ first - 1 <= from - 1 /\ first - 1 <= anchor /\ anchor <= last
        /\ from - 1 <= through /\ through <= last /\ first - 1 \in Int /\ from - 1 \in Int
    BY <1>1
  <1> HIDE DEF first, last, n, dd, x, events, balances, row, shown
  <1>4. Dated(D)
    BY StoreDated
  <1>5. /\ n \in Nat /\ lo \in 0..n /\ hi \in 0..n /\ c \in 0..n /\ p \in 0..n /\ q \in 0..n
        /\ lo <= p /\ lo <= c /\ c <= hi /\ p <= q /\ q <= hi
    <2>1. n \in Nat /\ \A d \in Int : Cut(D, d) \in 0..n
      BY <1>4, CutDecides, EventRanks DEF n
    <2>2. \A d, e \in Int : d <= e => Cut(D, d) <= Cut(D, e)
      BY <1>4, CutDecides DEF n
    <2> QED BY <1>1, <1>3, <2>1, <2>2
  <1>6. PartOf(events, lo, hi, n, dd, x)
        /\ \A m \in 1..(hi - lo) : events[m].id = g[lo + m]
    <2> HIDE DEF lo, hi
    <2>1. /\ lo = Cut(D, first - 1) /\ hi = Cut(D, last)
          /\ events = forecast_events(store, streams, first, last)
      BY DEF lo, hi, events
    <2> QED BY <1>3, <2>1, EventsArePart DEF n, dd, x
  <1>7. Sums(n, x, A)
    BY DEF n, x
  <1>8. ASSUME NEW k \in 1..n
        PROVE  /\ dd[k] = D[g[k]] /\ dd[k] \in Int /\ x[k] = AmountOf(store, g[k])
               /\ \A d \in Int : dd[k] <= d <=> k <= Cut(D, d)
    <2>1. dd[k] = D[g[k]] /\ x[k] = AmountOf(store, g[k])
      BY DEF dd, x, DaysOf, AmountsOf, n
    <2>2. \A d \in Int : D[g[k]] \in Int /\ (D[g[k]] <= d <=> k <= Cut(D, d))
      BY <1>4, ListDates DEF n
    <2>3. 0 \in Int
      OBVIOUS
    <2> QED BY <2>1, <2>2, <2>3
  <1> HIDE DEF lo, hi, c, p, q
  <1>9. ASSUME NEW d \in Int, NEW e \in Int, d <= e, NEW u, u = Cut(D, d), NEW v, v = Cut(D, e),
               lo <= u, u <= v, v <= hi, u \in Nat, v \in Nat, NEW f, f = d + 1
        PROVE  Total(events, f, e) = A[v] - A[u]
    <2>1. f \in Int
      BY <1>9
    <2>2. \A k \in 1..n : (f <= dd[k] /\ dd[k] <= e) <=> (u < k /\ k <= v)
      <3> SUFFICES ASSUME NEW k \in 1..n
                   PROVE  (f <= dd[k] /\ dd[k] <= e) <=> (u < k /\ k <= v)
        OBVIOUS
      <3>1. (dd[k] <= d <=> k <= u) /\ (dd[k] <= e <=> k <= v) /\ dd[k] \in Int /\ k \in Int
        BY <1>5, <1>8, <1>9
      <3> QED BY <1>9, <3>1
    <2> QED BY <1>6, <1>7, <1>9, <2>1, <2>2, TotalIs
  <1>10. A[c] \in Int /\ A[p] \in Int /\ A[q] \in Int
    BY <1>5, <1>7 DEF Sums
  <1>11. balance_before(bal, anchor, from, events) = bal + A[p] - A[c]
    <2>1. CASE from > anchor
      <3>1. anchor <= from - 1 /\ c <= p
        <4>1. anchor <= from - 1
          BY <1>1, <2>1
        <4> QED BY <1>1, <1>3, <1>4, <4>1, CutDecides DEF c, p
      <3>2. Total(events, anchor + 1, from - 1) = A[p] - A[c]
        BY <1>1, <1>3, <1>5, <1>9, <3>1 DEF c, p
      <3>3. bal + (A[p] - A[c]) = bal + A[p] - A[c]
        BY <1>1, <1>10
      <3> QED BY <2>1, <3>2, <3>3 DEF balance_before
    <2>2. CASE ~(from > anchor)
      <3>1. from - 1 <= anchor /\ p <= c /\ from = (from - 1) + 1
        <4>1. from - 1 <= anchor /\ from = (from - 1) + 1
          BY <1>1, <2>2
        <4> QED BY <1>1, <1>3, <1>4, <4>1, CutDecides DEF c, p
      <3>2. Total(events, from, anchor) = A[c] - A[p]
        BY <1>1, <1>3, <1>5, <1>9, <3>1 DEF c, p
      <3>3. bal - (A[c] - A[p]) = bal + A[p] - A[c]
        BY <1>1, <1>10
      <3> QED BY <2>2, <3>2, <3>3 DEF balance_before
    <2> QED BY <2>1, <2>2
  <1>12. balance_at(bal, anchor, through, events) = bal + A[q] - A[c]
    <2>1. CASE through >= anchor
      <3>1. anchor <= through /\ c <= q
        <4>1. anchor <= through
          BY <1>1, <2>1
        <4> QED BY <1>1, <1>3, <1>4, <4>1, CutDecides DEF c, q
      <3>2. Total(events, anchor + 1, through) = A[q] - A[c]
        BY <1>1, <1>3, <1>5, <1>9, <3>1 DEF c, q
      <3>3. bal + (A[q] - A[c]) = bal + A[q] - A[c]
        BY <1>1, <1>10
      <3> QED BY <2>1, <3>2, <3>3 DEF balance_at
    <2>2. CASE ~(through >= anchor)
      <3>1. through <= anchor /\ q <= c
        <4>1. through <= anchor
          BY <1>1, <2>2
        <4> QED BY <1>1, <1>3, <1>4, <4>1, CutDecides DEF c, q
      <3>0. lo <= q
        BY <1>5
      <3>2. Total(events, through + 1, anchor) = A[c] - A[q]
        BY <1>1, <1>3, <1>5, <1>9, <3>0, <3>1 DEF c, q
      <3>3. bal - (A[c] - A[q]) = bal + A[q] - A[c]
        BY <1>1, <1>10
      <3> QED BY <2>2, <3>2, <3>3 DEF balance_at
    <2> QED BY <2>1, <2>2
  <1>13. DOMAIN shown = 1..(q - p) /\ \A m \in 1..(q - p) : shown[m] = (p - lo) + m
    <2>1. \A k \in 1..n : (from <= dd[k] /\ dd[k] <= through) <=> (p < k /\ k <= q)
      <3> SUFFICES ASSUME NEW k \in 1..n
                   PROVE  (from <= dd[k] /\ dd[k] <= through) <=> (p < k /\ k <= q)
        OBVIOUS
      <3>1. (dd[k] <= from - 1 <=> k <= p) /\ (dd[k] <= through <=> k <= q) /\ dd[k] \in Int
        BY <1>3, <1>8 DEF p, q
      <3> QED BY <1>5, <3>1
    <2>2. p \in Nat /\ q \in Nat
      BY <1>5
    <2>3. shown = Ascending(WindowOf(events, from, through))
      BY DEF shown, WindowOf
    <2>4. /\ PartOf(events, lo, hi, n, dd, x) /\ lo <= p /\ p <= q /\ q <= hi
      BY <1>5, <1>6
    <2> QED BY ONLY from \in Int, through \in Int, <2>1, <2>2, <2>3, <2>4, ShownAre
  <1>14. \A k \in 1..n : dd[k] <= anchor <=> k <= c
    BY <1>1, <1>8 DEF c
  <1>15. \A m \in 1..(hi - lo) : balances[m] = bal + A[lo + m] - A[c]
    <2>1. c \in Nat
      BY <1>5
    <2> QED BY <1>1, <1>5, <1>6, <1>7, <1>14, <2>1, BalancesAre DEF balances
  <1>16. ASSUME NEW m \in 1..(q - p)
         PROVE  row[shown[m]] = ForecastRow(store, cash, g, A, D, p + m)
    <2> DEFINE k == (p - lo) + m
    <2>1. k \in 1..(hi - lo) /\ lo + k = p + m /\ p + m \in 1..n
      BY <1>5
    <2>2. Len(events) = hi - lo
      BY <1>6 DEF PartOf
    <2>3. shown[m] = k
      BY <1>13
    <2> HIDE DEF k
    <2>4. row[k] = [id |-> events[k].id, date |-> events[k].date,
                    amount |-> events[k].amount, balance |-> balances[k]]
      BY <2>1, <2>2 DEF row
    <2>5. /\ events[k].id = g[p + m] /\ events[k].date = dd[p + m]
          /\ events[k].amount = x[p + m]
      BY <1>6, <2>1 DEF PartOf
    <2>6. dd[p + m] = D[g[p + m]] /\ x[p + m] = AmountOf(store, g[p + m])
      BY <1>8, <2>1
    <2>7. balances[k] = BalanceAfter(cash, A, D, p + m)
      BY <1>15, <2>1 DEF BalanceAfter, bal, c, anchor
    <2> QED BY <2>3, <2>4, <2>5, <2>6, <2>7 DEF ForecastRow
  <1>17. [m \in DOMAIN shown |-> row[shown[m]]]
            = [m \in 1..(q - p) |-> ForecastRow(store, cash, g, A, D, p + m)]
    BY <1>13, <1>16
  <1>18. /\ bal + A[p] - A[c] = BalanceAfter(cash, A, D, p)
         /\ bal + A[q] - A[c] = BalanceAfter(cash, A, D, q)
    BY DEF BalanceAfter, bal, c, anchor
  <1> QED BY <1>2, <1>11, <1>12, <1>17, <1>18 DEF ForecastFrom, p, q


-----------------------------------------------------------------------------
(* Forecasts: what they add up to.                                         *)

\* A list of amounts after one amount.
LEMMA Prepended ==
    ASSUME NEW N \in Nat, NEW b \in [1..N -> Int], NEW o \in Int
    PROVE  /\ Len(<<o>> \o b) = N + 1 /\ (<<o>> \o b)[1] = o
           /\ \A m \in 1..N : (<<o>> \o b)[m + 1] = b[m]
  <1>1. b \in Seq(Int) /\ Len(b) = N /\ <<o>> \in Seq(Int) /\ Len(<<o>>) = 1
    BY SequenceLength
  <1> QED BY <1>1

\* The list r is s and then t.
Follows(T, N, M, s, t, r) ==
    /\ s \in [1..N -> T] /\ t \in [1..M -> T] /\ r \in [1..(N + M) -> T]
    /\ \A m \in 1..N : r[m] = s[m]
    /\ \A m \in 1..M : r[N + m] = t[m]

\* A list and one after it.
LEMMA Joined ==
    ASSUME NEW T, NEW N \in Nat, NEW M \in Nat, NEW s, NEW t, NEW r,
           Follows(T, N, M, s, t, r)
    PROVE  r = s \o t
  <1>1. s \in [1..N -> T] /\ t \in [1..M -> T] /\ r \in [1..(N + M) -> T] /\ N + M \in Nat
    BY DEF Follows
  <1>2. s \in Seq(T) /\ t \in Seq(T) /\ r \in Seq(T)
    BY <1>1
  <1>3. Len(s) = N
    BY <1>1, SequenceLength
  <1>4. Len(t) = M
    BY <1>1, SequenceLength
  <1>5. Len(r) = N + M
    BY <1>1, SequenceLength
  <1>6. /\ s \o t \in Seq(T) /\ Len(s \o t) = N + M
        /\ \A i \in 1..(N + M) : (s \o t)[i] = IF i <= N THEN s[i] ELSE t[i - N]
    BY <1>2, <1>3, <1>4, ConcatProperties
  <1>7. ASSUME NEW m \in 1..(N + M) PROVE r[m] = (s \o t)[m]
    <2>1. CASE m <= N
      BY <1>6, <2>1 DEF Follows
    <2>2. CASE m > N
      <3>1. m - N \in 1..M /\ m = N + (m - N)
        BY <2>2
      <3>2. r[m] = t[m - N]
        BY <3>1 DEF Follows
      <3>3. (s \o t)[m] = t[m - N]
        BY <1>6, <2>2
      <3> QED BY <3>2, <3>3
    <2>3. m <= N \/ m > N
      OBVIOUS
    <2> QED BY <2>1, <2>2, <2>3
  <1> QED BY <1>2, <1>6, <1>7, <1>5, SeqEqual

\* Every table of events has a list of them in order, with its sums.
LEMMA ForecastSums ==
    ASSUME NEW store, IsStore(store), NEW streams, NEW D, D = EventDates(store, streams)
    PROVE  \E g, A : /\ Listing(D, DOMAIN D, g)
                     /\ Sums(Cardinality(DOMAIN D), AmountsOf(store, D, g), A)
  <1> DEFINE n == Cardinality(DOMAIN D)
  <1>1. Dated(D) /\ \A i \in DOMAIN D : AmountOf(store, i) \in Int
    BY StoreDated
  <1>2. n \in Nat
    BY <1>1, EventRanks
  <1> HIDE DEF n
  <1>3. PICK g \in [1..n -> DOMAIN D] : \A k, m \in 1..n : k < m => Sooner(D, g[k], g[m])
    <2>1. \E g \in [1..n -> DOMAIN D] : \A k, m \in 1..n : k < m => Sooner(D, g[k], g[m])
      BY <1>1, OrderExists DEF n
    <2> QED BY <2>1
  <1>4. Listing(D, DOMAIN D, g)
    BY <1>1, <1>3, ListedByRank DEF n
  <1>5. AmountsOf(store, D, g) \in [1..n -> Int]
    BY <1>1, <1>3 DEF AmountsOf, n
  <1>6. PICK A : Sums(n, AmountsOf(store, D, g), A)
    BY <1>2, <1>5, SumsExist
  <1> QED BY <1>4, <1>6 DEF n

\* Each event moves the balance by its amount.
MovesBalance(store, cash, g, A, D) ==
    \A k \in 1..Cardinality(DOMAIN D) :
        BalanceAfter(cash, A, D, k)
           = BalanceAfter(cash, A, D, k - 1) + AmountOf(store, g[k])

\* The places of windows among the events in order, and their balances.
LEMMA WindowPlaces ==
    ASSUME NEW store, IsStore(store), NEW streams, NEW D, D = EventDates(store, streams),
           NEW g, Listing(D, DOMAIN D, g),
           NEW A, Sums(Cardinality(DOMAIN D), AmountsOf(store, D, g), A),
           NEW cash \in [balance : Int, date : Int]
    PROVE  /\ \A d \in Int : Cut(D, d) \in Nat /\ Cut(D, d) <= Cardinality(DOMAIN D)
           /\ \A d, e \in Int : d <= e => Cut(D, d) <= Cut(D, e)
           /\ \A k \in 0..Cardinality(DOMAIN D) :
                 A[k] \in Int /\ BalanceAfter(cash, A, D, k) \in Int
           /\ MovesBalance(store, cash, g, A, D)
  <1> DEFINE n == Cardinality(DOMAIN D)
             c == Cut(D, cash.date)
  <1>1. Dated(D) /\ \A i \in DOMAIN D : AmountOf(store, i) \in Int
    BY StoreDated
  <1>2. n \in Nat
    BY <1>1, EventRanks
  <1>3. /\ \A d \in Int : Cut(D, d) \in 0..n
        /\ \A d, e \in Int : d <= e => Cut(D, d) <= Cut(D, e)
    BY <1>1, CutDecides
  <1>4. A \in [0..n -> Int] /\ \A k \in 1..n : A[k] = A[k - 1] + AmountOf(store, g[k])
    BY DEF Sums, AmountsOf
  <1>5. \A k \in 1..n : AmountOf(store, g[k]) \in Int
    BY <1>1 DEF Listing
  <1>6. cash.balance \in Int /\ c \in 0..n
    BY <1>3
  <1> HIDE DEF n, c
  <1>7. A[c] \in Int
    BY <1>4, <1>6
  <1>8. \A k : BalanceAfter(cash, A, D, k) = cash.balance + A[k] - A[c]
    BY DEF BalanceAfter, c
  <1>9. ASSUME NEW k \in 0..n PROVE A[k] \in Int /\ BalanceAfter(cash, A, D, k) \in Int
    BY <1>4, <1>6, <1>7, <1>8
  <1>10. ASSUME NEW k \in 1..n
         PROVE  BalanceAfter(cash, A, D, k)
                   = BalanceAfter(cash, A, D, k - 1) + AmountOf(store, g[k])
    <2>1. k \in 0..n /\ k - 1 \in 0..n
      BY <1>2
    <2>2. /\ A[k] \in Int /\ A[k - 1] \in Int /\ A[k] = A[k - 1] + AmountOf(store, g[k])
          /\ AmountOf(store, g[k]) \in Int
      BY <1>4, <1>5, <2>1
    <2>3. cash.balance + A[k] - A[c] = (cash.balance + A[k - 1] - A[c]) + AmountOf(store, g[k])
      BY <1>6, <1>7, <2>2
    <2> QED BY <1>8, <2>3
  <1>11. \A d \in Int : Cut(D, d) \in Nat /\ Cut(D, d) <= n
    BY <1>2, <1>3
  <1> QED BY <1>3, <1>9, <1>10, <1>11 DEF n, MovesBalance


\* A forecast of compute_forecast adds up, for every table of events, every choice
\* of streams, every balance on record and every window: its first row continues
\* the opening balance, every other row the one above, and the last is the ending.
THEOREM ForecastsAddUp ==
    ASSUME NEW store, IsStore(store), NEW streams, NEW cash \in [balance : Int, date : Int],
           NEW from \in Int, NEW through \in Int, from <= through
    PROVE  RowsAddUp(compute_forecast(store, streams, cash, from, through))
  <1> DEFINE D == EventDates(store, streams)
             n == Cardinality(DOMAIN D)
             p == Cut(D, from - 1)
             q == Cut(D, through)
             N == q - p
             f == compute_forecast(store, streams, cash, from, through)
             b == [m \in DOMAIN f.rows |-> f.rows[m].balance]
             line == <<f.opening>> \o b
  <1> HIDE DEF D
  <1>1. PICK g, A : /\ Listing(D, DOMAIN D, g)
                    /\ Sums(n, AmountsOf(store, D, g), A)
    BY ForecastSums DEF D
  <1> DEFINE Bal(k) == BalanceAfter(cash, A, D, k)
  <1>2. f = ForecastFrom(store, cash, g, A, D, from, through)
    BY <1>1, ForecastIs DEF D
  <1>3. /\ \A d \in Int : Cut(D, d) \in Nat /\ Cut(D, d) <= n
        /\ \A d, e \in Int : d <= e => Cut(D, d) <= Cut(D, e)
        /\ \A k \in 0..n : A[k] \in Int /\ Bal(k) \in Int
        /\ \A k \in 1..n : Bal(k) = Bal(k - 1) + AmountOf(store, g[k])
    <2>1. D = EventDates(store, streams)
      BY DEF D
    <2>2. /\ \A d \in Int : Cut(D, d) \in Nat /\ Cut(D, d) <= n
          /\ \A d, e \in Int : d <= e => Cut(D, d) <= Cut(D, e)
          /\ \A k \in 0..n : A[k] \in Int /\ BalanceAfter(cash, A, D, k) \in Int
          /\ MovesBalance(store, cash, g, A, D)
      BY <1>1, <2>1, WindowPlaces
    <2> QED BY <2>2 DEF MovesBalance
  <1>4. p \in Nat /\ q \in Nat /\ p <= q /\ q <= n /\ N \in Nat /\ n \in Int
    <2>1. from - 1 \in Int /\ from - 1 <= through
      OBVIOUS
    <2>2. n \in Int
      <3>1. Dated(D)
        BY StoreDated DEF D
      <3> QED BY <3>1, EventRanks
    <2> QED BY <1>3, <2>1, <2>2
  <1>5. /\ f.opening = Bal(p) /\ f.ending = Bal(q) /\ DOMAIN f.rows = 1..N
        /\ \A m \in 1..N : f.rows[m] = ForecastRow(store, cash, g, A, D, p + m)
    BY <1>2 DEF ForecastFrom
  <1> HIDE DEF f, n, p, q, N, Bal
  <1>6. \A m \in 1..N : /\ f.rows[m].balance = Bal(p + m)
                        /\ f.rows[m].amount = AmountOf(store, g[p + m])
    <2> SUFFICES ASSUME NEW m \in 1..N
                 PROVE  /\ f.rows[m].balance = Bal(p + m)
                        /\ f.rows[m].amount = AmountOf(store, g[p + m])
      OBVIOUS
    <2> DEFINE k == p + m
    <2>1. f.rows[m] = ForecastRow(store, cash, g, A, D, k)
      BY <1>5
    <2> HIDE DEF k
    <2>2. /\ ForecastRow(store, cash, g, A, D, k).balance = BalanceAfter(cash, A, D, k)
          /\ ForecastRow(store, cash, g, A, D, k).amount = AmountOf(store, g[k])
      BY DEF ForecastRow
    <2> QED BY <2>1, <2>2 DEF k, Bal
  <1>7. \A m \in 0..N : p + m \in 0..n /\ Bal(p + m) \in Int
    <2>1. \A m \in 0..N : p + m \in 0..n
      BY <1>4 DEF N
    <2> QED BY <1>3, <2>1
  <1>8. b \in [1..N -> Int] /\ \A m \in 1..N : b[m] = Bal(p + m)
    <2>1. \A m \in 1..N : Bal(p + m) \in Int
      BY <1>4, <1>7
    <2> QED BY <1>5, <1>6, <2>1
  <1>9. Bal(p) \in Int /\ p + 0 = p
    <2>1. 0 \in 0..N /\ p + 0 = p
      BY <1>4
    <2> QED BY <1>7, <2>1
  <1> HIDE DEF b
  <1>10. /\ Len(line) = N + 1 /\ line[1] = Bal(p) /\ \A m \in 1..N : line[m + 1] = b[m]
    BY <1>4, <1>5, <1>8, <1>9, Prepended
  <1> HIDE DEF line
  <1>11. \A m \in 0..N : line[m + 1] = Bal(p + m)
    <2> SUFFICES ASSUME NEW m \in 0..N PROVE line[m + 1] = Bal(p + m)
      OBVIOUS
    <2>1. CASE m = 0
      BY <1>9, <1>10, <2>1
    <2>2. CASE m # 0
      <3>1. m \in 1..N
        BY <1>4, <2>2
      <3> QED BY <1>8, <1>10, <3>1
    <2> QED BY <2>1, <2>2
  <1>12. ASSUME NEW m \in 1..N PROVE line[m + 1] = line[m] + f.rows[m].amount
    <2>1. /\ m \in 0..N /\ m - 1 \in 0..N /\ (m - 1) + 1 = m /\ p + m \in 1..n
          /\ (p + m) - 1 = p + (m - 1)
      BY <1>4 DEF N
    <2>2. line[m + 1] = Bal(p + m) /\ line[m] = Bal(p + (m - 1))
      BY <1>11, <2>1
    <2>3. Bal(p + m) = Bal(p + (m - 1)) + AmountOf(store, g[p + m])
      BY <1>3, <2>1
    <2> QED BY <1>6, <2>2, <2>3
  <1>13. f.ending = line[Len(line)]
    <2>1. N \in 0..N /\ p + N = q
      BY <1>4 DEF N
    <2> QED BY <1>5, <1>10, <1>11, <2>1
  <1> QED BY <1>5, <1>12, <1>13 DEF RowsAddUp, f, b, line

\* The forecasts of a window, of the window after it and of both.
Connect(first, second, whole) ==
    whole.rows = first.rows \o second.rows /\ first.ending = second.opening

\* Paging through a forecast changes nothing: the rows of a window and of the one
\* that follows it are those of both together, and the second begins with the
\* balance with which the first ends, wherever the day of the balance on record is.
THEOREM ForecastWindowsConnect ==
    ASSUME NEW store, IsStore(store), NEW streams, NEW cash \in [balance : Int, date : Int],
           NEW from \in Int, NEW through \in Int, NEW last \in Int,
           from <= through, through < last
    PROVE  Connect(compute_forecast(store, streams, cash, from, through),
                   compute_forecast(store, streams, cash, through + 1, last),
                   compute_forecast(store, streams, cash, from, last))
  <1> DEFINE first == compute_forecast(store, streams, cash, from, through)
             second == compute_forecast(store, streams, cash, through + 1, last)
             whole == compute_forecast(store, streams, cash, from, last)
             D == EventDates(store, streams)
             n == Cardinality(DOMAIN D)
             p == Cut(D, from - 1)
             q == Cut(D, through)
             r == Cut(D, last)
  <1> HIDE DEF D
  <1>1. PICK g, A : /\ Listing(D, DOMAIN D, g)
                    /\ Sums(n, AmountsOf(store, D, g), A)
    BY ForecastSums DEF D
  <1> DEFINE At(k) == ForecastRow(store, cash, g, A, D, k)
             T == {At(k) : k \in Int}
             N == q - p
             M == r - q
  <1>2. /\ first = ForecastFrom(store, cash, g, A, D, from, through)
        /\ second = ForecastFrom(store, cash, g, A, D, through + 1, last)
        /\ whole = ForecastFrom(store, cash, g, A, D, from, last)
    <2>1. from <= last /\ through + 1 <= last /\ through + 1 \in Int
      OBVIOUS
    <2> QED BY <1>1, <2>1, ForecastIs DEF D
  <1> HIDE DEF first, second, whole
  <1>3. /\ \A d \in Int : Cut(D, d) \in Nat
        /\ \A d, e \in Int : d <= e => Cut(D, d) <= Cut(D, e)
    BY <1>1, WindowPlaces DEF D
  <1>4. /\ p \in Nat /\ q \in Nat /\ r \in Nat /\ p <= q /\ q <= r /\ N \in Nat /\ M \in Nat
        /\ N + M = r - p /\ p + N = q
    <2>1. from - 1 \in Int /\ from - 1 <= through /\ through <= last
      OBVIOUS
    <2> QED BY <1>3, <2>1
  <1>5. (through + 1) - 1 = through
    OBVIOUS
  <1>6. /\ first.rows = [m \in 1..N |-> At(p + m)]
        /\ second.rows = [m \in 1..M |-> At(q + m)]
        /\ whole.rows = [m \in 1..(r - p) |-> At(p + m)]
        /\ first.ending = BalanceAfter(cash, A, D, q)
        /\ second.opening = BalanceAfter(cash, A, D, q)
    <2> HIDE DEF At
    <2>1. Cut(D, (through + 1) - 1) = q
      BY <1>5
    <2>2. first.rows = [m \in 1..N |-> At(p + m)] /\ first.ending = BalanceAfter(cash, A, D, q)
      BY <1>2 DEF ForecastFrom, At
    <2>3. whole.rows = [m \in 1..(r - p) |-> At(p + m)]
      BY <1>2 DEF ForecastFrom, At
    <2>4. /\ second.rows = [m \in 1..M |-> At(q + m)]
          /\ second.opening = BalanceAfter(cash, A, D, q)
      <3> DEFINE e == (through + 1) - 1
      <3>1. e = through
        BY <1>5
      <3> HIDE DEF e
      <3>2. second = [opening |-> BalanceAfter(cash, A, D, Cut(D, e)),
                      rows |-> [m \in 1..(r - Cut(D, e)) |-> At(Cut(D, e) + m)],
                      ending |-> BalanceAfter(cash, A, D, r)]
        BY <1>2 DEF ForecastFrom, At, e
      <3> DEFINE R == [m \in 1..M |-> At(q + m)]
                 o == BalanceAfter(cash, A, D, q)
      <3>3. second = [opening |-> o, rows |-> R, ending |-> BalanceAfter(cash, A, D, r)]
        BY <3>1, <3>2
      <3> HIDE DEF R, o
      <3>4. second.rows = R /\ second.opening = o
        BY <3>3
      <3> QED BY <3>4 DEF R, o
    <2> QED BY <2>2, <2>3, <2>4
  <1> HIDE DEF At, N, M, p, q, r
  <1>7. whole.rows = first.rows \o second.rows
    <2>1. /\ \A m \in 1..N : p + m \in Int
          /\ \A m \in 1..M : q + m \in Int
          /\ \A m \in 1..(N + M) : p + m \in Int
      BY <1>4
    <2>2. /\ first.rows \in [1..N -> T] /\ second.rows \in [1..M -> T]
          /\ whole.rows \in [1..(N + M) -> T]
      BY <1>4, <1>6, <2>1
    <2>3. \A m \in 1..N : whole.rows[m] = first.rows[m]
      <3>1. \A m \in 1..N : m \in 1..(r - p)
        BY <1>4
      <3> QED BY <1>6, <3>1
    <2>4. \A m \in 1..M : whole.rows[N + m] = second.rows[m]
      <3>1. \A m \in 1..M : N + m \in 1..(r - p) /\ p + (N + m) = q + m
        BY <1>4
      <3>2. ASSUME NEW m \in 1..M PROVE whole.rows[N + m] = second.rows[m]
        <4>1. whole.rows[N + m] = At(p + (N + m)) /\ second.rows[m] = At(q + m)
          BY <1>6, <3>1
        <4> QED BY <3>1, <4>1
      <3> QED BY <3>2
    <2> DEFINE s == first.rows
               t == second.rows
               w == whole.rows
    <2> HIDE DEF T, s, t, w
    <2>5. Follows(T, N, M, s, t, w)
      BY <2>2, <2>3, <2>4 DEF s, t, w, Follows
    <2>6. N \in Nat /\ M \in Nat
      BY <1>4
    <2>7. w = s \o t
      BY ONLY <2>5, <2>6, Joined
    <2> QED BY <2>7 DEF s, t, w
  <1> QED BY <1>6, <1>7 DEF Connect, first, second, whole

\* A forecast does not depend on the day of the balance on record: the balance that
\* it shows for the end of another day gives the same forecast of every window.
THEOREM ForecastAnchorMoves ==
    ASSUME NEW store, IsStore(store), NEW streams, NEW cash \in [balance : Int, date : Int],
           NEW from \in Int, NEW through \in Int, from <= through, NEW d \in Int,
           NEW moved, moved = [balance |-> compute_forecast(store, streams, cash, d, d).ending,
                               date |-> d]
    PROVE  compute_forecast(store, streams, moved, from, through)
              = compute_forecast(store, streams, cash, from, through)
  <1> DEFINE D == EventDates(store, streams)
             n == Cardinality(DOMAIN D)
             p == Cut(D, from - 1)
             q == Cut(D, through)
             c == Cut(D, cash.date)
             k0 == Cut(D, d)
  <1> HIDE DEF D
  <1>1. PICK g, A : /\ Listing(D, DOMAIN D, g)
                    /\ Sums(n, AmountsOf(store, D, g), A)
    BY ForecastSums DEF D
  <1>2. /\ \A e \in Int : Cut(D, e) \in Nat /\ Cut(D, e) <= n
        /\ \A e, f \in Int : e <= f => Cut(D, e) <= Cut(D, f)
        /\ \A k \in 0..n : A[k] \in Int
        /\ \A k \in 0..n : BalanceAfter(cash, A, D, k) \in Int
    BY <1>1, WindowPlaces DEF D
  <1>3. n \in Nat
    <2>1. Dated(D)
      BY StoreDated DEF D
    <2> QED BY <2>1, EventRanks
  <1>4. /\ p \in 0..n /\ q \in 0..n /\ c \in 0..n /\ k0 \in 0..n /\ p <= q
    <2>1. from - 1 \in Int /\ cash.date \in Int /\ from - 1 <= through
      OBVIOUS
    <2> QED BY <1>2, <1>3, <2>1
  <1>5. cash.balance \in Int
    OBVIOUS
  <1>6. compute_forecast(store, streams, cash, d, d).ending = BalanceAfter(cash, A, D, k0)
    <2>1. compute_forecast(store, streams, cash, d, d) = ForecastFrom(store, cash, g, A, D, d, d)
      BY <1>1, ForecastIs DEF D
    <2> QED BY <2>1 DEF ForecastFrom
  <1> HIDE DEF n, k0, p, q, c
  <1>7. /\ moved \in [balance : Int, date : Int] /\ moved.date = d
        /\ moved.balance = BalanceAfter(cash, A, D, k0)
    BY <1>2, <1>4, <1>6
  <1>8. ASSUME NEW k \in 0..n
        PROVE  BalanceAfter(moved, A, D, k) = BalanceAfter(cash, A, D, k)
    <2>1. BalanceAfter(moved, A, D, k) = BalanceAfter(cash, A, D, k0) + A[k] - A[k0]
      BY <1>7 DEF BalanceAfter, k0
    <2>2. /\ BalanceAfter(cash, A, D, k0) = cash.balance + A[k0] - A[c]
          /\ BalanceAfter(cash, A, D, k) = cash.balance + A[k] - A[c]
      BY DEF BalanceAfter, c
    <2>3. A[k] \in Int /\ A[k0] \in Int /\ A[c] \in Int
      BY <1>2, <1>4
    <2>4. (cash.balance + A[k0] - A[c]) + A[k] - A[k0] = cash.balance + A[k] - A[c]
      BY <1>5, <2>3
    <2> QED BY <2>1, <2>2, <2>4
  <1>9. \A m \in 1..(q - p) : ForecastRow(store, moved, g, A, D, p + m)
                                 = ForecastRow(store, cash, g, A, D, p + m)
    <2>1. \A m \in 1..(q - p) : p + m \in 0..n
      BY <1>3, <1>4
    <2> QED BY <1>8, <2>1 DEF ForecastRow
  <1>10. ForecastFrom(store, moved, g, A, D, from, through)
            = ForecastFrom(store, cash, g, A, D, from, through)
    BY <1>4, <1>8, <1>9 DEF ForecastFrom, p, q
  <1>11. /\ compute_forecast(store, streams, moved, from, through)
               = ForecastFrom(store, moved, g, A, D, from, through)
         /\ compute_forecast(store, streams, cash, from, through)
               = ForecastFrom(store, cash, g, A, D, from, through)
    BY <1>1, <1>7, ForecastIs DEF D, n
  <1> QED BY <1>10, <1>11


-----------------------------------------------------------------------------
(* Forecasts: what is examined.                                            *)

ForecastInput ==
    [store : Seq(EventsToAdd), streams : SUBSET {"rent", "pay"},
     cash : [balance : Int, date : Int], from : Int, through : Int]

\* A forecast that is examined is one of some rows of EventsToAdd.
ForecastExamined ==
    subject = "forecast" => input \in ForecastInput /\ input.from <= input.through

\* It holds in every reachable state.
LEMMA ForecastsExamined == Spec => []ForecastExamined
  <1>1. Init => ForecastExamined
    <2> SUFFICES ASSUME Init, subject = "forecast"
                 PROVE  input \in ForecastInput /\ input.from <= input.through
      BY DEF ForecastExamined
    <2>1. PICK anchor \in 1..LastDate, from \in 1..LastDate, through \in 1..LastDate,
               streams \in {{"rent"}, {"rent", "pay"}} :
             /\ from <= through
             /\ input = [store |-> << >>, streams |-> streams,
                         cash |-> [balance |-> 0, date |-> anchor],
                         from |-> from, through |-> through]
      BY DEF Init
    <2>2. anchor \in Int /\ from \in Int /\ through \in Int
      BY BoundsAssumption
    <2>3. << >> \in Seq(EventsToAdd) /\ streams \in SUBSET {"rent", "pay"}
      OBVIOUS
    <2>4. [balance |-> 0, date |-> anchor] \in [balance : Int, date : Int]
      BY <2>2
    <2> QED BY <2>1, <2>2, <2>3, <2>4 DEF ForecastInput
  <1>2. ForecastExamined /\ [Next]_vars => ForecastExamined'
    <2> SUFFICES ASSUME ForecastExamined, [Next]_vars PROVE ForecastExamined'
      OBVIOUS
    <2>1. CASE AddEvent /\ UNCHANGED subject
      <3>1. PICK e \in EventsToAdd : input' = [input EXCEPT !.store = Append(@, e)]
        BY <2>1 DEF AddEvent
      <3>2. input \in ForecastInput /\ input.from <= input.through
        BY <2>1 DEF AddEvent, ForecastExamined
      <3> DEFINE longer == Append(input.store, e)
      <3>3. longer \in Seq(EventsToAdd)
        BY <3>2 DEF ForecastInput
      <3> HIDE DEF longer
      <3>4. input' = [input EXCEPT !.store = longer]
        BY <3>1 DEF longer
      <3>5. input' \in ForecastInput /\ input'.from <= input'.through
        BY <3>2, <3>3, <3>4 DEF ForecastInput
      <3> QED BY <3>5 DEF ForecastExamined
    <2>2. CASE Tick /\ UNCHANGED subject
      BY <2>2 DEF ForecastExamined, Tick
    <2>3. CASE Widen /\ UNCHANGED subject
      BY <2>3 DEF ForecastExamined, Widen
    <2>4. CASE UNCHANGED vars
      BY <2>4 DEF ForecastExamined, vars
    <2> QED BY <2>1, <2>2, <2>3, <2>4 DEF Next
  <1> QED BY <1>1, <1>2, PTL DEF Spec

\* Rows of EventsToAdd are a table of events.
LEMMA ExaminedStore ==
    ASSUME NEW store \in Seq(EventsToAdd)
    PROVE  IsStore(store)
  <1>1. LastDate \in Int /\ None \notin Int
    BY BoundsAssumption, CalendarAssumption
  <1>2. 1 # None /\ 2 # None /\ 3 # None /\ 4 # None /\ 16 # None
    BY <1>1
  <1>3. ASSUME NEW e \in EventsToAdd
        PROVE  effective_date(e) \in Int /\ effective_amount(e) \in Int
    <2>1. CASE e \in {Event("rent", "out", d, 1) : d \in 1..LastDate}
      <3>1. PICK d \in 1..LastDate : e = Event("rent", "out", d, 1)
        BY <2>1
      <3>2. /\ e.actual_date = None /\ e.override_date = None /\ e.expected_date = d
            /\ e.actual_amount = None /\ e.override_amount = None /\ e.amount = 1
        BY <3>1 DEF Event
      <3>3. d \in Int
        BY <1>1
      <3> QED BY <3>2, <3>3 DEF effective_date, effective_amount, Coalesce
    <2>2. CASE e = [Event("pay", "in", LastDate, 2) EXCEPT !.override_date = 1,
                                                           !.override_amount = 4]
      <3>1. /\ e.actual_date = None /\ e.override_date = 1
            /\ e.actual_amount = None /\ e.override_amount = 4
        BY <2>2 DEF Event
      <3> QED BY <1>2, <3>1 DEF effective_date, effective_amount, Coalesce
    <2>3. CASE e = [Event("pay", "in", LastDate, 8) EXCEPT !.actual_date = 2,
                                                           !.override_date = 3,
                                                           !.actual_amount = 16]
      <3>1. e.actual_date = 2 /\ e.actual_amount = 16
        BY <2>3 DEF Event
      <3> QED BY <1>2, <3>1 DEF effective_date, effective_amount, Coalesce
    <2>4. CASE e = [Event("pay", "in", 2, 32) EXCEPT !.excluded = TRUE]
      <3>1. /\ e.actual_date = None /\ e.override_date = None /\ e.expected_date = 2
            /\ e.actual_amount = None /\ e.override_amount = None /\ e.amount = 32
        BY <2>4 DEF Event
      <3> QED BY <3>1 DEF effective_date, effective_amount, Coalesce
    <2> QED BY <2>1, <2>2, <2>3, <2>4 DEF EventsToAdd
  <1>4. /\ DOMAIN store = 1..Len(store) /\ Len(store) \in Nat
        /\ \A i \in 1..Len(store) : store[i] \in EventsToAdd
    OBVIOUS
  <1>5. IsFiniteSet(1..Len(store))
    <2>1. 1 \in Int /\ Len(store) \in Int
      BY <1>4
    <2> QED BY <2>1, FS_Interval
  <1>6. 1..Len(store) \in SUBSET Int
    BY <1>4
  <1> QED BY <1>3, <1>4, <1>5, <1>6 DEF IsStore

\* What is needed of an examined forecast.
LEMMA ExaminedForecast ==
    ASSUME ForecastExamined, subject = "forecast"
    PROVE  /\ IsStore(input.store) /\ input.cash \in [balance : Int, date : Int]
           /\ input.from \in Int /\ input.through \in Int /\ input.from <= input.through
  <1>1. input \in ForecastInput /\ input.from <= input.through
    BY DEF ForecastExamined
  <1>2. /\ input.store \in Seq(EventsToAdd) /\ input.cash \in [balance : Int, date : Int]
        /\ input.from \in Int /\ input.through \in Int
    BY <1>1 DEF ForecastInput
  <1> QED BY <1>1, <1>2, ExaminedStore

\* Every forecast examined adds up, and paging through it changes nothing: the
\* property WindowsConnect of the run, whatever the number of days and events.
THEOREM WindowsAlwaysConnect == Spec => []WindowsConnect
  <1>1. ForecastExamined => WindowsConnect
    <2> SUFFICES ASSUME ForecastExamined, subject = "forecast"
                 PROVE  /\ RowsAddUp(ForecastOf(input.cash, input.from, input.through))
                        /\ \A last \in (input.through + 1)..LastDate :
                              /\ ForecastOf(input.cash, input.from, last).rows
                                    = ForecastOf(input.cash, input.from, input.through).rows
                                      \o ForecastOf(input.cash, input.through + 1, last).rows
                              /\ ForecastOf(input.cash, input.from, input.through).ending
                                    = ForecastOf(input.cash, input.through + 1, last).opening
      BY DEF WindowsConnect
    <2>1. /\ IsStore(input.store) /\ input.cash \in [balance : Int, date : Int]
          /\ input.from \in Int /\ input.through \in Int /\ input.from <= input.through
      BY ExaminedForecast
    <2>2. RowsAddUp(ForecastOf(input.cash, input.from, input.through))
      BY <2>1, ForecastsAddUp DEF ForecastOf
    <2>3. ASSUME NEW last \in (input.through + 1)..LastDate
          PROVE  /\ ForecastOf(input.cash, input.from, last).rows
                       = ForecastOf(input.cash, input.from, input.through).rows
                         \o ForecastOf(input.cash, input.through + 1, last).rows
                 /\ ForecastOf(input.cash, input.from, input.through).ending
                       = ForecastOf(input.cash, input.through + 1, last).opening
      <3>1. last \in Int /\ input.through < last
        BY <2>1, BoundsAssumption
      <3>2. Connect(ForecastOf(input.cash, input.from, input.through),
                    ForecastOf(input.cash, input.through + 1, last),
                    ForecastOf(input.cash, input.from, last))
        BY <2>1, <3>1, ForecastWindowsConnect DEF ForecastOf
      <3> QED BY <3>2 DEF Connect
    <2> QED BY <2>2, <2>3
  <1> QED BY <1>1, ForecastsExamined, PTL

\* No forecast examined depends on the day of the balance on record: the property
\* AnchorMoves of the run, whatever the number of days and events.
THEOREM AnchorAlwaysMoves == Spec => []AnchorMoves
  <1>1. ForecastExamined => AnchorMoves
    <2> SUFFICES ASSUME ForecastExamined, subject = "forecast", NEW d \in 1..LastDate,
                        NEW moved, moved = [balance |-> ForecastOf(input.cash, d, d).ending,
                                            date |-> d]
                 PROVE  ForecastOf(moved, input.from, input.through)
                           = ForecastOf(input.cash, input.from, input.through)
      BY DEF AnchorMoves
    <2>1. /\ IsStore(input.store) /\ input.cash \in [balance : Int, date : Int]
          /\ input.from \in Int /\ input.through \in Int /\ input.from <= input.through
      BY ExaminedForecast
    <2>2. d \in Int
      BY BoundsAssumption
    <2> QED BY <2>1, <2>2, ForecastAnchorMoves DEF ForecastOf
  <1> QED BY <1>1, ForecastsExamined, PTL
=============================================================================
