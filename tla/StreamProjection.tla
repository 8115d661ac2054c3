-------------------------- MODULE StreamProjection --------------------------
(***************************************************************************)
(* One cash-flow stream: its recurrence rules, the events projected from   *)
(* them and the user's changes of both (save_stream, delete_stream and the *)
(* event operations of src/finance/repository.rs, with the handlers of     *)
(* src/finance/http.rs that call them).  Streams share no row, so one      *)
(* stream is the whole system.                                             *)
(***************************************************************************)
EXTENDS Schedules, FiniteSets

CONSTANTS
    Editors,    \* requests to PUT or POST a stream that may be under way
    Rules,      \* the recurrence rules that requests may ask for
    Horizon,    \* PROJECTION_DAYS
    Clearable,  \* override columns that a null clears: date, amount, account
    FirstToday, LastToday,  \* bounds: the days on which requests arrive
    MaxScheduleId,          \* bound: schedules ever inserted
    MaxManual,              \* bound: manual events ever inserted
    MaxOps                  \* bound: operations of users

ScheduleIds == 1..MaxScheduleId

\* end is None or not before start (validate_stream_draft).
ASSUME RulesAssumption ==
    /\ Rules \subseteq [frequency : Frequencies, dom : Nat \ {0}, start : Dates,
                        end : Dates \cup {None}, amount : Nat]
    /\ \A r \in Rules : r.end # None => r.start <= r.end

ASSUME DaysAssumption ==
    /\ FirstToday..(LastToday + Horizon) \subseteq Dates
    /\ FirstToday \in Int /\ LastToday \in Int /\ FirstToday <= LastToday
    /\ Horizon \in Nat
    /\ MaxScheduleId \in Nat /\ MaxManual \in Nat /\ MaxOps \in Nat
    /\ "label" \notin Clearable

VARIABLES
    today,      \* server_today()
    stream,     \* "absent", "active", "deleted"
    schedules,  \* stream_schedule rows: id -> rule and is_active
    events,     \* stream_event rows: source -> row
    manuals,    \* manual events inserted so far
    editor,     \* a request between its read and its transaction
    projected,  \* history: first day of the window just projected, or None
    ops         \* operations so far

vars == <<today, stream, schedules, events, manuals, editor, projected, ops>>

\* A row is named by its source_id: a slot of a schedule or a manual number.
SlotKey(s, slot) == <<"slot", s, slot>>
ManualKey(n) == <<"manual", n, 0>>
IsScheduled(k) == k[1] = "slot"

OverrideFields == Clearable \cup {"label"}

\* over: the override flags and columns that are set; blank: the label override
\* is NULL; reason: exclusion_reason, which is NULL just when is_excluded = 0.
NewRow(date, amount) ==
    [expected |-> date, amount |-> amount, over |-> {}, blank |-> FALSE,
     status |-> "projected", reason |-> "none"]

Open(e) == e.status = "projected"
Visible(e) == e.reason = "none"
Untouched(e) == e.over = {}

ActiveIds == {s \in DOMAIN schedules : schedules[s].active}
Idle == [kind |-> "idle"]

Init ==
    /\ today = FirstToday
    /\ stream = "absent"
    /\ schedules = << >>
    /\ events = << >>
    /\ manuals = 0
    /\ editor = [w \in Editors |-> Idle]
    /\ projected = None
    /\ ops = 0

Operation == ops < MaxOps /\ ops' = ops + 1

-----------------------------------------------------------------------------
(* PUT and POST of a stream: the read, and the draft made from it.         *)

\* The rules as list_streams returns them, by id.
Snapshot == [s \in ActiveIds |-> schedules[s].rule]

Request(w, kind, rules) ==
    /\ Operation
    /\ editor[w] = Idle
    /\ editor' = [editor EXCEPT ![w] = [kind |-> kind, rules |-> rules,
                                        from |-> today, base |-> stream]]
    /\ UNCHANGED <<today, stream, schedules, events, manuals, projected>>

\* build_stream_draft with a list of schedules: it replaces them all.  An entry
\* without an id, here None, is a new schedule; a request has at most one.
save_list(w) ==
    /\ stream # "deleted"
    /\ \E ids \in SUBSET (DOMAIN schedules \cup {None}) :
          \E rules \in [ids -> Rules] : Request(w, "list", rules)

\* No schedule field: every schedule that was read is sent back.
save_kept(w) == stream = "active" /\ Request(w, "keep", Snapshot)

\* flattened_schedules: the first schedule is edited, or dropped when the
\* frequency is null, and the others are sent back.  schedule_id comes from the
\* page and may name another schedule by now; one that appears twice is refused.
save_flattened(w) ==
    /\ stream # "deleted"
    /\ LET firsts == {s \in ActiveIds : \A t \in ActiveIds : s <= t}
           rest == [s \in ActiveIds \ firsts |-> schedules[s].rule]
       IN  \/ Request(w, "first", rest)
           \/ \E id \in DOMAIN schedules
                         \cup (IF firsts = {} THEN {None} ELSE firsts),
                 r \in Rules :
                 /\ id \notin DOMAIN rest
                 /\ Request(w, "first",
                            [s \in DOMAIN rest \cup {id} |->
                                IF s = id THEN r ELSE rest[s]])

-----------------------------------------------------------------------------
(* refresh_stream_schedule_events_on.                                      *)

Through(from) == from + Horizon
InWindow(d, from) == from <= d /\ d <= Through(from)

\* Mutant: rows that the user excluded are tombstoned like the others.
tombstone_mutant(evs, from) ==
    [k \in DOMAIN evs |->
        IF /\ IsScheduled(k) /\ Open(evs[k]) /\ Untouched(evs[k])
           /\ InWindow(evs[k].expected, from)
        THEN [evs[k] EXCEPT !.reason = "schedule"]
        ELSE evs[k]]

\* Mutant: rows with overrides are tombstoned like the others.
tombstone_all(evs, from) ==
    [k \in DOMAIN evs |->
        IF /\ IsScheduled(k) /\ Open(evs[k])
           /\ InWindow(evs[k].expected, from)
           /\ evs[k].reason # "user"
        THEN [evs[k] EXCEPT !.reason = "schedule"]
        ELSE evs[k]]

\* First the untouched open rows of the window are excluded.
tombstone(evs, from) ==
    [k \in DOMAIN evs |->
        IF /\ IsScheduled(k) /\ Open(evs[k]) /\ Untouched(evs[k])
           /\ InWindow(evs[k].expected, from)
           /\ evs[k].reason # "user"
        THEN [evs[k] EXCEPT !.reason = "schedule"]
        ELSE evs[k]]

\* Mutant: the end date of a schedule is not looked at.
Occurrences_mutant(r, from) ==
    schedule_occurrences(r.frequency, r.start,
        IF r.start > from THEN r.start ELSE from, Through(from), r.dom)

\* The occurrences of a rule in the window.
Occurrences(r, from) ==
    LET start == IF r.start > from THEN r.start ELSE from
        end == IF r.end # None /\ r.end < Through(from) THEN r.end
                                                        ELSE Through(from)
    IN  IF end < start THEN {}
        ELSE schedule_occurrences(r.frequency, r.start, start, end, r.dom)

\* Mutant: the upsert has no condition on the status.
upsert_mutant(evs, k, date, amount) ==
    IF k \notin DOMAIN evs THEN NewRow(date, amount)
    ELSE [evs[k] EXCEPT !.expected = date, !.amount = amount,
             !.reason = IF evs[k].reason = "user" THEN "user" ELSE "none"]

\* Then every occurrence is inserted in its slot, or given to the open row that
\* is there; a row that the user excluded stays excluded.
upsert(evs, k, date, amount) ==
    IF k \notin DOMAIN evs THEN NewRow(date, amount)
    ELSE IF Open(evs[k])
    THEN [evs[k] EXCEPT !.expected = date, !.amount = amount,
             !.reason = IF evs[k].reason = "user" THEN "user" ELSE "none"]
    ELSE evs[k]

\* The source slots that the schedules scheds generate, with their dates; the
\* dates of a rule have different slots (SlotsInjective).
Generated(scheds, from) ==
    UNION {{[key |-> SlotKey(s, projection_slot(scheds[s].rule.frequency,
                                                scheds[s].rule.start, d)),
             date |-> d, amount |-> scheds[s].rule.amount] :
               d \in Occurrences(scheds[s].rule, from)} :
             s \in {t \in DOMAIN scheds : scheds[t].active}}

refresh_stream_schedule_events_on(evs, scheds, from) ==
    LET generated == Generated(scheds, from)
        cleared == tombstone(evs, from)
        keys == {g.key : g \in generated}
    IN  [k \in DOMAIN evs \cup keys |->
            IF k \in keys
            THEN LET g == CHOOSE g \in generated : g.key = k
                 IN  upsert(cleared, k, g.date, g.amount)
            ELSE cleared[k]]

-----------------------------------------------------------------------------
(* The transactions on streams.                                            *)

NextId == Cardinality(DOMAIN schedules) + 1

\* An entry is written to its row, which becomes active, or to a new one.
save_schedule_on(rule) == [rule |-> rule, active |-> TRUE]

\* save_schedule_on for each entry of the draft, then the active schedules that
\* the draft does not name are deactivated.
Saved(rules) ==
    [s \in DOMAIN schedules \cup (IF None \in DOMAIN rules THEN {NextId} ELSE {}) |->
        IF s \in DOMAIN rules THEN save_schedule_on(rules[s])
        ELSE IF s \notin DOMAIN schedules THEN save_schedule_on(rules[None])
        ELSE [schedules[s] EXCEPT !.active = FALSE]]

\* A stream is inserted, or updated where it is still active.  (A second POST
\* inserts another stream.)
save_stream(w) ==
    LET draft == editor[w]
    IN  /\ draft # Idle
        /\ stream = draft.base
        /\ None \in DOMAIN draft.rules => NextId \in ScheduleIds
        /\ stream' = "active"
        /\ schedules' = Saved(draft.rules)
        /\ events' = refresh_stream_schedule_events_on(events, schedules', draft.from)
        /\ projected' = draft.from
        /\ editor' = [editor EXCEPT ![w] = Idle]
        /\ UNCHANGED <<today, manuals, ops>>

\* The transaction is rolled back: the stream is gone, or storage fails.
save_fails(w) ==
    /\ editor[w] # Idle
    /\ editor' = [editor EXCEPT ![w] = Idle]
    /\ UNCHANGED <<today, stream, schedules, events, manuals, projected, ops>>

\* Mutant: only the rules are deactivated.
Quiet_mutant(evs) == evs

\* What a deletion does to the rows.
Quiet(evs) ==
    [k \in DOMAIN evs |->
        IF IsScheduled(k) /\ Open(evs[k]) /\ Visible(evs[k])
        THEN [evs[k] EXCEPT !.reason = "schedule"]
        ELSE evs[k]]

delete_stream ==
    /\ Operation
    /\ stream = "active"
    /\ stream' = "deleted"
    /\ schedules' = [s \in DOMAIN schedules |-> [schedules[s] EXCEPT !.active = FALSE]]
    /\ events' = Quiet(events)
    /\ projected' = None
    /\ UNCHANGED <<today, manuals, editor>>

-----------------------------------------------------------------------------
(* The transactions on events.                                             *)

\* A user's change of one row, which must be open.
Change(k, row) ==
    /\ Operation
    /\ events' = [events EXCEPT ![k] = row]
    /\ projected' = None
    /\ UNCHANGED <<today, stream, schedules, manuals, editor>>

create_manual_event ==
    /\ Operation
    /\ stream = "active"
    /\ manuals < MaxManual
    /\ manuals' = manuals + 1
    /\ events' = [k \in DOMAIN events \cup {ManualKey(manuals + 1)} |->
                    IF k \in DOMAIN events THEN events[k] ELSE NewRow(today, 0)]
    /\ UNCHANGED <<today, stream, schedules, editor, projected>>

\* A field of the patch is set, or cleared by a null.  Clearing a label leaves
\* its flag set and the override NULL.
patch_event(k) ==
    /\ Open(events[k])
    /\ \/ \E f \in OverrideFields :
             Change(k, [events[k] EXCEPT !.over = @ \cup {f},
                                         !.blank = @ /\ f # "label"])
       \/ \E f \in Clearable :
             Change(k, [events[k] EXCEPT !.over = @ \ {f}])
       \/ Change(k, [events[k] EXCEPT !.over = @ \cup {"label"}, !.blank = TRUE])

\* A manual row is deleted, a generated one keeps a tombstone.
remove_event(k) ==
    /\ Open(events[k])
    /\ \/ /\ IsScheduled(k)
          /\ Change(k, [events[k] EXCEPT !.reason = "user"])
       \/ /\ ~IsScheduled(k)
          /\ Operation
          /\ events' = [j \in DOMAIN events \ {k} |-> events[j]]
          /\ projected' = None
          /\ UNCHANGED <<today, stream, schedules, manuals, editor>>

reconcile_event(k) ==
    /\ Open(events[k])
    /\ Visible(events[k])
    /\ Change(k, [events[k] EXCEPT !.status = "received"])

\* Midnight.
NextDay ==
    /\ today < LastToday
    /\ today' = today + 1
    /\ UNCHANGED <<stream, schedules, events, manuals, editor, projected, ops>>

Next ==
    \/ \E w \in Editors : \/ save_list(w) \/ save_kept(w) \/ save_flattened(w)
                          \/ save_stream(w) \/ save_fails(w)
    \/ delete_stream
    \/ create_manual_event
    \/ \E k \in DOMAIN events : patch_event(k) \/ remove_event(k) \/ reconcile_event(k)
    \/ NextDay

Spec == Init /\ [][Next]_vars

-----------------------------------------------------------------------------
(* Properties.                                                             *)

Row == [expected : Dates, amount : Nat, over : SUBSET OverrideFields,
        blank : BOOLEAN, status : {"projected", "received"},
        reason : {"none", "user", "schedule"}]

\* Types, and the checks of the stream_event table: a received row is not
\* excluded, and a label that is NULL by the user's wish has its flag.
TypeOK ==
    /\ today \in FirstToday..LastToday
    /\ stream \in {"absent", "active", "deleted"}
    /\ DOMAIN schedules \subseteq ScheduleIds
    /\ \A s \in DOMAIN schedules : schedules[s] \in [rule : Rules, active : BOOLEAN]
    /\ \A k \in DOMAIN events :
          /\ events[k] \in Row
          /\ ~Open(events[k]) => Visible(events[k])
          /\ events[k].blank => "label" \in events[k].over
    /\ ops \in 0..MaxOps

\* Money that was received stays as it was recorded: no save, deletion or later
\* edit changes, excludes or removes its row.
ReceivedIsFinal ==
    [][\A k \in DOMAIN events : ~Open(events[k]) =>
          k \in DOMAIN events' /\ events'[k] = events[k]]_vars

\* An event that the user removed does not come back, whatever is saved later:
\* "retain a durable user tombstone [...] so the next refresh cannot recreate
\* it" (remove_event).
RemovedStaysRemoved ==
    [][\A k \in DOMAIN events : events[k].reason = "user" =>
          k \in DOMAIN events' /\ events'[k].reason = "user"]_vars

\* Saving a stream never hides an event that the user has changed, although its
\* rule is gone, and never drops the change.
OverridesSurviveSaves ==
    [][events' # events /\ ops' = ops =>
          \A k \in DOMAIN events : ~Untouched(events[k]) =>
             /\ k \in DOMAIN events'
             /\ events'[k].over = events[k].over
             /\ Visible(events[k]) => Visible(events'[k])]_vars

\* The rule of a schedule falls on d, its end date included.
RuleDue(r, d) ==
    /\ Due(r.frequency, r.start, d, r.dom)
    /\ r.end # None => d <= r.end

\* Right after a save the window holds what the rules say and nothing else:
\* every open row that the user has not touched belongs to an active rule, on a
\* day that the rule falls on and with its amount, and every day that a rule
\* falls on has a row in its slot with that date, which is visible unless the
\* user removed it, or the payment of that period was received.
ProjectionIsExact ==
    projected # None =>
        /\ \A k \in DOMAIN events :
              LET e == events[k] IN
              /\ IsScheduled(k) /\ Open(e) /\ Untouched(e) /\ Visible(e)
              /\ InWindow(e.expected, projected)
              => /\ k[2] \in ActiveIds
                 /\ RuleDue(schedules[k[2]].rule, e.expected)
                 /\ e.amount = schedules[k[2]].rule.amount
        /\ \A s \in ActiveIds, d \in projected..Through(projected) :
              LET r == schedules[s].rule
                  k == SlotKey(s, projection_slot(r.frequency, r.start, d))
              IN  RuleDue(r, d) =>
                      /\ k \in DOMAIN events
                      /\ Open(events[k]) => /\ events[k].expected = d
                                            /\ events[k].reason \in {"none", "user"}

\* Nothing of a deleted stream is still expected, also when a save of it was
\* under way or when its events are edited afterwards.
DeletedStreamIsQuiet ==
    stream = "deleted" =>
        /\ ActiveIds = {}
        /\ \A k \in DOMAIN events :
              IsScheduled(k) /\ Open(events[k]) => ~Visible(events[k])

Calendar == {"monthly", "semimonthly", "annual"}

\* Two days belong to the same month, half of a month or year.
SamePeriod(frequency, d, e) ==
    CASE frequency = "monthly"     -> month(d) = month(e)
      [] frequency = "semimonthly" -> /\ month(d) = month(e)
                                      /\ day(d) <= MidDay <=> day(e) <= MidDay
      [] frequency = "annual"      -> year(d) = year(e)

\* However often the due day, the start date or the frequency of a schedule is
\* changed, it has one row for a period, visible or not, while its frequency is
\* one that is tied to the calendar: "A due-day edit updates January's January
\* row instead of creating a duplicate" (refresh_stream_schedule_events_on).
OneRowPerPeriod ==
    \A j, k \in DOMAIN events :
        /\ IsScheduled(j) /\ IsScheduled(k) /\ j[2] = k[2]
        /\ j[3][1] = k[3][1] /\ j[3][1] \in Calendar
        /\ SamePeriod(j[3][1], events[j].expected, events[k].expected)
        => j = k

-----------------------------------------------------------------------------
(* What comments of the code say.                                          *)

\* flattened_schedules: "an ordinary save cannot erase invisible recurrence
\* rules": a request that names no schedules keeps the active ones.
OrdinarySaveKeepsRules ==
    [][\A w \in Editors :
          editor[w].kind = "keep" /\ projected' # None /\ editor'[w] = Idle
             => {s \in DOMAIN schedules : schedules[s].active}
                   \subseteq {s \in DOMAIN schedules' : schedules'[s].active}]_vars
=============================================================================
