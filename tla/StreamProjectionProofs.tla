----------------------- MODULE StreamProjectionProofs -----------------------
(***************************************************************************)
(* Theorems about StreamProjection, for every calendar, every set of       *)
(* rules, any number of editors and any number of operations.              *)
(***************************************************************************)
EXTENDS StreamProjection, CalendarProofs

Days == FirstToday..LastToday

-----------------------------------------------------------------------------
(* The occurrences of a rule.                                              *)

\* The window of a day lies within the calendar.
LEMMA WindowInCalendar ==
    ASSUME NEW from \in Days
    PROVE  /\ from \in Dates /\ Through(from) \in Dates
           /\ from \in Int /\ Through(from) \in Int
           /\ from..Through(from) \subseteq Dates
  <1>1. /\ FirstToday \in Int /\ LastToday \in Int /\ Horizon \in Nat
        /\ FirstToday..(LastToday + Horizon) \subseteq Dates
    BY DaysAssumption
  <1>2. from \in Int /\ FirstToday <= from /\ from <= LastToday
    BY <1>1 DEF Days
  <1>3. Through(from) = from + Horizon
    BY DEF Through
  <1>4. from \in Dates /\ Through(from) \in Dates
    BY <1>1, <1>2, <1>3
  <1> QED BY <1>2, <1>4, WindowDates

\* A rule's occurrences are the days of the window that it falls on.
LEMMA OccurrencesAreRuleDue ==
    ASSUME NEW r \in Rules, NEW from \in Days
    PROVE  Occurrences(r, from) = {d \in from..Through(from) : RuleDue(r, d)}
  <1> DEFINE start == IF r.start > from THEN r.start ELSE from
             end == IF r.end # None /\ r.end < Through(from) THEN r.end
                                                             ELSE Through(from)
  <1>1. /\ r.frequency \in Frequencies /\ r.dom \in Nat \ {0}
        /\ r.start \in Dates /\ r.end \in Dates \cup {None}
    BY RulesAssumption
  <1>2. /\ from \in Dates /\ Through(from) \in Dates
        /\ from \in Int /\ Through(from) \in Int
    BY WindowInCalendar
  <1>3. r.start \in Int /\ (r.end # None => r.end \in Int)
    BY <1>1, DatesAreIntegers
  <1>4. start \in Dates /\ end \in Dates /\ start \in Int /\ end \in Int
    BY <1>1, <1>2, <1>3
  <1>5. Occurrences(r, from) =
           IF end < start THEN {}
           ELSE schedule_occurrences(r.frequency, r.start, start, end, r.dom)
    BY DEF Occurrences
  <1>6. schedule_occurrences(r.frequency, r.start, start, end, r.dom)
           = {d \in start..end : Due(r.frequency, r.start, d, r.dom)}
    BY <1>1, <1>4, OccurrencesExact
  <1>7. \A d : Due(r.frequency, r.start, d, r.dom) => d >= r.start
    BY DEF Due
  <1>8. ASSUME NEW d
        PROVE  (d \in start..end /\ Due(r.frequency, r.start, d, r.dom))
                  <=> (d \in from..Through(from) /\ RuleDue(r, d))
    <2>1. RuleDue(r, d) <=> /\ Due(r.frequency, r.start, d, r.dom)
                            /\ r.end # None => d <= r.end
      BY DEF RuleDue
    <2> QED BY <1>2, <1>3, <1>7, <2>1
  <1> HIDE DEF start, end
  <1>9. end < start => {d \in start..end : Due(r.frequency, r.start, d, r.dom)} = {}
    BY <1>4
  <1> QED BY <1>5, <1>6, <1>8, <1>9

\* The dates of one rule have different slots.
LEMMA RuleSlots ==
    ASSUME NEW r \in Rules, NEW d \in Dates, NEW e \in Dates,
           RuleDue(r, d), RuleDue(r, e),
           projection_slot(r.frequency, r.start, d)
              = projection_slot(r.frequency, r.start, e)
    PROVE  d = e
  <1>1. /\ r.frequency \in Frequencies /\ r.dom \in Nat \ {0}
        /\ r.start \in Dates
    BY RulesAssumption
  <1>2. Due(r.frequency, r.start, d, r.dom) /\ Due(r.frequency, r.start, e, r.dom)
    BY DEF RuleDue
  <1> QED BY <1>1, <1>2, SlotsInjective

-----------------------------------------------------------------------------
(* What a refresh does to a row.                                           *)

\* Rows and schedules as the tables hold them.
RowsOK(evs) == \A k \in DOMAIN evs : /\ evs[k] \in Row
                                     /\ ~Open(evs[k]) => Visible(evs[k])
                                     /\ evs[k].blank => "label" \in evs[k].over
SchedulesOK(scheds) ==
    \A s \in DOMAIN scheds : scheds[s] \in [rule : Rules, active : BOOLEAN]

\* A new row has its type.
LEMMA NewRowTyped ==
    ASSUME NEW d \in Dates, NEW n \in Nat
    PROVE  /\ NewRow(d, n) \in Row
           /\ Open(NewRow(d, n)) /\ Visible(NewRow(d, n)) /\ Untouched(NewRow(d, n))
           /\ NewRow(d, n).blank = FALSE
           /\ NewRow(d, n).expected = d /\ NewRow(d, n).amount = n
  BY DEF NewRow, Row, Open, Visible, Untouched, OverrideFields

\* A row with another exclusion.
LEMMA ReasonUpdate ==
    ASSUME NEW e \in Row, NEW x \in {"none", "user", "schedule"}
    PROVE  LET f == [e EXCEPT !.reason = x]
           IN  /\ f \in Row
               /\ f.reason = x /\ f.expected = e.expected /\ f.amount = e.amount
               /\ f.over = e.over /\ f.blank = e.blank /\ f.status = e.status
  BY DEF Row

\* Tombstoning changes the exclusion of rows that nobody touched.
LEMMA Tombstoned ==
    ASSUME NEW evs, RowsOK(evs), NEW from, NEW k \in DOMAIN evs
    PROVE  LET c == tombstone(evs, from)
               hit == /\ IsScheduled(k) /\ Open(evs[k]) /\ Untouched(evs[k])
                      /\ InWindow(evs[k].expected, from) /\ evs[k].reason # "user"
           IN  /\ DOMAIN c = DOMAIN evs
               /\ c[k] \in Row
               /\ c[k].expected = evs[k].expected /\ c[k].amount = evs[k].amount
               /\ c[k].over = evs[k].over /\ c[k].blank = evs[k].blank
               /\ c[k].status = evs[k].status
               /\ hit => c[k].reason = "schedule"
               /\ ~hit => c[k] = evs[k]
  <1>1. evs[k] \in Row
    BY DEF RowsOK
  <1>2. [evs[k] EXCEPT !.reason = "schedule"] \in Row
        /\ [evs[k] EXCEPT !.reason = "schedule"].reason = "schedule"
        /\ [evs[k] EXCEPT !.reason = "schedule"].expected = evs[k].expected
        /\ [evs[k] EXCEPT !.reason = "schedule"].amount = evs[k].amount
        /\ [evs[k] EXCEPT !.reason = "schedule"].over = evs[k].over
        /\ [evs[k] EXCEPT !.reason = "schedule"].blank = evs[k].blank
        /\ [evs[k] EXCEPT !.reason = "schedule"].status = evs[k].status
    BY <1>1, ReasonUpdate
  <1> QED BY <1>1, <1>2 DEF tombstone

\* What the upsert leaves in a slot.
LEMMA Upserted ==
    ASSUME NEW evs, NEW k, NEW d \in Dates, NEW n \in Nat,
           k \in DOMAIN evs => evs[k] \in Row
    PROVE  LET u == upsert(evs, k, d, n)
           IN  /\ u \in Row
               /\ Open(u) => /\ u.expected = d /\ u.amount = n
                             /\ u.reason \in {"none", "user"}
               /\ k \notin DOMAIN evs => u = NewRow(d, n)
               /\ k \in DOMAIN evs =>
                     /\ u.over = evs[k].over /\ u.blank = evs[k].blank
                     /\ u.status = evs[k].status
                     /\ ~Open(evs[k]) => u = evs[k]
                     /\ Open(evs[k]) =>
                           u.reason = IF evs[k].reason = "user" THEN "user" ELSE "none"
  <1> DEFINE u == upsert(evs, k, d, n)
  <1>1. CASE k \notin DOMAIN evs
    <2>1. u = NewRow(d, n)
      BY <1>1 DEF upsert
    <2> HIDE DEF u
    <2>2. u.reason = "none"
      BY <2>1, NewRowTyped DEF Visible
    <2>3. u \in Row /\ u.expected = d /\ u.amount = n
      BY <2>1, NewRowTyped
    <2> QED BY <1>1, <2>1, <2>2, <2>3 DEF u
  <1>2. CASE k \in DOMAIN evs /\ Open(evs[k])
    <2> DEFINE x == IF evs[k].reason = "user" THEN "user" ELSE "none"
               f == [evs[k] EXCEPT !.expected = d, !.amount = n, !.reason = x]
    <2>1. u = f
      BY <1>2 DEF upsert
    <2>2. x \in {"none", "user", "schedule"} /\ x \in {"none", "user"}
      OBVIOUS
    <2> HIDE DEF x
    <2>a. evs[k] \in Row
      BY <1>2
    <2>3. /\ f \in Row /\ f.expected = d /\ f.amount = n /\ f.reason = x
          /\ f.over = evs[k].over /\ f.blank = evs[k].blank
          /\ f.status = evs[k].status
      BY <2>a, <2>2 DEF Row
    <2> HIDE DEF f
    <2> QED BY <1>2, <2>1, <2>2, <2>3 DEF x
  <1>3. CASE k \in DOMAIN evs /\ ~Open(evs[k])
    <2>1. u = evs[k]
      BY <1>3 DEF upsert
    <2> QED BY <1>3, <2>1
  <1> QED BY <1>1, <1>2, <1>3

\* The same for an open row of the tombstoned table.
LEMMA UpsertedOpen ==
    ASSUME NEW evs, RowsOK(evs), NEW from, NEW k, NEW d \in Dates, NEW n \in Nat,
           NEW e, e = upsert(tombstone(evs, from), k, d, n), Open(e)
    PROVE  e.expected = d /\ e.amount = n /\ e.reason \in {"none", "user"}
  <1> DEFINE c == tombstone(evs, from)
             u == upsert(c, k, d, n)
  <1>1. k \in DOMAIN c => c[k] \in Row
    <2>1. DOMAIN c = DOMAIN evs
      BY DEF tombstone
    <2> QED BY <2>1, Tombstoned
  <1>2. e = u
    OBVIOUS
  <1> HIDE DEF c
  <1>3. Open(u) => /\ u.expected = d /\ u.amount = n
                   /\ u.reason \in {"none", "user"}
    BY <1>1, Upserted
  <1> HIDE DEF u
  <1> QED BY <1>2, <1>3

\* The slot that schedule s has for day d.
KeyOf(scheds, s, d) ==
    SlotKey(s, projection_slot(scheds[s].rule.frequency, scheds[s].rule.start, d))

\* What is generated comes from an active rule, on a day it falls on.
LEMMA GeneratedIsDue ==
    ASSUME NEW scheds, SchedulesOK(scheds), NEW from \in Days,
           NEW g \in Generated(scheds, from)
    PROVE  \E s \in DOMAIN scheds :
              /\ scheds[s].active
              /\ g.date \in from..Through(from) /\ g.date \in Dates
              /\ RuleDue(scheds[s].rule, g.date)
              /\ g.key = KeyOf(scheds, s, g.date)
              /\ g.amount = scheds[s].rule.amount /\ g.amount \in Nat
  <1>1. PICK s \in DOMAIN scheds : \E d :
            /\ scheds[s].active /\ d \in Occurrences(scheds[s].rule, from)
            /\ g = [key |-> KeyOf(scheds, s, d), date |-> d,
                    amount |-> scheds[s].rule.amount]
    BY DEF Generated, KeyOf
  <1>a. PICK d : /\ d \in Occurrences(scheds[s].rule, from)
                 /\ g = [key |-> KeyOf(scheds, s, d), date |-> d,
                         amount |-> scheds[s].rule.amount]
    BY <1>1
  <1>2. scheds[s].rule \in Rules
    BY DEF SchedulesOK
  <1>3. d \in from..Through(from) /\ RuleDue(scheds[s].rule, d)
    BY <1>a, <1>2, OccurrencesAreRuleDue
  <1>4. d \in Dates
    BY <1>3, WindowInCalendar
  <1>5. scheds[s].rule.amount \in Nat
    BY <1>2, RulesAssumption
  <1> QED BY <1>1, <1>a, <1>3, <1>4, <1>5

\* Every day that an active rule falls on is generated.
LEMMA DueIsGenerated ==
    ASSUME NEW scheds, SchedulesOK(scheds), NEW from \in Days,
           NEW s \in DOMAIN scheds, scheds[s].active,
           NEW d \in from..Through(from), RuleDue(scheds[s].rule, d)
    PROVE  \E g \in Generated(scheds, from) :
              g.key = KeyOf(scheds, s, d) /\ g.date = d
  <1>1. d \in Occurrences(scheds[s].rule, from)
    BY OccurrencesAreRuleDue DEF SchedulesOK
  <1>2. [key |-> KeyOf(scheds, s, d), date |-> d, amount |-> scheds[s].rule.amount]
           \in Generated(scheds, from)
    BY <1>1 DEF Generated, KeyOf
  <1> QED BY <1>2

\* Two generated rows with one key have one date.
LEMMA GeneratedOnce ==
    ASSUME NEW scheds, SchedulesOK(scheds), NEW from \in Days,
           NEW g \in Generated(scheds, from), NEW h \in Generated(scheds, from),
           g.key = h.key
    PROVE  g.date = h.date
  <1>1. PICK s \in DOMAIN scheds : /\ g.date \in Dates
                                   /\ RuleDue(scheds[s].rule, g.date)
                                   /\ g.key = KeyOf(scheds, s, g.date)
    BY GeneratedIsDue
  <1>2. PICK t \in DOMAIN scheds : /\ h.date \in Dates
                                   /\ RuleDue(scheds[t].rule, h.date)
                                   /\ h.key = KeyOf(scheds, t, h.date)
    BY GeneratedIsDue
  <1>3. /\ s = t
        /\ projection_slot(scheds[s].rule.frequency, scheds[s].rule.start, g.date)
             = projection_slot(scheds[s].rule.frequency, scheds[s].rule.start, h.date)
    <2> DEFINE slot(x, d) == projection_slot(scheds[x].rule.frequency,
                                             scheds[x].rule.start, d)
    <2>1. <<"slot", s, slot(s, g.date)>> = <<"slot", t, slot(t, h.date)>>
      BY <1>1, <1>2 DEF KeyOf, SlotKey
    <2> HIDE DEF slot
    <2>2. s = t /\ slot(s, g.date) = slot(t, h.date)
      BY <2>1
    <2> QED BY <2>2 DEF slot
  <1>4. scheds[s].rule \in Rules
    BY DEF SchedulesOK
  <1> QED BY <1>1, <1>2, <1>3, <1>4, RuleSlots

GeneratedKeys(scheds, from) == {g.key : g \in Generated(scheds, from)}
Refresh(evs, scheds, from) == refresh_stream_schedule_events_on(evs, scheds, from)

\* The rows after a refresh.
LEMMA RefreshedDomain ==
    ASSUME NEW evs, NEW scheds, NEW from
    PROVE  DOMAIN Refresh(evs, scheds, from)
              = DOMAIN evs \cup GeneratedKeys(scheds, from)
  BY DEF refresh_stream_schedule_events_on, Refresh, GeneratedKeys

\* What was generated for a slot is upserted into the tombstoned table.
LEMMA RefreshedSlot ==
    ASSUME NEW evs, NEW scheds, NEW from, NEW k \in GeneratedKeys(scheds, from)
    PROVE  \E g \in Generated(scheds, from) :
              /\ g.key = k
              /\ Refresh(evs, scheds, from)[k]
                   = upsert(tombstone(evs, from), k, g.date, g.amount)
  <1> DEFINE gen == Generated(scheds, from)
             pick == CHOOSE g \in gen : g.key = k
  <1>1. Refresh(evs, scheds, from)[k]
           = upsert(tombstone(evs, from), k, pick.date, pick.amount)
    BY DEF refresh_stream_schedule_events_on, Refresh, GeneratedKeys
  <1>2. pick \in gen /\ pick.key = k
    BY DEF GeneratedKeys
  <1> HIDE DEF pick
  <1> QED BY <1>1, <1>2

\* Other rows are only tombstoned.
LEMMA RefreshedOther ==
    ASSUME NEW evs, NEW scheds, NEW from, NEW k \in DOMAIN evs,
           k \notin GeneratedKeys(scheds, from)
    PROVE  Refresh(evs, scheds, from)[k] = tombstone(evs, from)[k]
  BY DEF refresh_stream_schedule_events_on, Refresh, GeneratedKeys

\* A refresh keeps the rows well formed, and keeps what the user did to them.
LEMMA RefreshKeeps ==
    ASSUME NEW evs, RowsOK(evs), NEW scheds, SchedulesOK(scheds), NEW from \in Days
    PROVE  LET new == Refresh(evs, scheds, from)
           IN  /\ RowsOK(new)
               /\ \A k \in DOMAIN evs :
                     /\ k \in DOMAIN new
                     /\ ~Open(evs[k]) => new[k] = evs[k]
                     /\ evs[k].reason = "user" => new[k].reason = "user"
                     /\ new[k].over = evs[k].over
                     /\ ~Untouched(evs[k]) /\ Visible(evs[k]) => Visible(new[k])
  <1> DEFINE new == Refresh(evs, scheds, from)
             gen == Generated(scheds, from)
             c == tombstone(evs, from)
             keys == GeneratedKeys(scheds, from)
  <1>1. /\ DOMAIN new = DOMAIN evs \cup keys
        /\ \A k \in keys : \E g \in gen :
              g.key = k /\ new[k] = upsert(c, k, g.date, g.amount)
        /\ \A k \in DOMAIN evs \ keys : new[k] = c[k]
    <2>1. DOMAIN new = DOMAIN evs \cup keys
      BY RefreshedDomain
    <2>2. \A k \in keys : \E g \in gen :
              g.key = k /\ new[k] = upsert(c, k, g.date, g.amount)
      BY RefreshedSlot
    <2>3. \A k \in DOMAIN evs \ keys : new[k] = c[k]
      BY RefreshedOther
    <2> QED BY <2>1, <2>2, <2>3
  <1>2. DOMAIN c = DOMAIN evs
    BY DEF tombstone
  <1>3. \A g \in gen : g.date \in Dates /\ g.amount \in Nat
    BY GeneratedIsDue
  <1> HIDE DEF new, gen, keys
  <1>4. ASSUME NEW k \in DOMAIN evs
        PROVE  /\ new[k] \in Row
               /\ ~Open(new[k]) => Visible(new[k])
               /\ new[k].blank => "label" \in new[k].over
               /\ ~Open(evs[k]) => new[k] = evs[k]
               /\ evs[k].reason = "user" => new[k].reason = "user"
               /\ new[k].over = evs[k].over
               /\ ~Untouched(evs[k]) /\ Visible(evs[k]) => Visible(new[k])
    <2>1. /\ evs[k] \in Row
          /\ ~Open(evs[k]) => Visible(evs[k])
          /\ evs[k].blank => "label" \in evs[k].over
      BY DEF RowsOK
    <2> DEFINE hit == /\ IsScheduled(k) /\ Open(evs[k]) /\ Untouched(evs[k])
                      /\ InWindow(evs[k].expected, from) /\ evs[k].reason # "user"
    <2>2. /\ c[k] \in Row
          /\ c[k].over = evs[k].over /\ c[k].blank = evs[k].blank
          /\ c[k].status = evs[k].status
          /\ hit => c[k].reason = "schedule"
          /\ ~hit => c[k] = evs[k]
      BY Tombstoned
    <2>3. hit => Open(evs[k]) /\ Untouched(evs[k]) /\ evs[k].reason # "user"
      OBVIOUS
    <2> HIDE DEF hit, c
    <2>4. CASE k \notin keys
      <3>1. new[k] = c[k]
        BY <1>1, <2>4
      <3> QED BY <2>1, <2>2, <2>3, <3>1 DEF Open, Visible
    <2>5. CASE k \in keys
      <3>1. PICK g \in gen : new[k] = upsert(c, k, g.date, g.amount)
        BY <1>1, <2>5
      <3>2. k \in DOMAIN c /\ g.date \in Dates /\ g.amount \in Nat
        BY <1>2, <1>3
      <3>3. /\ new[k] \in Row
            /\ new[k].over = c[k].over /\ new[k].blank = c[k].blank
            /\ new[k].status = c[k].status
            /\ ~Open(c[k]) => new[k] = c[k]
            /\ Open(c[k]) =>
                  new[k].reason = IF c[k].reason = "user" THEN "user" ELSE "none"
        BY <2>2, <3>1, <3>2, Upserted
      <3>4. Open(c[k]) <=> Open(evs[k])
        BY <2>2 DEF Open
      <3>5. CASE Open(evs[k])
        <4>1. Open(new[k])
          BY <3>3, <3>4, <3>5 DEF Open
        <4>2. evs[k].reason = "user" <=> c[k].reason = "user"
          BY <2>2, <2>3
        <4>3. new[k].reason = IF evs[k].reason = "user" THEN "user" ELSE "none"
          BY <3>3, <3>4, <3>5, <4>2
        <4> QED BY <2>1, <2>2, <3>3, <3>5, <4>1, <4>3 DEF Visible
      <3>6. CASE ~Open(evs[k])
        <4>1. new[k] = evs[k]
          BY <2>2, <2>3, <3>3, <3>4, <3>6
        <4> QED BY <2>1, <3>6, <4>1
      <3> QED BY <3>5, <3>6
    <2> QED BY <2>4, <2>5
  <1>5. ASSUME NEW k \in keys, k \notin DOMAIN evs
        PROVE  /\ new[k] \in Row
               /\ ~Open(new[k]) => Visible(new[k])
               /\ new[k].blank => "label" \in new[k].over
    <2>1. PICK g \in gen : new[k] = upsert(c, k, g.date, g.amount)
      BY <1>1
    <2>2. g.date \in Dates /\ g.amount \in Nat
      BY <1>3
    <2>3. new[k] = NewRow(g.date, g.amount)
      BY <1>2, <1>5, <2>1 DEF upsert
    <2> QED BY <2>2, <2>3, NewRowTyped
  <1>6. RowsOK(new)
    BY <1>1, <1>4, <1>5 DEF RowsOK
  <1> QED BY <1>1, <1>4, <1>6 DEF new

\* What is open, visible and untouched in the window after a refresh is due.
LEMMA RefreshIsSound ==
    ASSUME NEW evs, RowsOK(evs), NEW scheds, SchedulesOK(scheds), NEW from \in Days,
           NEW k \in DOMAIN Refresh(evs, scheds, from), NEW e,
           e = Refresh(evs, scheds, from)[k],
           IsScheduled(k), Open(e), Untouched(e), Visible(e),
           InWindow(e.expected, from)
    PROVE  /\ k[2] \in DOMAIN scheds /\ scheds[k[2]].active
           /\ RuleDue(scheds[k[2]].rule, e.expected)
           /\ e.amount = scheds[k[2]].rule.amount
  <1>1. CASE k \notin GeneratedKeys(scheds, from)
    <2>1. k \in DOMAIN evs
      <3>1. DOMAIN Refresh(evs, scheds, from)
               = DOMAIN evs \cup GeneratedKeys(scheds, from)
        BY RefreshedDomain
      <3> QED BY <1>1, <3>1
    <2> DEFINE c == tombstone(evs, from)
               hit == /\ IsScheduled(k) /\ Open(evs[k]) /\ Untouched(evs[k])
                      /\ InWindow(evs[k].expected, from) /\ evs[k].reason # "user"
    <2>2. e = c[k]
      BY <1>1, <2>1, RefreshedOther
    <2>3. /\ c[k].expected = evs[k].expected /\ c[k].over = evs[k].over
          /\ c[k].status = evs[k].status
          /\ hit => c[k].reason = "schedule"
          /\ ~hit => c[k] = evs[k]
      BY <2>1, Tombstoned
    <2>4. hit
      <3>1. ASSUME ~hit PROVE FALSE
        <4>1. e = evs[k]
          BY <2>2, <2>3, <3>1
        <4>2. evs[k].reason # "user"
          BY <4>1 DEF Visible
        <4> QED BY <3>1, <4>1, <4>2
      <3> QED BY <3>1
    <2>5. c[k].reason = "schedule"
      BY <2>3, <2>4
    <2> HIDE DEF c, hit
    <2> QED BY <2>2, <2>5 DEF Visible
  <1>2. CASE k \in GeneratedKeys(scheds, from)
    <2>1. PICK g \in Generated(scheds, from) :
             g.key = k /\ e = upsert(tombstone(evs, from), k, g.date, g.amount)
      BY <1>2, RefreshedSlot
    <2>2. PICK s \in DOMAIN scheds :
              /\ scheds[s].active /\ g.date \in Dates
              /\ RuleDue(scheds[s].rule, g.date)
              /\ g.key = KeyOf(scheds, s, g.date)
              /\ g.amount = scheds[s].rule.amount /\ g.amount \in Nat
      BY GeneratedIsDue
    <2>3. k[2] = s
      BY <2>1, <2>2 DEF KeyOf, SlotKey
    <2>4. e.expected = g.date /\ e.amount = g.amount
      BY <2>1, <2>2, UpsertedOpen
    <2> QED BY <2>2, <2>3, <2>4
  <1> QED BY <1>1, <1>2

\* Every day of the window that a rule falls on has its row after a refresh.
LEMMA RefreshIsComplete ==
    ASSUME NEW evs, RowsOK(evs), NEW scheds, SchedulesOK(scheds), NEW from \in Days,
           NEW s \in DOMAIN scheds, scheds[s].active,
           NEW d \in from..Through(from), RuleDue(scheds[s].rule, d), NEW e,
           e = Refresh(evs, scheds, from)[KeyOf(scheds, s, d)]
    PROVE  /\ KeyOf(scheds, s, d) \in DOMAIN Refresh(evs, scheds, from)
           /\ Open(e) => e.expected = d /\ e.reason \in {"none", "user"}
  <1> DEFINE k == KeyOf(scheds, s, d)
  <1>1. PICK h \in Generated(scheds, from) : h.key = k /\ h.date = d
    BY DueIsGenerated
  <1>2. k \in GeneratedKeys(scheds, from)
    BY <1>1 DEF GeneratedKeys
  <1> HIDE DEF k
  <1>3. PICK g \in Generated(scheds, from) :
           g.key = k /\ Refresh(evs, scheds, from)[k]
                          = upsert(tombstone(evs, from), k, g.date, g.amount)
    BY <1>2, RefreshedSlot
  <1>4. g.date = d
    BY <1>1, <1>3, GeneratedOnce
  <1>5. g.date \in Dates /\ g.amount \in Nat
    BY GeneratedIsDue
  <1>6. e = Refresh(evs, scheds, from)[k]
    BY DEF k
  <1>7. e = upsert(tombstone(evs, from), k, g.date, g.amount)
    BY <1>3, <1>6
  <1>8. ASSUME Open(e) PROVE e.expected = g.date /\ e.reason \in {"none", "user"}
    BY <1>5, <1>7, <1>8, UpsertedOpen
  <1>9. DOMAIN Refresh(evs, scheds, from)
           = DOMAIN evs \cup GeneratedKeys(scheds, from)
    BY RefreshedDomain
  <1>10. k \in DOMAIN Refresh(evs, scheds, from)
    BY <1>2, <1>9
  <1> QED BY <1>4, <1>8, <1>10 DEF k

-----------------------------------------------------------------------------
(* The invariant.                                                          *)

\* A request under way has rules to save and a day to start from.
EditorsOK ==
    /\ DOMAIN editor = Editors
    /\ \A w \in Editors : editor[w] # Idle =>
          /\ editor[w].from \in Days /\ editor[w].base # "deleted"
          /\ \A i \in DOMAIN editor[w].rules : editor[w].rules[i] \in Rules

\* The slot of a frequency tied to the calendar is that of date d, which is not
\* before the middle of its month where there are two slots in a month.
SlotOf(slot, d) ==
    slot[1] \in Calendar =>
        /\ slot = projection_slot(slot[1], None, d)
        /\ slot[1] = "semimonthly" => day(d) >= MidDay

\* A generated row is named by a slot, which for the frequencies tied to the
\* calendar is the period of its expected date; a manual row is not excluded.
SlotsOK(evs) ==
    \A k \in DOMAIN evs :
        /\ IsScheduled(k) =>
              /\ k = SlotKey(k[2], k[3])
              /\ SlotOf(k[3], evs[k].expected)
        /\ ~IsScheduled(k) => Visible(evs[k])

IInv == TypeOK /\ EditorsOK /\ SlotsOK(events)

\* The slots tied to the calendar do not depend on the start date.
LEMMA SlotOfDate ==
    ASSUME NEW f \in Frequencies, NEW a, NEW d
    PROVE  /\ projection_slot(f, a, d)[1] = f
           /\ f \in Calendar => projection_slot(f, a, d) = projection_slot(f, None, d)
  BY DEF Frequencies, Calendar, projection_slot

\* A day that a rule with two days a month falls on is not before the middle.
LEMMA NotBeforeMidDay ==
    ASSUME NEW d \in Dates, NEW a, NEW n, Due("semimonthly", a, d, n)
    PROVE  day(d) >= MidDay
  <1>1. day(d) = MidDay \/ d = last_of_month(month(d))
    BY DEF Due
  <1>2. /\ month(d) \in MonthNumbers
        /\ FirstDay[month(d)] \in Int /\ FirstDay[month(d) + 1] \in Int
        /\ MidDay \in Nat
    BY InItsMonth, MonthBounds, CalendarAssumption
  <1>3. FirstDay[month(d) + 1] > FirstDay[month(d)] + MidDay
    BY <1>2, CalendarAssumption
  <1>4. CASE day(d) = MidDay
    BY <1>2, <1>4
  <1>5. CASE d = last_of_month(month(d))
    <2>1. day(d) = FirstDay[month(d) + 1] - FirstDay[month(d)]
      BY <1>2, <1>5 DEF day, last_of_month
    <2> QED BY <1>2, <1>3, <2>1
  <1> QED BY <1>1, <1>4, <1>5

\* A refresh keeps the rows named by their slots.
LEMMA RefreshKeepsSlots ==
    ASSUME NEW evs, RowsOK(evs), SlotsOK(evs),
           NEW scheds, SchedulesOK(scheds), NEW from \in Days
    PROVE  SlotsOK(Refresh(evs, scheds, from))
  <1> DEFINE new == Refresh(evs, scheds, from)
             keys == GeneratedKeys(scheds, from)
  <1>1. DOMAIN new = DOMAIN evs \cup keys
    BY RefreshedDomain
  <1>2. ASSUME NEW k \in DOMAIN evs, k \notin keys
        PROVE  /\ new[k].expected = evs[k].expected
               /\ ~IsScheduled(k) => new[k] = evs[k]
    <2>1. new[k] = tombstone(evs, from)[k]
      BY <1>2, RefreshedOther
    <2> HIDE DEF new
    <2> QED BY <2>1, Tombstoned
  <1>3. ASSUME NEW k \in keys
        PROVE  /\ IsScheduled(k) /\ k = SlotKey(k[2], k[3])
               /\ SlotOf(k[3], new[k].expected)
    <2>1. PICK g \in Generated(scheds, from) :
             g.key = k /\ new[k] = upsert(tombstone(evs, from), k, g.date, g.amount)
      BY RefreshedSlot
    <2>2. PICK s \in DOMAIN scheds :
              /\ g.date \in Dates /\ RuleDue(scheds[s].rule, g.date)
              /\ g.key = KeyOf(scheds, s, g.date) /\ g.amount \in Nat
      BY GeneratedIsDue
    <2> DEFINE f == scheds[s].rule.frequency
               p == projection_slot(f, scheds[s].rule.start, g.date)
    <2>3. f \in Frequencies
      BY RulesAssumption DEF SchedulesOK
    <2>4. k = <<"slot", s, p>>
      BY <2>1, <2>2 DEF KeyOf, SlotKey
    <2>a. f = "semimonthly" => day(g.date) >= MidDay
      BY <2>2, NotBeforeMidDay DEF RuleDue
    <2>b. p[1] = f /\ (f \in Calendar => p = projection_slot(f, None, g.date))
      BY <2>3, SlotOfDate
    <2>5. SlotOf(p, g.date)
      BY <2>a, <2>b DEF SlotOf
    <2> HIDE DEF new, p, f
    <2>6. k[1] = "slot" /\ k[2] = s /\ k[3] = p
      BY <2>4
    <2>7. IsScheduled(k) /\ k = SlotKey(k[2], k[3])
      BY <2>4, <2>6 DEF IsScheduled, SlotKey
    <2>8. CASE Open(new[k])
      <3>1. new[k].expected = g.date
        BY <2>1, <2>2, <2>8, UpsertedOpen
      <3> QED BY <2>5, <2>6, <2>7, <3>1
    <2>9. CASE ~Open(new[k])
      <3>1. k \in DOMAIN evs /\ new[k] = evs[k]
        <4>1. CASE k \notin DOMAIN tombstone(evs, from)
          <5>1. g.date \in Dates /\ g.amount \in Nat
            BY <2>2
          <5>2. Open(NewRow(g.date, g.amount))
            BY <5>1, NewRowTyped
          <5> QED BY <2>1, <2>9, <4>1, <5>2 DEF upsert
        <4>2. CASE k \in DOMAIN tombstone(evs, from)
          <5>1. k \in DOMAIN evs
            BY <4>2 DEF tombstone
          <5>2. /\ tombstone(evs, from)[k].status = evs[k].status
                /\ ~Open(evs[k]) => tombstone(evs, from)[k] = evs[k]
            BY <5>1, Tombstoned
          <5>3. tombstone(evs, from)[k] \in Row
            BY <5>1, Tombstoned
          <5>4. new[k].status = tombstone(evs, from)[k].status
            BY <2>1, <2>2, <4>2, <5>3, Upserted
          <5>5. ~Open(tombstone(evs, from)[k]) /\ ~Open(evs[k])
            BY <2>9, <5>2, <5>4 DEF Open
          <5> QED BY <2>1, <4>2, <5>1, <5>2, <5>5 DEF upsert
        <4> QED BY <4>1, <4>2
      <3> QED BY <2>7, <3>1 DEF SlotsOK
    <2> QED BY <2>8, <2>9
  <1> HIDE DEF new, keys
  <1>4. ASSUME NEW k \in DOMAIN new
        PROVE  /\ IsScheduled(k) =>
                      /\ k = SlotKey(k[2], k[3])
                      /\ SlotOf(k[3], new[k].expected)
               /\ ~IsScheduled(k) => Visible(new[k])
    <2>1. CASE k \in keys
      BY <1>3, <2>1
    <2>2. CASE k \notin keys
      <3>1. k \in DOMAIN evs
        BY <1>1, <2>2
      <3>2. /\ new[k].expected = evs[k].expected
            /\ ~IsScheduled(k) => new[k] = evs[k]
        BY <1>2, <2>2, <3>1
      <3> QED BY <3>1, <3>2 DEF SlotsOK
    <2> QED BY <2>1, <2>2
  <1>5. SlotsOK(new)
    BY <1>4 DEF SlotsOK
  <1> QED BY <1>5 DEF new

\* TypeOK by its tables.
LEMMA Tables ==
    TypeOK <=> /\ today \in Days
               /\ stream \in {"absent", "active", "deleted"}
               /\ DOMAIN schedules \subseteq ScheduleIds
               /\ SchedulesOK(schedules)
               /\ RowsOK(events)
               /\ ops \in 0..MaxOps
  BY DEF TypeOK, Days, SchedulesOK, RowsOK

\* A table with one row changed.
LEMMA ChangedRow ==
    ASSUME RowsOK(events), NEW k \in DOMAIN events, NEW e \in Row,
           ~Open(e) => Visible(e), e.blank => "label" \in e.over, Change(k, e)
    PROVE  /\ RowsOK(events') /\ DOMAIN events' = DOMAIN events
           /\ events'[k] = e
           /\ \A j \in DOMAIN events : j # k => events'[j] = events[j]
  BY DEF RowsOK, Change

\* What a patch makes of a row.
LEMMA PatchedRow ==
    ASSUME NEW e \in Row, Open(e), e.blank => "label" \in e.over,
           NEW f \in OverrideFields
    PROVE  /\ LET a == [e EXCEPT !.over = @ \cup {f}, !.blank = @ /\ f # "label"]
              IN  /\ a \in Row /\ Open(a) /\ a.reason = e.reason
                  /\ a.blank => "label" \in a.over
           /\ f # "label" =>
                 LET b == [e EXCEPT !.over = @ \ {f}]
                 IN  /\ b \in Row /\ Open(b) /\ b.reason = e.reason
                     /\ b.blank => "label" \in b.over
           /\ LET c == [e EXCEPT !.over = @ \cup {"label"}, !.blank = TRUE]
              IN  /\ c \in Row /\ Open(c) /\ c.reason = e.reason
                  /\ "label" \in c.over
  BY DEF Row, Open, OverrideFields

\* What a user's change of row k does: the row was open, and the others stay.
UserChange(k) ==
    /\ Open(events[k])
    /\ DOMAIN events' \subseteq DOMAIN events
    /\ \A j \in DOMAIN events : j # k => j \in DOMAIN events' /\ events'[j] = events[j]
    /\ IsScheduled(k) => k \in DOMAIN events'
    /\ k \in DOMAIN events' =>
          /\ events'[k].expected = events[k].expected
          /\ events'[k].reason # events[k].reason =>
                IsScheduled(k) /\ events'[k].reason = "user"
    /\ RowsOK(events')
    /\ ops' = ops + 1 /\ ops' \in 0..MaxOps /\ projected' = None
    /\ UNCHANGED <<today, stream, schedules, manuals, editor>>

\* The same for a change that updates the row.
LEMMA RowChange ==
    ASSUME RowsOK(events), ops \in 0..MaxOps, NEW k \in DOMAIN events, NEW e \in Row,
           Open(events[k]), ~Open(e) => Visible(e), e.blank => "label" \in e.over,
           e.expected = events[k].expected,
           e.reason # events[k].reason => IsScheduled(k) /\ e.reason = "user",
           Change(k, e)
    PROVE  UserChange(k)
  <1>1. /\ RowsOK(events') /\ DOMAIN events' = DOMAIN events
        /\ events'[k] = e
        /\ \A j \in DOMAIN events : j # k => events'[j] = events[j]
    BY ChangedRow
  <1>2. ops' = ops + 1 /\ ops' \in 0..MaxOps
    BY DaysAssumption DEF Change, Operation
  <1>3. projected' = None /\ UNCHANGED <<today, stream, schedules, manuals, editor>>
    BY DEF Change
  <1> QED BY <1>1, <1>2, <1>3 DEF UserChange

LEMMA Patches ==
    ASSUME RowsOK(events), ops \in 0..MaxOps, NEW k \in DOMAIN events, patch_event(k)
    PROVE  UserChange(k)
  <1> DEFINE e == events[k]
  <1>1. /\ e \in Row /\ Open(e)
        /\ e.blank => "label" \in e.over
    BY DEF RowsOK, patch_event
  <1>2. /\ "label" \notin Clearable /\ "label" \in OverrideFields
        /\ Clearable \subseteq OverrideFields
    BY DaysAssumption DEF OverrideFields
  <1>3. ASSUME NEW f \in OverrideFields,
               Change(k, [events[k] EXCEPT !.over = @ \cup {f}, !.blank = @ /\ f # "label"])
        PROVE  UserChange(k)
    <2> DEFINE a == [e EXCEPT !.over = @ \cup {f}, !.blank = @ /\ f # "label"]
    <2>1. /\ a \in Row /\ Open(a) /\ a.reason = e.reason
          /\ a.blank => "label" \in a.over
      BY <1>1, PatchedRow
    <2>2. a.expected = e.expected
      BY <1>1 DEF Row
    <2>3. Change(k, a)
      BY <1>3
    <2> HIDE DEF a
    <2> QED BY <1>1, <2>1, <2>2, <2>3, RowChange
  <1>4. ASSUME NEW f \in Clearable, Change(k, [events[k] EXCEPT !.over = @ \ {f}])
        PROVE  UserChange(k)
    <2> DEFINE b == [e EXCEPT !.over = @ \ {f}]
    <2>0. f \in OverrideFields /\ f # "label"
      BY <1>2
    <2>1. /\ b \in Row /\ Open(b) /\ b.reason = e.reason
          /\ b.blank => "label" \in b.over
      BY <1>1, <2>0, PatchedRow
    <2>2. b.expected = e.expected
      BY <1>1 DEF Row
    <2>3. Change(k, b)
      BY <1>4
    <2> HIDE DEF b
    <2> QED BY <1>1, <2>1, <2>2, <2>3, RowChange
  <1>5. ASSUME Change(k, [events[k] EXCEPT !.over = @ \cup {"label"}, !.blank = TRUE])
        PROVE  UserChange(k)
    <2> DEFINE c == [e EXCEPT !.over = @ \cup {"label"}, !.blank = TRUE]
    <2>1. /\ c \in Row /\ Open(c) /\ c.reason = e.reason /\ "label" \in c.over
      BY <1>1, <1>2, PatchedRow
    <2>2. c.expected = e.expected
      BY <1>1 DEF Row
    <2>3. Change(k, c)
      BY <1>5
    <2> HIDE DEF c
    <2> QED BY <1>1, <2>1, <2>2, <2>3, RowChange
  <1> QED BY <1>3, <1>4, <1>5 DEF patch_event

LEMMA Removes ==
    ASSUME RowsOK(events), ops \in 0..MaxOps, NEW k \in DOMAIN events, remove_event(k)
    PROVE  UserChange(k)
  <1>1. /\ events[k] \in Row /\ Open(events[k])
        /\ events[k].blank => "label" \in events[k].over
    BY DEF RowsOK, remove_event
  <1>2. CASE IsScheduled(k) /\ Change(k, [events[k] EXCEPT !.reason = "user"])
    <2> DEFINE e == [events[k] EXCEPT !.reason = "user"]
    <2>1. /\ e \in Row /\ e.reason = "user" /\ e.expected = events[k].expected
          /\ e.over = events[k].over /\ e.blank = events[k].blank
          /\ e.status = events[k].status
      BY <1>1, ReasonUpdate
    <2>2. Change(k, e)
      BY <1>2
    <2> HIDE DEF e
    <2>3. Open(e)
      BY <1>1, <2>1 DEF Open
    <2> QED BY <1>1, <1>2, <2>1, <2>2, <2>3, RowChange
  <1>3. CASE /\ ~IsScheduled(k)
             /\ Operation
             /\ events' = [j \in DOMAIN events \ {k} |-> events[j]]
             /\ projected' = None
             /\ UNCHANGED <<today, stream, schedules, manuals, editor>>
    <2>1. ops' = ops + 1 /\ ops' \in 0..MaxOps
      BY <1>3, DaysAssumption DEF Operation
    <2>2. /\ DOMAIN events' = DOMAIN events \ {k}
          /\ \A j \in DOMAIN events : j # k => events'[j] = events[j]
      BY <1>3
    <2>3. RowsOK(events')
      BY <2>2 DEF RowsOK
    <2> QED BY <1>1, <1>3, <2>1, <2>2, <2>3 DEF UserChange
  <1> QED BY <1>2, <1>3 DEF remove_event

LEMMA Reconciles ==
    ASSUME RowsOK(events), ops \in 0..MaxOps, NEW k \in DOMAIN events, reconcile_event(k)
    PROVE  UserChange(k)
  <1> DEFINE e == [events[k] EXCEPT !.status = "received"]
  <1>1. /\ events[k] \in Row /\ Open(events[k]) /\ Visible(events[k])
        /\ events[k].blank => "label" \in events[k].over
    BY DEF RowsOK, reconcile_event
  <1>2. /\ e \in Row /\ e.reason = events[k].reason /\ e.expected = events[k].expected
        /\ e.over = events[k].over /\ e.blank = events[k].blank
    BY <1>1 DEF Row
  <1>3. Change(k, e)
    BY DEF reconcile_event
  <1> HIDE DEF e
  <1>4. Visible(e)
    BY <1>1, <1>2 DEF Visible
  <1> QED BY <1>1, <1>2, <1>3, <1>4, RowChange

-----------------------------------------------------------------------------
(* The invariant is kept.                                                  *)

LEMMA RequestKeeps ==
    ASSUME IInv, NEW w \in Editors, NEW kind, NEW rules, stream # "deleted",
           \A i \in DOMAIN rules : rules[i] \in Rules, Request(w, kind, rules)
    PROVE  IInv'
  <1>1. EditorsOK'
    <2>1. editor' = [editor EXCEPT ![w] = [kind |-> kind, rules |-> rules,
                                           from |-> today, base |-> stream]]
      BY DEF Request
    <2>2. today \in Days
      BY Tables DEF IInv
    <2> QED BY <2>1, <2>2 DEF IInv, EditorsOK
  <1>2. TypeOK'
    BY DaysAssumption DEF IInv, TypeOK, Request, Operation
  <1>3. SlotsOK(events)'
    BY DEF IInv, SlotsOK, Request
  <1> QED BY <1>1, <1>2, <1>3 DEF IInv

LEMMA ReadsKeep ==
    ASSUME IInv, NEW w \in Editors, save_list(w) \/ save_kept(w) \/ save_flattened(w)
    PROVE  IInv'
  <1>0. SchedulesOK(schedules)
    BY Tables DEF IInv
  <1>1. CASE save_list(w)
    <2>1. PICK rules : /\ \A i \in DOMAIN rules : rules[i] \in Rules
                       /\ Request(w, "list", rules)
      BY <1>1 DEF save_list
    <2> QED BY <1>1, <2>1, RequestKeeps DEF save_list
  <1>2. CASE save_kept(w)
    <2>1. \A s \in DOMAIN Snapshot : Snapshot[s] \in Rules
      BY <1>0 DEF Snapshot, ActiveIds, SchedulesOK
    <2>2. Request(w, "keep", Snapshot) /\ stream # "deleted"
      BY <1>2 DEF save_kept
    <2> QED BY <2>1, <2>2, RequestKeeps
  <1>3. CASE save_flattened(w)
    <2> DEFINE firsts == {s \in ActiveIds : \A t \in ActiveIds : s <= t}
               rest == [s \in ActiveIds \ firsts |-> schedules[s].rule]
    <2>1. \A s \in DOMAIN rest : rest[s] \in Rules
      BY <1>0 DEF ActiveIds, SchedulesOK
    <2>2. stream # "deleted"
      BY <1>3 DEF save_flattened
    <2>3. \/ Request(w, "first", rest)
          \/ \E id : \E r \in Rules :
                Request(w, "first", [s \in DOMAIN rest \cup {id} |->
                                       IF s = id THEN r ELSE rest[s]])
      BY <1>3 DEF save_flattened
    <2> HIDE DEF rest
    <2>4. CASE Request(w, "first", rest)
      BY <2>1, <2>2, <2>4, RequestKeeps
    <2>5. ASSUME NEW id, NEW r \in Rules,
                 Request(w, "first", [s \in DOMAIN rest \cup {id} |->
                                        IF s = id THEN r ELSE rest[s]])
          PROVE  IInv'
      <3> DEFINE rules == [s \in DOMAIN rest \cup {id} |->
                             IF s = id THEN r ELSE rest[s]]
      <3>1. \A i \in DOMAIN rules : rules[i] \in Rules
        BY <2>1
      <3>2. Request(w, "first", rules)
        BY <2>5
      <3> HIDE DEF rules
      <3> QED BY <2>2, <3>1, <3>2, RequestKeeps
    <2> QED BY <2>3, <2>4, <2>5
  <1> QED BY <1>1, <1>2, <1>3

\* The schedules that a save leaves.
LEMMA SavedSchedules ==
    ASSUME SchedulesOK(schedules), DOMAIN schedules \subseteq ScheduleIds, NEW rules,
           \A i \in DOMAIN rules : rules[i] \in Rules,
           None \in DOMAIN rules => NextId \in ScheduleIds
    PROVE  SchedulesOK(Saved(rules)) /\ DOMAIN Saved(rules) \subseteq ScheduleIds
  <1> DEFINE new == IF None \in DOMAIN rules THEN {NextId} ELSE {}
  <1>1. DOMAIN Saved(rules) = DOMAIN schedules \cup new
    BY DEF Saved
  <1>2. new \subseteq ScheduleIds /\ (new # {} => None \in DOMAIN rules)
    OBVIOUS
  <1>3. ASSUME NEW s \in DOMAIN schedules \cup new
        PROVE  Saved(rules)[s] \in [rule : Rules, active : BOOLEAN]
    <2>0. Saved(rules)[s] =
             IF s \in DOMAIN rules THEN [rule |-> rules[s], active |-> TRUE]
             ELSE IF s \notin DOMAIN schedules THEN [rule |-> rules[None], active |-> TRUE]
             ELSE [schedules[s] EXCEPT !.active = FALSE]
      BY DEF Saved, save_schedule_on
    <2>1. CASE s \in DOMAIN rules
      BY <2>0, <2>1
    <2>2. CASE s \notin DOMAIN rules /\ s \notin DOMAIN schedules
      <3>1. None \in DOMAIN rules
        BY <1>2, <2>2
      <3> QED BY <2>0, <2>2, <3>1
    <2>3. CASE s \notin DOMAIN rules /\ s \in DOMAIN schedules
      <3>1. schedules[s] \in [rule : Rules, active : BOOLEAN]
        BY <2>3 DEF SchedulesOK
      <3> QED BY <2>0, <2>3, <3>1
    <2> QED BY <2>1, <2>2, <2>3
  <1> QED BY <1>1, <1>2, <1>3 DEF SchedulesOK

\* A save is a refresh of well-formed tables.
LEMMA SaveIsRefresh ==
    ASSUME IInv, NEW w \in Editors, save_stream(w)
    PROVE  /\ projected' \in Days
           /\ events' = Refresh(events, schedules', projected')
           /\ SchedulesOK(schedules') /\ DOMAIN schedules' \subseteq ScheduleIds
           /\ RowsOK(events) /\ SlotsOK(events)
           /\ stream' = "active"
           /\ editor' = [editor EXCEPT ![w] = Idle]
           /\ UNCHANGED <<today, manuals, ops>>
  <1>1. editor[w] # Idle
    BY DEF save_stream
  <1>2. editor[w].from \in Days /\ \A i \in DOMAIN editor[w].rules : editor[w].rules[i] \in Rules
    BY <1>1 DEF IInv, EditorsOK
  <1>3. /\ SchedulesOK(schedules) /\ DOMAIN schedules \subseteq ScheduleIds
        /\ RowsOK(events)
    BY Tables DEF IInv
  <1>4. /\ None \in DOMAIN editor[w].rules => NextId \in ScheduleIds
        /\ schedules' = Saved(editor[w].rules)
        /\ projected' = editor[w].from
        /\ events' = refresh_stream_schedule_events_on(events, schedules', editor[w].from)
        /\ stream' = "active"
        /\ editor' = [editor EXCEPT ![w] = Idle]
        /\ UNCHANGED <<today, manuals, ops>>
    BY DEF save_stream
  <1>5. SchedulesOK(Saved(editor[w].rules)) /\ DOMAIN Saved(editor[w].rules) \subseteq ScheduleIds
    BY <1>2, <1>3, <1>4, SavedSchedules
  <1>6. events' = Refresh(events, schedules', projected')
    BY <1>4 DEF Refresh
  <1>7. projected' \in Days
    BY <1>2, <1>4
  <1>8. SchedulesOK(schedules') /\ DOMAIN schedules' \subseteq ScheduleIds
    BY <1>4, <1>5
  <1> QED BY <1>3, <1>4, <1>6, <1>7, <1>8 DEF IInv

\* Requests that end leave the others alone.
LEMMA EditorDone ==
    ASSUME EditorsOK, NEW w \in Editors, editor' = [editor EXCEPT ![w] = Idle]
    PROVE  EditorsOK'
  BY DEF EditorsOK

LEMMA SaveKeeps ==
    ASSUME IInv, NEW w \in Editors, save_stream(w)
    PROVE  IInv'
  <1>1. /\ projected' \in Days
        /\ events' = Refresh(events, schedules', projected')
        /\ SchedulesOK(schedules') /\ DOMAIN schedules' \subseteq ScheduleIds
        /\ RowsOK(events) /\ SlotsOK(events)
        /\ stream' = "active"
        /\ editor' = [editor EXCEPT ![w] = Idle]
        /\ UNCHANGED <<today, manuals, ops>>
    BY SaveIsRefresh
  <1>2. RowsOK(Refresh(events, schedules', projected'))
    BY <1>1, RefreshKeeps
  <1>3. SlotsOK(Refresh(events, schedules', projected'))
    BY <1>1, RefreshKeepsSlots
  <1>4. RowsOK(events)' /\ SlotsOK(events)' /\ SchedulesOK(schedules)'
    BY <1>1, <1>2, <1>3 DEF RowsOK, SlotsOK, SchedulesOK
  <1>5. EditorsOK'
    BY <1>1, EditorDone DEF IInv
  <1>6. today \in Days /\ ops \in 0..MaxOps
    BY Tables DEF IInv
  <1>7. TypeOK'
    BY <1>1, <1>4, <1>6 DEF TypeOK, RowsOK, SchedulesOK, Days
  <1> QED BY <1>4, <1>5, <1>7 DEF IInv

\* What a deletion does to a row.
LEMMA QuietRow ==
    ASSUME NEW k \in DOMAIN events, events[k] \in Row
    PROVE  /\ Quiet(events)[k] \in Row
           /\ Quiet(events)[k].expected = events[k].expected
           /\ Quiet(events)[k].over = events[k].over
           /\ Quiet(events)[k].blank = events[k].blank
           /\ Quiet(events)[k].status = events[k].status
           /\ IsScheduled(k) /\ Open(events[k]) /\ Visible(events[k])
                 => Quiet(events)[k].reason = "schedule"
           /\ ~(IsScheduled(k) /\ Open(events[k]) /\ Visible(events[k]))
                 => Quiet(events)[k] = events[k]
  <1> DEFINE f == [events[k] EXCEPT !.reason = "schedule"]
  <1>1. /\ f \in Row /\ f.reason = "schedule" /\ f.expected = events[k].expected
        /\ f.over = events[k].over /\ f.blank = events[k].blank
        /\ f.status = events[k].status
    BY ReasonUpdate
  <1>2. Quiet(events)[k] = IF IsScheduled(k) /\ Open(events[k]) /\ Visible(events[k])
                           THEN f ELSE events[k]
    BY DEF Quiet
  <1> HIDE DEF f
  <1> QED BY <1>1, <1>2

LEMMA DeleteKeeps ==
    ASSUME IInv, delete_stream
    PROVE  IInv' /\ DeletedStreamIsQuiet'
  <1>1. /\ SchedulesOK(schedules) /\ DOMAIN schedules \subseteq ScheduleIds
        /\ RowsOK(events) /\ today \in Days /\ ops \in 0..MaxOps
    BY Tables DEF IInv
  <1>2. ops' \in 0..MaxOps
    BY <1>1, DaysAssumption DEF delete_stream, Operation
  <1>3. /\ DOMAIN schedules' = DOMAIN schedules
        /\ \A s \in DOMAIN schedules : schedules'[s] = [schedules[s] EXCEPT !.active = FALSE]
    BY DEF delete_stream
  <1>4. ASSUME NEW s \in DOMAIN schedules
        PROVE  schedules'[s] \in [rule : Rules, active : BOOLEAN] /\ ~schedules'[s].active
    <2>1. schedules[s] \in [rule : Rules, active : BOOLEAN]
      BY <1>1 DEF SchedulesOK
    <2> QED BY <1>3, <2>1
  <1>5. events' = Quiet(events)
    BY DEF delete_stream
  <1>6. DOMAIN events' = DOMAIN events
    BY <1>5 DEF Quiet
  <1>7. ASSUME NEW k \in DOMAIN events
        PROVE  /\ events'[k] \in Row
               /\ ~Open(events'[k]) => Visible(events'[k])
               /\ events'[k].blank => "label" \in events'[k].over
               /\ events'[k].expected = events[k].expected
               /\ IsScheduled(k) /\ Open(events'[k]) => ~Visible(events'[k])
               /\ ~IsScheduled(k) => events'[k] = events[k]
    <2>1. /\ events[k] \in Row
          /\ ~Open(events[k]) => Visible(events[k])
          /\ events[k].blank => "label" \in events[k].over
      BY <1>1 DEF RowsOK
    <2> DEFINE e == Quiet(events)[k]
    <2>2. events'[k] = e
      BY <1>5
    <2>3. /\ e \in Row /\ e.expected = events[k].expected /\ e.over = events[k].over
          /\ e.blank = events[k].blank /\ e.status = events[k].status
          /\ IsScheduled(k) /\ Open(events[k]) /\ Visible(events[k]) => e.reason = "schedule"
          /\ ~(IsScheduled(k) /\ Open(events[k]) /\ Visible(events[k])) => e = events[k]
      BY <2>1, QuietRow
    <2> HIDE DEF e
    <2>4. Open(e) <=> Open(events[k])
      BY <2>3 DEF Open
    <2> QED BY <2>1, <2>2, <2>3, <2>4 DEF Visible
  <1>8. EditorsOK' /\ today' = today /\ stream' = "deleted"
    BY DEF IInv, EditorsOK, delete_stream
  <1>9. SlotsOK(events)'
    <2>1. SlotsOK(events)
      BY DEF IInv
    <2> QED BY <1>6, <1>7, <2>1 DEF SlotsOK
  <1>10. TypeOK'
    BY <1>1, <1>2, <1>3, <1>4, <1>6, <1>7, <1>8 DEF TypeOK, Days
  <1>11. DeletedStreamIsQuiet'
    BY <1>3, <1>4, <1>6, <1>7 DEF DeletedStreamIsQuiet, ActiveIds
  <1> QED BY <1>8, <1>9, <1>10, <1>11 DEF IInv

\* A manual event is one more row, which is not a generated one.
LEMMA ManualRow ==
    ASSUME IInv, create_manual_event
    PROVE  /\ IInv'
           /\ DOMAIN events \subseteq DOMAIN events'
           /\ \A k \in DOMAIN events : events'[k] = events[k]
           /\ \A k \in DOMAIN events' \ DOMAIN events : ~IsScheduled(k)
           /\ ops' = ops + 1
           /\ UNCHANGED <<schedules, stream, projected>>
  <1> DEFINE m == ManualKey(manuals + 1)
  <1>1. /\ SchedulesOK(schedules) /\ DOMAIN schedules \subseteq ScheduleIds
        /\ stream \in {"absent", "active", "deleted"}
        /\ RowsOK(events) /\ today \in Days /\ ops \in 0..MaxOps
    BY Tables DEF IInv
  <1>2. ops' = ops + 1 /\ ops' \in 0..MaxOps
    BY <1>1, DaysAssumption DEF create_manual_event, Operation
  <1>3. ~IsScheduled(m)
    BY DEF ManualKey, IsScheduled
  <1>4. events' = [k \in DOMAIN events \cup {m} |->
                     IF k \in DOMAIN events THEN events[k] ELSE NewRow(today, 0)]
    BY DEF create_manual_event
  <1>5. UNCHANGED <<today, stream, schedules, editor, projected>>
    BY DEF create_manual_event
  <1> HIDE DEF m
  <1>6. /\ DOMAIN events' = DOMAIN events \cup {m}
        /\ \A k \in DOMAIN events : events'[k] = events[k]
        /\ m \notin DOMAIN events => events'[m] = NewRow(today, 0)
    BY <1>4
  <1>7. today \in Dates
    BY <1>1, WindowInCalendar
  <1>8. /\ NewRow(today, 0) \in Row
        /\ Open(NewRow(today, 0)) /\ Visible(NewRow(today, 0))
        /\ NewRow(today, 0).blank = FALSE
    BY <1>7, NewRowTyped
  <1>9. RowsOK(events') /\ SlotsOK(events')
    <2>1. SlotsOK(events)
      BY DEF IInv
    <2>2. RowsOK(events')
      BY <1>1, <1>6, <1>8 DEF RowsOK
    <2>3. SlotsOK(events')
      BY <1>3, <1>6, <1>8, <2>1 DEF SlotsOK
    <2> QED BY <2>2, <2>3
  <1>10. TypeOK'
    BY <1>1, <1>2, <1>5, <1>9 DEF TypeOK, RowsOK, SchedulesOK, Days
  <1>11. EditorsOK' /\ SlotsOK(events)'
    BY <1>5, <1>9 DEF IInv, EditorsOK, SlotsOK
  <1> QED BY <1>2, <1>3, <1>5, <1>6, <1>10, <1>11 DEF IInv

\* A user's change of a row keeps the invariant.
LEMMA UserChangeKeeps ==
    ASSUME IInv, NEW k \in DOMAIN events, UserChange(k)
    PROVE  IInv'
  <1>1. /\ SchedulesOK(schedules) /\ DOMAIN schedules \subseteq ScheduleIds
        /\ stream \in {"absent", "active", "deleted"}
        /\ today \in Days /\ SlotsOK(events) /\ EditorsOK
    BY Tables DEF IInv
  <1>2. TypeOK'
    BY <1>1 DEF UserChange, TypeOK, RowsOK, SchedulesOK, Days
  <1>3. EditorsOK'
    BY <1>1 DEF UserChange, EditorsOK
  <1>4. ASSUME NEW j \in DOMAIN events'
        PROVE  /\ j \in DOMAIN events
               /\ events'[j].expected = events[j].expected
               /\ ~IsScheduled(j) => events'[j].reason = events[j].reason
    BY DEF UserChange
  <1>5. SlotsOK(events)'
    BY <1>1, <1>4 DEF SlotsOK, Visible
  <1> QED BY <1>2, <1>3, <1>5 DEF IInv

\* What a step that is not a save does to the rows.
LEMMA OtherSteps ==
    ASSUME IInv, [Next]_vars
    PROVE  \/ \E w \in Editors : save_stream(w)
           \/ delete_stream
           \/ create_manual_event
           \/ \E k \in DOMAIN events : UserChange(k)
           \/ UNCHANGED <<events, schedules, stream, projected>>
  <1>1. RowsOK(events) /\ ops \in 0..MaxOps
    BY Tables DEF IInv
  <1>2. \A w, kind, rules : Request(w, kind, rules)
                              => UNCHANGED <<events, schedules, stream, projected>>
    BY DEF Request
  <1>3. \A w \in Editors : save_list(w) \/ save_kept(w) \/ save_flattened(w)
                              => UNCHANGED <<events, schedules, stream, projected>>
    BY <1>2 DEF save_list, save_kept, save_flattened
  <1>4. \A w \in Editors : save_fails(w)
                              => UNCHANGED <<events, schedules, stream, projected>>
    BY DEF save_fails
  <1>5. ASSUME NEW k \in DOMAIN events, patch_event(k) \/ remove_event(k) \/ reconcile_event(k)
        PROVE  UserChange(k)
    BY <1>1, <1>5, Patches, Removes, Reconciles
  <1>6. NextDay => UNCHANGED <<events, schedules, stream, projected>>
    BY DEF NextDay
  <1>7. UNCHANGED vars => UNCHANGED <<events, schedules, stream, projected>>
    BY DEF vars
  <1> QED BY <1>3, <1>4, <1>5, <1>6, <1>7 DEF Next

\* The invariant holds at the start.
LEMMA InitIInv == Init => IInv
  <1> SUFFICES ASSUME Init PROVE IInv
    OBVIOUS
  <1>1. FirstToday \in FirstToday..LastToday
    BY DaysAssumption DEF Init
  <1> QED BY <1>1, DaysAssumption
          DEF Init, IInv, TypeOK, EditorsOK, SlotsOK, Idle

\* Every step keeps the invariant.
LEMMA NextIInv == IInv /\ [Next]_vars => IInv'
  <1> SUFFICES ASSUME IInv, [Next]_vars PROVE IInv'
    OBVIOUS
  <1>0. RowsOK(events) /\ ops \in 0..MaxOps
    BY Tables DEF IInv
  <1>1. ASSUME NEW w \in Editors, save_list(w) \/ save_kept(w) \/ save_flattened(w)
        PROVE  IInv'
    BY <1>1, ReadsKeep
  <1>2. ASSUME NEW w \in Editors, save_stream(w) PROVE IInv'
    BY <1>2, SaveKeeps
  <1>3. ASSUME NEW w \in Editors, save_fails(w) PROVE IInv'
    <2>1. EditorsOK'
      BY <1>3, EditorDone DEF IInv, save_fails
    <2>2. TypeOK' /\ SlotsOK(events)'
      BY <1>3 DEF IInv, TypeOK, SlotsOK, save_fails
    <2> QED BY <2>1, <2>2 DEF IInv
  <1>4. CASE delete_stream
    BY <1>4, DeleteKeeps
  <1>5. CASE create_manual_event
    BY <1>5, ManualRow
  <1>6. ASSUME NEW k \in DOMAIN events, patch_event(k) \/ remove_event(k) \/ reconcile_event(k)
        PROVE  IInv'
    <2>1. UserChange(k)
      BY <1>0, <1>6, Patches, Removes, Reconciles
    <2> QED BY <2>1, UserChangeKeeps
  <1>7. CASE NextDay
    <2>1. today' \in FirstToday..LastToday
      BY <1>7, DaysAssumption DEF IInv, TypeOK, NextDay
    <2>2. UNCHANGED <<stream, schedules, events, manuals, editor, projected, ops>>
      BY <1>7 DEF NextDay
    <2> QED BY <2>1, <2>2 DEF IInv, TypeOK, EditorsOK, SlotsOK
  <1>8. CASE UNCHANGED vars
    BY <1>8 DEF vars, IInv, TypeOK, EditorsOK, SlotsOK
  <1> QED BY <1>1, <1>2, <1>3, <1>4, <1>5, <1>6, <1>7, <1>8 DEF Next

-----------------------------------------------------------------------------
(* Theorems.                                                               *)

\* The tables keep their types and checks: a received row is never excluded.
THEOREM TypeCorrect == Spec => []TypeOK
  <1>1. IInv => TypeOK
    BY DEF IInv
  <1> QED BY <1>1, InitIInv, NextIInv, PTL DEF Spec

\* A row that was received is as it was recorded for ever: the refreshes of
\* save_stream, delete_stream and the users' operations all pass over it.
THEOREM ReceivedIsFinalAlways == Spec => ReceivedIsFinal
  <1>1. IInv /\ [Next]_vars =>
           \A k \in DOMAIN events : ~Open(events[k]) =>
              k \in DOMAIN events' /\ events'[k] = events[k]
    <2> SUFFICES ASSUME IInv, [Next]_vars, NEW k \in DOMAIN events, ~Open(events[k])
                 PROVE  k \in DOMAIN events' /\ events'[k] = events[k]
      OBVIOUS
    <2>1. RowsOK(events)
      BY Tables DEF IInv
    <2>2. ASSUME NEW w \in Editors, save_stream(w)
          PROVE  k \in DOMAIN events' /\ events'[k] = events[k]
      BY <2>2, SaveIsRefresh, RefreshKeeps
    <2>3. CASE delete_stream
      BY <2>3 DEF delete_stream, Quiet
    <2>4. CASE create_manual_event
      BY <2>4, ManualRow
    <2>5. ASSUME NEW j \in DOMAIN events, UserChange(j)
          PROVE  k \in DOMAIN events' /\ events'[k] = events[k]
      BY <2>5 DEF UserChange
    <2> QED BY <2>2, <2>3, <2>4, <2>5, OtherSteps
  <1>2. IInv /\ [Next]_vars =>
           [\A k \in DOMAIN events : ~Open(events[k]) =>
              k \in DOMAIN events' /\ events'[k] = events[k]]_vars
    BY <1>1
  <1> QED BY <1>2, InitIInv, NextIInv, PTL DEF Spec, ReceivedIsFinal

\* A row that the user removed stays removed, whatever rules are saved later.
THEOREM RemovedStaysRemovedAlways == Spec => RemovedStaysRemoved
  <1>1. IInv /\ [Next]_vars =>
           \A k \in DOMAIN events : events[k].reason = "user" =>
              k \in DOMAIN events' /\ events'[k].reason = "user"
    <2> SUFFICES ASSUME IInv, [Next]_vars, NEW k \in DOMAIN events,
                        events[k].reason = "user"
                 PROVE  k \in DOMAIN events' /\ events'[k].reason = "user"
      OBVIOUS
    <2>1. RowsOK(events) /\ SlotsOK(events)
      BY Tables DEF IInv
    <2>2. IsScheduled(k) /\ ~Visible(events[k])
      BY <2>1 DEF SlotsOK, Visible
    <2>3. ASSUME NEW w \in Editors, save_stream(w)
          PROVE  k \in DOMAIN events' /\ events'[k].reason = "user"
      BY <2>3, SaveIsRefresh, RefreshKeeps
    <2>4. CASE delete_stream
      BY <2>2, <2>4 DEF delete_stream, Quiet
    <2>5. CASE create_manual_event
      BY <2>5, ManualRow
    <2>6. ASSUME NEW j \in DOMAIN events, UserChange(j)
          PROVE  k \in DOMAIN events' /\ events'[k].reason = "user"
      BY <2>2, <2>6 DEF UserChange
    <2> QED BY <2>3, <2>4, <2>5, <2>6, OtherSteps
  <1>2. IInv /\ [Next]_vars =>
           [\A k \in DOMAIN events : events[k].reason = "user" =>
              k \in DOMAIN events' /\ events'[k].reason = "user"]_vars
    BY <1>1
  <1> QED BY <1>2, InitIInv, NextIInv, PTL DEF Spec, RemovedStaysRemoved

\* A save keeps every override and hides no row that has one.
THEOREM OverridesSurviveSavesAlways == Spec => OverridesSurviveSaves
  <1>1. IInv /\ [Next]_vars =>
           (events' # events /\ ops' = ops =>
              \A k \in DOMAIN events : ~Untouched(events[k]) =>
                 /\ k \in DOMAIN events'
                 /\ events'[k].over = events[k].over
                 /\ Visible(events[k]) => Visible(events'[k]))
    <2> SUFFICES ASSUME IInv, [Next]_vars, events' # events, ops' = ops,
                        NEW k \in DOMAIN events, ~Untouched(events[k])
                 PROVE  /\ k \in DOMAIN events'
                        /\ events'[k].over = events[k].over
                        /\ Visible(events[k]) => Visible(events'[k])
      OBVIOUS
    <2>1. RowsOK(events) /\ ops \in Int
      BY Tables, DaysAssumption DEF IInv
    <2>2. ASSUME NEW w \in Editors, save_stream(w)
          PROVE  /\ k \in DOMAIN events'
                 /\ events'[k].over = events[k].over
                 /\ Visible(events[k]) => Visible(events'[k])
      BY <2>2, SaveIsRefresh, RefreshKeeps
    <2>3. ops' # ops + 1
      BY <2>1
    <2>4. ~delete_stream
      BY <2>3 DEF delete_stream, Operation
    <2>5. ~create_manual_event
      BY <2>3 DEF create_manual_event, Operation
    <2>6. ~ \E j \in DOMAIN events : UserChange(j)
      BY <2>3 DEF UserChange
    <2> QED BY <2>2, <2>4, <2>5, <2>6, OtherSteps
  <1>2. IInv /\ [Next]_vars =>
           [events' # events /\ ops' = ops =>
              \A k \in DOMAIN events : ~Untouched(events[k]) =>
                 /\ k \in DOMAIN events'
                 /\ events'[k].over = events[k].over
                 /\ Visible(events[k]) => Visible(events'[k])]_vars
    BY <1>1
  <1> QED BY <1>2, InitIInv, NextIInv, PTL DEF Spec, OverridesSurviveSaves

\* Nothing of a deleted stream is expected: a save that was under way is
\* refused, and no operation on events makes a row visible again.
THEOREM DeletedStreamIsQuietAlways == Spec => []DeletedStreamIsQuiet
  <1>1. Init => DeletedStreamIsQuiet
    BY DEF Init, DeletedStreamIsQuiet
  <1>2. IInv /\ DeletedStreamIsQuiet /\ [Next]_vars => DeletedStreamIsQuiet'
    <2> SUFFICES ASSUME IInv, DeletedStreamIsQuiet, [Next]_vars
                 PROVE  DeletedStreamIsQuiet'
      OBVIOUS
    <2>1. ASSUME NEW w \in Editors, save_stream(w) PROVE DeletedStreamIsQuiet'
      BY <2>1 DEF save_stream, DeletedStreamIsQuiet
    <2>2. CASE delete_stream
      BY <2>2, DeleteKeeps
    <2>3. CASE create_manual_event
      BY <2>3, ManualRow DEF DeletedStreamIsQuiet, ActiveIds
    <2>4. ASSUME NEW k \in DOMAIN events, UserChange(k) PROVE DeletedStreamIsQuiet'
      <3>1. SUFFICES ASSUME stream = "deleted", NEW j \in DOMAIN events',
                            IsScheduled(j), Open(events'[j])
                     PROVE  ~Visible(events'[j])
        BY <2>4 DEF UserChange, DeletedStreamIsQuiet, ActiveIds
      <3>2. j \in DOMAIN events
        BY <2>4 DEF UserChange
      <3>3. CASE j # k
        BY <2>4, <3>1, <3>2, <3>3 DEF UserChange, DeletedStreamIsQuiet
      <3>4. CASE j = k
        <4>1. Open(events[k]) /\ ~Visible(events[k])
          BY <2>4, <3>1, <3>2, <3>4 DEF UserChange, DeletedStreamIsQuiet
        <4>2. events'[k].reason = events[k].reason \/ events'[k].reason = "user"
          BY <2>4, <3>1, <3>4 DEF UserChange
        <4> QED BY <3>4, <4>1, <4>2 DEF Visible
      <3> QED BY <3>3, <3>4
    <2>5. CASE UNCHANGED <<events, schedules, stream, projected>>
      BY <2>5 DEF DeletedStreamIsQuiet, ActiveIds
    <2> QED BY <2>1, <2>2, <2>3, <2>4, <2>5, OtherSteps
  <1> QED BY <1>1, <1>2, InitIInv, NextIInv, PTL DEF Spec

\* Days of one period have one slot.
LEMMA SamePeriodSameSlot ==
    ASSUME NEW f \in Calendar, NEW d \in Dates, NEW e \in Dates,
           SamePeriod(f, d, e),
           f = "semimonthly" => day(d) >= MidDay /\ day(e) >= MidDay
    PROVE  projection_slot(f, None, d) = projection_slot(f, None, e)
  <1>1. CASE f = "monthly"
    BY <1>1 DEF SamePeriod, projection_slot
  <1>2. CASE f = "annual"
    BY <1>2 DEF SamePeriod, projection_slot
  <1>3. CASE f = "semimonthly"
    <2>1. day(d) \in Int /\ day(e) \in Int /\ MidDay \in Int
      <3>1. month(d) \in MonthNumbers /\ month(e) \in MonthNumbers
        BY InItsMonth
      <3>2. FirstDay[month(d)] \in Int /\ FirstDay[month(e)] \in Int
        BY <3>1, MonthBounds
      <3>3. d \in Int /\ e \in Int /\ MidDay \in Int
        BY DatesAreIntegers, CalendarAssumption
      <3> QED BY <3>2, <3>3 DEF day
    <2>2. month(d) = month(e) /\ (day(d) <= MidDay <=> day(e) <= MidDay)
      BY <1>3 DEF SamePeriod
    <2>3. day(d) = MidDay <=> day(e) = MidDay
      BY <1>3, <2>1, <2>2
    <2> QED BY <1>3, <2>2, <2>3 DEF projection_slot
  <1> QED BY <1>1, <1>2, <1>3 DEF Calendar

\* A schedule with a frequency tied to the calendar has one row for a period.
THEOREM OneRowPerPeriodAlways == Spec => []OneRowPerPeriod
  <1>1. IInv => OneRowPerPeriod
    <2> SUFFICES ASSUME IInv, NEW j \in DOMAIN events, NEW k \in DOMAIN events,
                        IsScheduled(j), IsScheduled(k), j[2] = k[2],
                        j[3][1] = k[3][1], j[3][1] \in Calendar,
                        SamePeriod(j[3][1], events[j].expected, events[k].expected)
                 PROVE  j = k
      BY DEF OneRowPerPeriod
    <2>1. /\ SlotOf(j[3], events[j].expected) /\ j = SlotKey(j[2], j[3])
          /\ SlotOf(k[3], events[k].expected) /\ k = SlotKey(k[2], k[3])
      BY DEF IInv, SlotsOK
    <2>2. events[j].expected \in Dates /\ events[k].expected \in Dates
      BY DEF IInv, TypeOK, Row
    <2>3. j[3] = k[3]
      BY <2>1, <2>2, SamePeriodSameSlot DEF SlotOf
    <2> QED BY <2>1, <2>3
  <1> QED BY <1>1, InitIInv, NextIInv, PTL DEF Spec

\* After a save the window is exactly what the rules say.
THEOREM ProjectionIsExactAlways == Spec => []ProjectionIsExact
  <1>1. Init => ProjectionIsExact
    BY DEF Init, ProjectionIsExact
  <1>2. IInv /\ ProjectionIsExact /\ [Next]_vars => ProjectionIsExact'
    <2> SUFFICES ASSUME IInv, ProjectionIsExact, [Next]_vars
                 PROVE  ProjectionIsExact'
      OBVIOUS
    <2>1. ASSUME NEW w \in Editors, save_stream(w) PROVE ProjectionIsExact'
      <3>1. /\ projected' \in Days
            /\ events' = Refresh(events, schedules', projected')
            /\ SchedulesOK(schedules') /\ RowsOK(events)
        BY <2>1, SaveIsRefresh
      <3>2. ASSUME NEW k \in DOMAIN events', IsScheduled(k), Open(events'[k]),
                   Untouched(events'[k]), Visible(events'[k]),
                   InWindow(events'[k].expected, projected')
            PROVE  /\ k[2] \in DOMAIN schedules' /\ schedules'[k[2]].active
                   /\ RuleDue(schedules'[k[2]].rule, events'[k].expected)
                   /\ events'[k].amount = schedules'[k[2]].rule.amount
        BY <3>1, <3>2, RefreshIsSound
      <3>3. ASSUME NEW s \in DOMAIN schedules', schedules'[s].active,
                   NEW d \in projected'..Through(projected'),
                   RuleDue(schedules'[s].rule, d)
            PROVE  LET k == KeyOf(schedules', s, d)
                   IN  /\ k \in DOMAIN events'
                       /\ Open(events'[k]) => /\ events'[k].expected = d
                                              /\ events'[k].reason \in {"none", "user"}
        BY <3>1, <3>3, RefreshIsComplete
      <3> QED BY <3>2, <3>3 DEF ProjectionIsExact, ActiveIds, KeyOf
    <2>2. CASE delete_stream
      BY <2>2 DEF delete_stream, ProjectionIsExact
    <2>3. CASE create_manual_event
      <3>1. /\ DOMAIN events \subseteq DOMAIN events'
            /\ \A k \in DOMAIN events : events'[k] = events[k]
            /\ \A k \in DOMAIN events' \ DOMAIN events : ~IsScheduled(k)
            /\ UNCHANGED <<schedules, stream, projected>>
        BY <2>3, ManualRow
      <3> QED BY <3>1 DEF ProjectionIsExact, ActiveIds
    <2>4. ASSUME NEW k \in DOMAIN events, UserChange(k) PROVE ProjectionIsExact'
      BY <2>4 DEF UserChange, ProjectionIsExact
    <2>5. CASE UNCHANGED <<events, schedules, stream, projected>>
      BY <2>5 DEF ProjectionIsExact, ActiveIds
    <2> QED BY <2>1, <2>2, <2>3, <2>4, <2>5, OtherSteps
  <1> QED BY <1>1, <1>2, InitIInv, NextIInv, PTL DEF Spec
=============================================================================
