-------------------------- MODULE TmoImportProofs --------------------------
(***************************************************************************)
(* Proofs about TmoImport for every set of payments, every number of       *)
(* streams, editors and imports.                                           *)
(***************************************************************************)
EXTENDS TmoImport, SequenceTheorems, TLAPS

Entries == [id : Payments, check : BOOLEAN]

\* A capture is a finite sequence of payments.
LEMMA CaptureType ==
    ASSUME NEW capture \in Captures
    PROVE  /\ capture \in Seq(Entries)
           /\ Len(capture) \in Nat
           /\ DOMAIN capture = 1..Len(capture)
           /\ \A n \in DOMAIN capture : capture[n] \in Entries
<1>1. PICK n \in 0..MaxPayments : capture \in [1..n -> Entries]
  BY DEF Captures, Entries
<1>2. n \in Nat
  BY <1>1, BoundsAssumption
<1>3. capture \in Seq(Entries)
  BY <1>1, <1>2, SeqDef
<1>. QED  BY <1>3

\* In a valid capture every captured payment has one position.
LEMMA Positions ==
    ASSUME NEW capture \in Captures, validate_capture(capture)
    PROVE  /\ Captured(capture) \subseteq Payments
           /\ \A p \in Captured(capture) :
                 /\ At(capture, p) \in 1..Len(capture)
                 /\ capture[At(capture, p)].id = p
                 /\ capture[At(capture, p)].check \in BOOLEAN
<1>1. \A n \in DOMAIN capture : capture[n] \in Entries
  BY CaptureType
<1>2. Captured(capture) \subseteq Payments
  BY <1>1 DEF Captured, Entries
<1>3. ASSUME NEW p \in Captured(capture)
      PROVE  At(capture, p) \in DOMAIN capture /\ capture[At(capture, p)].id = p
  <2>1. \E n \in DOMAIN capture : capture[n].id = p
    BY DEF Captured
  <2>. QED  BY <2>1 DEF At
<1>4. DOMAIN capture = 1..Len(capture)
  BY CaptureType
<1>. QED  BY <1>1, <1>2, <1>3, <1>4 DEF Entries

-----------------------------------------------------------------------------
(* What the upserts leave behind, before anything is deleted.              *)

\* Rows of one stream, source and key are one row.
UniqueRows ==
    \A e, f \in DOMAIN events :
        /\ events[e].stream = events[f].stream
        /\ events[e].source = events[f].source
        /\ events[e].key = events[f].key
        => e = f

\* Every captured payment gets an event id of its own: that of its row in the
\* stream, or a new one.
LEMMA EventIds ==
    ASSUME TypeOK, NEW s, NEW capture \in Captures, validate_capture(capture)
    PROVE  /\ DOMAIN event_ids(s, capture) = Captured(capture)
           /\ \A p \in Captured(capture) :
                 \/ event_ids(s, capture)[p] \in RowsOf(s, p)
                 \/ /\ event_ids(s, capture)[p] \notin DOMAIN events
                    /\ RowsOf(s, p) = {}
           /\ \A p \in Captured(capture) :
                 event_ids(s, capture)[p] \in 1..(nextEvent + Len(capture) - 1)
           /\ \A p, q \in Captured(capture) :
                 event_ids(s, capture)[p] = event_ids(s, capture)[q] => p = q
<1>. DEFINE ids == event_ids(s, capture)
<1>1. DOMAIN ids = Captured(capture)
  BY DEF event_ids
<1>2. nextEvent \in Nat \ {0} /\ \A e \in DOMAIN events : e \in 1..(nextEvent - 1)
  BY DEF TypeOK
<1>3. Len(capture) \in Nat
  BY CaptureType
<1>4. \A p \in Captured(capture) : At(capture, p) \in 1..Len(capture)
                                   /\ capture[At(capture, p)].id = p
  BY Positions
<1>5. ASSUME NEW p \in Captured(capture)
      PROVE  \/ ids[p] \in RowsOf(s, p)
             \/ RowsOf(s, p) = {} /\ ids[p] = nextEvent + At(capture, p) - 1
  BY DEF event_ids
<1>6. \A p : RowsOf(s, p) \subseteq DOMAIN events
             /\ \A e \in RowsOf(s, p) : events[e].key = p
  BY DEF RowsOf
<1>. HIDE DEF ids
<1>7. ASSUME NEW p \in Captured(capture)
      PROVE  /\ ids[p] \in RowsOf(s, p) \/ (ids[p] \notin DOMAIN events /\ RowsOf(s, p) = {})
             /\ ids[p] \in 1..(nextEvent + Len(capture) - 1)
  BY <1>2, <1>3, <1>4, <1>5, <1>6
<1>8. ASSUME NEW p \in Captured(capture), NEW q \in Captured(capture), ids[p] = ids[q]
      PROVE  p = q
  BY <1>2, <1>3, <1>4, <1>5, <1>6, <1>8
<1>. QED  BY <1>1, <1>7, <1>8 DEF ids

\* The rows after the upsert.
LEMMA Upserted ==
    ASSUME TypeOK, NEW s, NEW capture \in Captures, validate_capture(capture)
    PROVE  /\ DOMAIN upsert_events(s, capture)
                  = DOMAIN events \cup {event_ids(s, capture)[p] : p \in Captured(capture)}
           /\ \A p \in Captured(capture) :
                 upsert_events(s, capture)[event_ids(s, capture)[p]]
                     = HistoryRow(s, p, capture[At(capture, p)].check)
           /\ \A e \in DOMAIN events :
                 (~\E p \in Captured(capture) : event_ids(s, capture)[p] = e)
                     => upsert_events(s, capture)[e] = events[e]
<1>. DEFINE ids == event_ids(s, capture)
            rows == upsert_events(s, capture)
<1>1. /\ DOMAIN ids = Captured(capture)
      /\ \A p, q \in Captured(capture) : ids[p] = ids[q] => p = q
  BY EventIds
<1>2. rows = [e \in DOMAIN events \cup {ids[p] : p \in DOMAIN ids} |->
                IF \E p \in DOMAIN ids : ids[p] = e
                THEN HistoryRow(s, CHOOSE q \in DOMAIN ids : ids[q] = e,
                                capture[At(capture, CHOOSE q \in DOMAIN ids : ids[q] = e)].check)
                ELSE events[e]]
  BY DEF upsert_events
<1>. HIDE DEF ids, rows
<1>3. ASSUME NEW p \in Captured(capture)
      PROVE  rows[ids[p]] = HistoryRow(s, p, capture[At(capture, p)].check)
  <2>1. (CHOOSE q \in DOMAIN ids : ids[q] = ids[p]) = p
    BY <1>1
  <2>. QED  BY <1>1, <1>2, <2>1
<1>. QED  BY <1>1, <1>2, <1>3 DEF ids, rows

-----------------------------------------------------------------------------
(* The inductive invariant.                                                *)

\* The form's trust-deed kind goes with its type, in rows and in drafts.
StreamsOK ==
    /\ \A s \in DOMAIN streams :
          streams[s].kind = "tmo_trust" => streams[s].type = "mortgage_portfolio"
    /\ \A w \in Editors :
          /\ drafts[w].kind = "tmo_trust" => drafts[w].type = "mortgage_portfolio"
          /\ drafts[w].id = 0 => drafts[w] = NoDraft

\* As long as no stream has changed its role, the stream of the last import is
\* the trust-deed stream until it is deleted.
TargetStays ==
    ~rekinded =>
        \A p \in DOMAIN links :
            LET s == events[links[p]].stream
            IN  streams[s].active =>
                    s \in Candidates /\ \A t \in Candidates : s <= t

IInv ==
    /\ TypeOK /\ StreamsOK /\ HistoryMatchesPayments
    /\ CountedOnce /\ TargetStays

LEMMA CandidatesAre ==
    ASSUME TypeOK, StreamsOK
    PROVE  Candidates = {s \in DOMAIN streams :
                            streams[s].active /\ streams[s].type = "mortgage_portfolio"}
BY DEF StreamsOK, Candidates

\* The trust-deed stream is the first one of its type.
LEMMA TargetIsFirst ==
    ASSUME TypeOK, StreamsOK, NEW s, require_trust_deed_stream(s)
    PROVE  s \in Candidates /\ \A t \in Candidates : s <= t
<1>1. Candidates \subseteq 1..Len(streams) /\ Len(streams) \in Nat
  BY DEF TypeOK, Candidates
<1>2. \A u, t \in Candidates : Ahead(u, t) => u < t
  BY <1>1, CandidatesAre DEF Ahead
<1>. QED  BY <1>1, <1>2 DEF require_trust_deed_stream

-----------------------------------------------------------------------------
(* What an import leaves behind.                                           *)

LEMMA Imported ==
    ASSUME IInv, NEW s, NEW capture \in Captures,
           replace_payment_projection(s, capture)
    PROVE  /\ DOMAIN links' = Captured(capture)
           /\ \A p \in Captured(capture) : links'[p] = event_ids(s, capture)[p]
           /\ DOMAIN payments' = Captured(capture)
           /\ \A p \in Captured(capture) : payments'[p] \in BOOLEAN
           /\ \A p \in Captured(capture) :
                 /\ event_ids(s, capture)[p] \in DOMAIN events'
                 /\ events'[event_ids(s, capture)[p]] = HistoryRow(s, p, payments'[p])
           /\ \A e \in DOMAIN events' :
                 \/ \E p \in Captured(capture) : event_ids(s, capture)[p] = e
                 \/ /\ e \in DOMAIN events /\ events'[e] = events[e]
                    /\ ~(events[e].stream = s /\ events[e].source = "tmo_history")
                    /\ \A q \in DOMAIN links : links[q] = e => q \in Captured(capture)
           /\ \A e \in DOMAIN events :
                 events[e].source = "stream_schedule" =>
                     e \in DOMAIN events' /\ events'[e] = events[e]
<1>. DEFINE ids == event_ids(s, capture)
            linked == upsert_links(s, capture)
            rows == upsert_events(s, capture)
            C == Captured(capture)
            gone == StaleEvents(linked, capture)
                      \cup OrphanEvents(s, rows, linked, capture)
                      \cup LegacyEvents(rows)
<1>0. TypeOK /\ HistoryMatchesPayments /\ validate_capture(capture)
  BY DEF IInv, replace_payment_projection
<1>1. /\ payments' = [p \in C |-> capture[At(capture, p)].check]
      /\ links' = [p \in {q \in C : linked[q] \notin gone} |-> linked[p]]
      /\ events' = [e \in DOMAIN rows \ gone |-> rows[e]]
  BY DEF replace_payment_projection
<1>2. /\ DOMAIN ids = C
      /\ \A p \in C : \/ ids[p] \in RowsOf(s, p)
                      \/ ids[p] \notin DOMAIN events
  BY <1>0, EventIds
<1>3. /\ DOMAIN rows = DOMAIN events \cup {ids[p] : p \in C}
      /\ \A p \in C : rows[ids[p]] = HistoryRow(s, p, capture[At(capture, p)].check)
      /\ \A e \in DOMAIN events : (~\E p \in C : ids[p] = e) => rows[e] = events[e]
  BY <1>0, Upserted
<1>4. /\ DOMAIN linked = DOMAIN links \cup C
      /\ \A p \in C : linked[p] = ids[p]
      /\ \A p \in DOMAIN links \ C : linked[p] = links[p]
  BY <1>2 DEF upsert_links
<1>5. \A p \in C : capture[At(capture, p)].check \in BOOLEAN
  BY <1>0, Positions
<1>6. \A p \in DOMAIN links :
          /\ links[p] \in DOMAIN events
          /\ events[links[p]].source = "tmo_history" /\ events[links[p]].key = p
  BY <1>0 DEF TypeOK, HistoryMatchesPayments, IsHistory
<1>7. \A p \in C : \A e \in RowsOf(s, p) :
          e \in DOMAIN events /\ events[e].stream = s /\ events[e].key = p
          /\ events[e].source = "tmo_history"
  BY DEF RowsOf
<1>. HIDE DEF ids, rows
<1>8. ASSUME NEW p \in C
      PROVE  ids[p] \notin gone
  <2>1. ids[p] \notin StaleEvents(linked, capture)
    BY <1>2, <1>4, <1>6, <1>7 DEF StaleEvents
  <2>2. ids[p] \notin OrphanEvents(s, rows, linked, capture)
    BY <1>4 DEF OrphanEvents
  <2>3. ids[p] \notin LegacyEvents(rows)
    <3>1. rows[ids[p]] = HistoryRow(s, p, capture[At(capture, p)].check)
      BY <1>3
    <3>2. HistoryRow(s, p, capture[At(capture, p)].check).source = "tmo_history"
      BY DEF HistoryRow, Row
    <3>. QED  BY <3>1, <3>2 DEF LegacyEvents
  <2>. QED  BY <2>1, <2>2, <2>3
<1>9. DOMAIN links' = C /\ \A p \in C : links'[p] = ids[p]
  BY <1>1, <1>4, <1>8
<1>10. \A p \in C : payments'[p] = capture[At(capture, p)].check /\ payments'[p] \in BOOLEAN
  BY <1>1, <1>5
<1>11. \A p \in C : ids[p] \in DOMAIN events'
                    /\ events'[ids[p]] = HistoryRow(s, p, payments'[p])
  BY <1>1, <1>3, <1>8, <1>10
<1>12. ASSUME NEW e \in DOMAIN events', ~\E p \in C : ids[p] = e
       PROVE  /\ e \in DOMAIN events /\ events'[e] = events[e]
              /\ ~(events[e].stream = s /\ events[e].source = "tmo_history")
              /\ \A q \in DOMAIN links : links[q] = e => q \in C
  <2>1. e \in DOMAIN rows /\ e \notin gone /\ events'[e] = rows[e]
    BY <1>1
  <2>2. e \in DOMAIN events /\ rows[e] = events[e]
    BY <1>3, <1>12, <2>1
  <2>3. ~(rows[e].stream = s /\ rows[e].source = "tmo_history")
    BY <1>4, <1>12, <2>1 DEF OrphanEvents
  <2>4. \A q \in DOMAIN links : links[q] = e => q \in C
    BY <1>4, <2>1 DEF StaleEvents
  <2>. QED  BY <2>1, <2>2, <2>3, <2>4
<1>13. ASSUME NEW e \in DOMAIN events, events[e].source = "stream_schedule"
       PROVE  e \in DOMAIN events' /\ events'[e] = events[e]
  <2>1. ~\E p \in C : ids[p] = e
    BY <1>2, <1>7, <1>13
  <2>2. e \in DOMAIN rows /\ rows[e] = events[e]
    BY <1>3, <2>1
  <2>3. e \notin StaleEvents(linked, capture)
    BY <1>4, <1>6, <1>13 DEF StaleEvents
  <2>4. e \notin OrphanEvents(s, rows, linked, capture) /\ e \notin LegacyEvents(rows)
    BY <1>13, <2>2 DEF OrphanEvents, LegacyEvents
  <2>. QED  BY <1>1, <2>2, <2>3, <2>4
<1>. QED  BY <1>1, <1>9, <1>10, <1>11, <1>12, <1>13 DEF ids

-----------------------------------------------------------------------------
(* Every step preserves the invariant.                                     *)

LEMMA HistoryRowType ==
    ASSUME NEW s \in 1..MaxStreams, NEW p \in Payments, NEW check \in BOOLEAN
    PROVE  /\ HistoryRow(s, p, check) \in EventRows
           /\ HistoryRow(s, p, check).stream = s
           /\ HistoryRow(s, p, check).source = "tmo_history"
           /\ HistoryRow(s, p, check).key = p
           /\ HistoryRow(s, p, check).status = IF check THEN "received" ELSE "confirmed"
BY DEF HistoryRow, Row, EventRows

LEMMA ImportStep ==
    ASSUME IInv, NEW s \in DOMAIN streams, NEW capture \in Captures,
           replace_payment_projection(s, capture)
    PROVE  IInv'
<1>. DEFINE ids == event_ids(s, capture)
            C == Captured(capture)
<1>0. /\ TypeOK /\ StreamsOK /\ HistoryMatchesPayments /\ CountedOnce /\ TargetStays
      /\ validate_capture(capture) /\ require_trust_deed_stream(s)
      /\ UNCHANGED <<streams, drafts, rekinded>>
      /\ nextEvent' = nextEvent + Len(capture) /\ Operation
  BY DEF IInv, replace_payment_projection
<1>1. /\ DOMAIN links' = C
      /\ \A p \in C : links'[p] = ids[p]
      /\ DOMAIN payments' = C
      /\ \A p \in C : payments'[p] \in BOOLEAN
      /\ \A p \in C : ids[p] \in DOMAIN events'
                      /\ events'[ids[p]] = HistoryRow(s, p, payments'[p])
      /\ \A e \in DOMAIN events' :
            \/ \E p \in C : ids[p] = e
            \/ /\ e \in DOMAIN events /\ events'[e] = events[e]
               /\ ~(events[e].stream = s /\ events[e].source = "tmo_history")
               /\ \A q \in DOMAIN links : links[q] = e => q \in C
  BY Imported
<1>2. C \subseteq Payments
  BY <1>0, Positions
<1>3. s \in 1..MaxStreams /\ Len(streams) \in Nat /\ MaxStreams \in Nat
  BY <1>0, BoundsAssumption DEF TypeOK
<1>4. Len(capture) \in Nat /\ nextEvent \in Nat \ {0}
  BY <1>0, CaptureType DEF TypeOK
<1>5. \A p \in C : ids[p] \in 1..(nextEvent' - 1)
  <2>1. \A p \in C : ids[p] \in 1..(nextEvent + Len(capture) - 1)
    BY <1>0, EventIds
  <2>. HIDE DEF ids, C
  <2>. QED  BY <1>0, <1>4, <2>1
<1>6. \A p \in C : LET r == events'[ids[p]]
                   IN  /\ r \in EventRows /\ r.stream = s
                       /\ r.source = "tmo_history" /\ r.key = p
                       /\ r.status = IF payments'[p] THEN "received" ELSE "confirmed"
  BY <1>1, <1>2, <1>3, HistoryRowType
<1>. HIDE DEF ids, C
<1>7. TypeOK'
  <2>1. \A e \in DOMAIN events' : e \in 1..(nextEvent' - 1) /\ events'[e] \in EventRows
    <3>1. \A e \in DOMAIN events : e \in 1..(nextEvent - 1) /\ events[e] \in EventRows
      BY <1>0 DEF TypeOK
    <3>. QED  BY <1>0, <1>1, <1>4, <1>5, <1>6, <3>1
  <2>2. UniqueRows'
    <3>1. UniqueRows
      BY <1>0 DEF TypeOK, UniqueRows
    <3>. QED  BY <1>1, <1>6, <3>1 DEF UniqueRows
  <2>3. ops' \in 0..MaxOps
    BY <1>0, BoundsAssumption DEF TypeOK, Operation
  <2>4. nextEvent' \in Nat \ {0}
    BY <1>0, <1>4
  <2>5. \A e \in DOMAIN events' : events'[e].stream \in DOMAIN streams'
    <3>1. \A e \in DOMAIN events : events[e].stream \in DOMAIN streams
      BY <1>0 DEF TypeOK
    <3>. QED  BY <1>0, <1>1, <1>6, <3>1
  <2>. QED  BY <1>0, <1>1, <1>2, <2>1, <2>2, <2>3, <2>4, <2>5 DEF TypeOK, UniqueRows
<1>8. StreamsOK'
  BY <1>0 DEF StreamsOK
<1>9. HistoryMatchesPayments'
  BY <1>1, <1>6 DEF HistoryMatchesPayments, IsHistory
<1>10. s \in Candidates /\ \A t \in Candidates : s <= t
  BY <1>0, TargetIsFirst
<1>11. Candidates' = Candidates
  BY <1>0 DEF Candidates
<1>12. TargetStays'
  BY <1>1, <1>6, <1>10, <1>11 DEF TargetStays
<1>13. CountedOnce'
  <2>. SUFFICES ASSUME ~rekinded', NEW e \in DOMAIN events',
                       events'[e].source = "tmo_history",
                       streams'[events'[e].stream].active,
                       ~\E p \in C : ids[p] = e
                PROVE  FALSE
    BY <1>1 DEF CountedOnce, IsHistory
  <2>1. /\ e \in DOMAIN events /\ events'[e] = events[e]
        /\ events[e].stream # s
        /\ \A q \in DOMAIN links : links[q] = e => q \in C
    BY <1>1
  <2>2. PICK q \in DOMAIN links : links[q] = e
    BY <1>0, <2>1 DEF CountedOnce, IsHistory
  <2>3. events[e].stream \in Candidates /\ \A t \in Candidates : events[e].stream <= t
    BY <1>0, <2>1, <2>2 DEF TargetStays
  <2>4. Candidates \subseteq Nat
    BY <1>0 DEF Candidates, TypeOK
  <2>. QED  BY <1>10, <2>1, <2>3, <2>4
<1>. QED  BY <1>7, <1>8, <1>9, <1>12, <1>13 DEF IInv

LEMMA CreateStep ==
    ASSUME IInv, NEW kind \in Kinds, create_stream(kind)
    PROVE  IInv'
<1>. DEFINE row == [kind |-> kind, active |-> TRUE, type |-> stream_type_for_kind(kind)]
<1>0. /\ TypeOK /\ StreamsOK /\ HistoryMatchesPayments /\ CountedOnce /\ TargetStays
      /\ streams' = Append(streams, row)
      /\ Len(streams) < MaxStreams /\ Operation
      /\ UNCHANGED <<drafts, rekinded, payments, links, events, nextEvent>>
  BY DEF IInv, create_stream, importUnchanged
<1>1. row \in StreamRows /\ (row.kind = "tmo_trust" => row.type = "mortgage_portfolio")
  BY DEF Kinds, StreamRows, KindValues, TypeValues, stream_type_for_kind
<1>2. streams \in Seq(StreamRows) /\ Len(streams) \in Nat /\ MaxStreams \in Nat
  BY <1>0, BoundsAssumption DEF TypeOK
<1>. HIDE DEF row
<1>3. /\ streams' \in Seq(StreamRows)
      /\ Len(streams') = Len(streams) + 1
      /\ DOMAIN streams = 1..Len(streams) /\ DOMAIN streams' = 1..(Len(streams) + 1)
      /\ \A s \in DOMAIN streams : streams'[s] = streams[s]
      /\ streams'[Len(streams) + 1] = row
  BY <1>0, <1>1, <1>2
<1>4. TypeOK'
  <2>1. ops' \in 0..MaxOps
    BY <1>0, BoundsAssumption DEF TypeOK, Operation
  <2>2. drafts' \in [Editors -> [id : 0..Len(streams'), kind : KindValues,
                                 type : TypeValues]]
    <3>1. drafts \in [Editors -> [id : 0..Len(streams), kind : KindValues,
                                  type : TypeValues]]
      BY <1>0 DEF TypeOK
    <3>2. 0..Len(streams) \subseteq 0..Len(streams')
      BY <1>2, <1>3
    <3>. QED  BY <1>0, <3>1, <3>2
  <2>. QED  BY <1>0, <1>2, <1>3, <2>1, <2>2 DEF TypeOK
<1>5. StreamsOK'
  BY <1>0, <1>1, <1>2, <1>3 DEF StreamsOK
<1>6. HistoryMatchesPayments'
  BY <1>0 DEF HistoryMatchesPayments, IsHistory
<1>7. /\ \A e \in DOMAIN events : events[e].stream \in DOMAIN streams
      /\ \A p \in DOMAIN links : links[p] \in DOMAIN events
  BY <1>0 DEF TypeOK
<1>8. CountedOnce'
  BY <1>0, <1>3, <1>7 DEF CountedOnce, IsHistory
<1>9. TargetStays'
  <2>1. Candidates' \subseteq Candidates \cup {Len(streams) + 1}
        /\ Candidates \subseteq Candidates'
    BY <1>2, <1>3 DEF Candidates
  <2>. QED  BY <1>0, <1>2, <1>3, <1>7, <2>1 DEF TargetStays
<1>. QED  BY <1>4, <1>5, <1>6, <1>8, <1>9 DEF IInv

LEMMA ReadStep ==
    ASSUME IInv, NEW w \in Editors, NEW s \in DOMAIN streams, NEW kind \in KindValues,
           read_stream(w, s, kind)
    PROVE  IInv'
<1>. DEFINE draft == [id |-> s, kind |-> kind,
                      type |-> IF kind = streams[s].kind THEN streams[s].type
                               ELSE stream_type_for_kind(kind)]
<1>0. /\ TypeOK /\ StreamsOK /\ HistoryMatchesPayments /\ CountedOnce /\ TargetStays
      /\ drafts' = [drafts EXCEPT ![w] = draft]
      /\ kind \in Kinds \cup {streams[s].kind} /\ Operation
      /\ UNCHANGED <<streams, rekinded, payments, links, events, nextEvent>>
  BY DEF IInv, read_stream, importUnchanged
<1>1. /\ streams[s] \in StreamRows /\ s \in 1..Len(streams) /\ Len(streams) \in Nat
      /\ streams[s].kind = "tmo_trust" => streams[s].type = "mortgage_portfolio"
  BY <1>0 DEF TypeOK, StreamsOK
<1>2. /\ draft \in [id : 0..Len(streams), kind : KindValues, type : TypeValues]
      /\ draft.kind = "tmo_trust" => draft.type = "mortgage_portfolio"
      /\ draft.id # 0
  BY <1>0, <1>1 DEF StreamRows, KindValues, TypeValues, Kinds, stream_type_for_kind
<1>. HIDE DEF draft
<1>3. drafts \in [Editors -> [id : 0..Len(streams), kind : KindValues, type : TypeValues]]
  BY <1>0 DEF TypeOK
<1>4. drafts' \in [Editors -> [id : 0..Len(streams), kind : KindValues, type : TypeValues]]
  BY <1>0, <1>2, <1>3
<1>5. TypeOK'
  <2>1. ops' \in 0..MaxOps
    BY <1>0, BoundsAssumption DEF TypeOK, Operation
  <2>. QED  BY <1>0, <1>4, <2>1 DEF TypeOK
<1>6. StreamsOK'
  BY <1>0, <1>2, <1>3 DEF StreamsOK
<1>7. HistoryMatchesPayments' /\ CountedOnce' /\ TargetStays'
  BY <1>0 DEF HistoryMatchesPayments, CountedOnce, TargetStays, IsHistory, Candidates
<1>. QED  BY <1>5, <1>6, <1>7 DEF IInv

LEMMA SaveStep ==
    ASSUME IInv, NEW w \in Editors, save_stream(w)
    PROVE  IInv'
<1>. DEFINE d == drafts[w]
            row == [kind |-> d.kind, type |-> d.type, active |-> TRUE]
<1>0. /\ TypeOK /\ StreamsOK /\ HistoryMatchesPayments /\ CountedOnce /\ TargetStays
      /\ d # NoDraft
      /\ drafts' = [drafts EXCEPT ![w] = NoDraft]
      /\ UNCHANGED <<ops, payments, links, events, nextEvent>>
  BY DEF IInv, save_stream, importUnchanged
<1>1. /\ streams' = IF streams[d.id].active THEN [streams EXCEPT ![d.id] = row]
                                            ELSE streams
      /\ rekinded' = (rekinded \/ (streams[d.id].active /\ d.type # streams[d.id].type))
  BY DEF save_stream
<1>2. /\ streams \in Seq(StreamRows) /\ Len(streams) \in Nat
      /\ drafts \in [Editors -> [id : 0..Len(streams), kind : KindValues, type : TypeValues]]
      /\ rekinded \in BOOLEAN
  BY <1>0 DEF TypeOK
<1>3. d.id \in DOMAIN streams /\ row \in StreamRows
      /\ (row.kind = "tmo_trust" => row.type = "mortgage_portfolio")
  BY <1>0, <1>2 DEF StreamsOK, StreamRows
<1>. HIDE DEF row
<1>4. /\ streams' \in Seq(StreamRows) /\ Len(streams') = Len(streams)
      /\ DOMAIN streams' = DOMAIN streams
      /\ \A s \in DOMAIN streams : s # d.id => streams'[s] = streams[s]
      /\ streams'[d.id] = row \/ streams'[d.id] = streams[d.id]
      /\ \A s \in DOMAIN streams : streams'[s].active = streams[s].active
  <2>1. row.active = TRUE
    BY DEF row
  <2>2. CASE streams[d.id].active
    <3>1. streams' = [streams EXCEPT ![d.id] = row]
      BY <1>1, <2>2
    <3>2. streams[d.id].active = TRUE
      BY <1>2, <1>3, <2>2 DEF StreamRows
    <3>3. streams' \in Seq(StreamRows) /\ Len(streams') = Len(streams)
          /\ DOMAIN streams' = DOMAIN streams
      BY <1>2, <1>3, <3>1
    <3>4. streams'[d.id] = row /\ \A s \in DOMAIN streams : s # d.id => streams'[s] = streams[s]
      BY <1>2, <1>3, <3>1
    <3>. QED  BY <2>1, <3>2, <3>3, <3>4
  <2>3. CASE ~streams[d.id].active
    BY <1>1, <1>2, <2>3
  <2>. QED  BY <2>2, <2>3
<1>5. NoDraft \in [id : 0..Len(streams), kind : KindValues, type : TypeValues]
  BY <1>2 DEF NoDraft, KindValues, Kinds, TypeValues
<1>6. drafts' \in [Editors -> [id : 0..Len(streams), kind : KindValues, type : TypeValues]]
  BY <1>0, <1>2, <1>5
<1>7. rekinded' \in BOOLEAN
  BY <1>1
<1>8. TypeOK'
  BY <1>0, <1>4, <1>6, <1>7 DEF TypeOK
<1>9. StreamsOK'
  BY <1>0, <1>2, <1>3, <1>4 DEF StreamsOK, NoDraft
<1>10. HistoryMatchesPayments'
  BY <1>0 DEF HistoryMatchesPayments, IsHistory
<1>11. ~rekinded' => ~rekinded
  BY <1>1
<1>12. CountedOnce'
  <2>1. \A e \in DOMAIN events : events[e].stream \in DOMAIN streams
    BY <1>0 DEF TypeOK
  <2>. QED  BY <1>0, <1>4, <1>11, <2>1 DEF CountedOnce, IsHistory
<1>13. TargetStays'
  <2>. SUFFICES ASSUME ~rekinded'
                PROVE  TargetStays'
    BY DEF TargetStays
  <2>1. \A s \in DOMAIN streams : streams'[s].type = streams[s].type
    <3>1. row.type = d.type
      BY DEF row
    <3>. QED  BY <1>1, <1>2, <1>3, <1>4, <3>1
  <2>2. Candidates' = Candidates
    <3>1. Candidates = {s \in DOMAIN streams : streams[s].active
                                               /\ streams[s].type = "mortgage_portfolio"}
      BY <1>0, CandidatesAre
    <3>2. Candidates' = {s \in DOMAIN streams' : streams'[s].active
                                                 /\ streams'[s].type = "mortgage_portfolio"}
      BY <1>9 DEF StreamsOK, Candidates
    <3>. QED  BY <1>4, <2>1, <3>1, <3>2
  <2>3. \A p \in DOMAIN links : links[p] \in DOMAIN events
                                /\ events[links[p]].stream \in DOMAIN streams
    BY <1>0 DEF TypeOK
  <2>. QED  BY <1>0, <1>4, <1>11, <2>2, <2>3 DEF TargetStays
<1>. QED  BY <1>8, <1>9, <1>10, <1>12, <1>13 DEF IInv

LEMMA ClosedRow ==
    ASSUME NEW r \in StreamRows
    PROVE  /\ [r EXCEPT !.active = FALSE] \in StreamRows
           /\ [r EXCEPT !.active = FALSE].active = FALSE
           /\ [r EXCEPT !.active = FALSE].type = r.type
           /\ [r EXCEPT !.active = FALSE].kind = r.kind
BY DEF StreamRows

LEMMA DeleteStep ==
    ASSUME IInv, NEW s \in DOMAIN streams, delete_stream(s)
    PROVE  IInv'
<1>0. /\ TypeOK /\ StreamsOK /\ HistoryMatchesPayments /\ CountedOnce /\ TargetStays
      /\ streams' = [streams EXCEPT ![s].active = FALSE]
      /\ UNCHANGED <<drafts, payments, links, nextEvent, rekinded>> /\ Operation
  BY DEF IInv, delete_stream
<1>1. streams \in Seq(StreamRows) /\ Len(streams) \in Nat
  BY <1>0 DEF TypeOK
<1>2. /\ streams' \in Seq(StreamRows) /\ Len(streams') = Len(streams)
      /\ DOMAIN streams' = DOMAIN streams
      /\ \A t \in DOMAIN streams : /\ streams'[t].type = streams[t].type
                                   /\ streams'[t].kind = streams[t].kind
                                   /\ streams'[t].active => streams[t].active
      /\ \A t \in DOMAIN streams : t # s => streams'[t] = streams[t]
      /\ ~streams'[s].active
  <2>. DEFINE row == [streams[s] EXCEPT !.active = FALSE]
  <2>1. streams[s] \in StreamRows
    BY <1>1
  <2>2. /\ row \in StreamRows /\ row.active = FALSE
        /\ row.type = streams[s].type /\ row.kind = streams[s].kind
    BY <2>1, ClosedRow
  <2>3. streams' = [streams EXCEPT ![s] = row]
    BY <1>0
  <2>. HIDE DEF row
  <2>4. streams' \in Seq(StreamRows) /\ Len(streams') = Len(streams)
        /\ DOMAIN streams' = DOMAIN streams
    BY <1>1, <2>2, <2>3
  <2>5. streams'[s] = row /\ \A t \in DOMAIN streams : t # s => streams'[t] = streams[t]
    BY <1>1, <2>3
  <2>. QED  BY <2>2, <2>4, <2>5
<1>3. /\ DOMAIN events' = DOMAIN events
      /\ \A e \in DOMAIN events : events[e] \in EventRows =>
            /\ events'[e] \in EventRows
            /\ events'[e].stream = events[e].stream
            /\ events'[e].source = events[e].source
            /\ events'[e].key = events[e].key
            /\ events'[e].status = events[e].status
  BY DEF delete_stream, EventRows
<1>4. \A e \in DOMAIN events : events[e] \in EventRows
                               /\ events[e].stream \in DOMAIN streams
  BY <1>0 DEF TypeOK
<1>5. TypeOK'
  <2>1. ops' \in 0..MaxOps
    BY <1>0, BoundsAssumption DEF TypeOK, Operation
  <2>2. UniqueRows'
    <3>1. UniqueRows
      BY <1>0 DEF TypeOK, UniqueRows
    <3>. QED  BY <1>3, <1>4, <3>1 DEF UniqueRows
  <2>3. /\ \A p \in DOMAIN links : links[p] \in DOMAIN events'
        /\ \A e \in DOMAIN events' : /\ e \in 1..(nextEvent - 1)
                                     /\ events'[e] \in EventRows
                                     /\ events'[e].stream \in DOMAIN streams'
    BY <1>0, <1>2, <1>3, <1>4 DEF TypeOK
  <2>. QED  BY <1>0, <1>2, <2>1, <2>2, <2>3 DEF TypeOK, UniqueRows
<1>6. StreamsOK'
  BY <1>0, <1>2 DEF StreamsOK
<1>7. \A p \in DOMAIN links : links[p] \in DOMAIN events
  BY <1>0 DEF TypeOK
<1>8. HistoryMatchesPayments'
  BY <1>0, <1>3, <1>4, <1>7 DEF HistoryMatchesPayments, IsHistory
<1>9. CountedOnce'
  BY <1>0, <1>2, <1>3, <1>4 DEF CountedOnce, IsHistory
<1>10. TargetStays'
  <2>1. Candidates' \subseteq Candidates /\ \A t \in Candidates : t # s => t \in Candidates'
    BY <1>2 DEF Candidates
  <2>. QED  BY <1>0, <1>2, <1>3, <1>4, <1>7, <2>1 DEF TargetStays
<1>. QED  BY <1>5, <1>6, <1>8, <1>9, <1>10 DEF IInv

LEMMA InitOK ==
    Init => IInv
<1>. SUFFICES ASSUME Init PROVE IInv
  OBVIOUS
<1>1. /\ streams \in Seq(StreamRows) /\ Len(streams) \in 1..MaxStreams
      /\ \A s \in DOMAIN streams :
            streams[s].kind = "tmo_trust" => streams[s].type = "mortgage_portfolio"
  BY DatabasesAssumption DEF Init
<1>2. /\ DOMAIN payments = {} /\ DOMAIN links = {}
      /\ nextEvent = 3 /\ rekinded = FALSE /\ ops = 0
      /\ drafts = [w \in Editors |-> NoDraft]
  BY DEF Init
<1>3. /\ DOMAIN events = 1..2
      /\ events[1] = Row(1, "schedule", 1, "projected")
      /\ events[2] = Row(1, "stream_schedule", 1, "projected")
  BY DEF Init
<1>4. /\ Row(1, "schedule", 1, "projected") \in EventRows
      /\ Row(1, "stream_schedule", 1, "projected") \in EventRows
  <2>1. 1 \in 1..MaxStreams
    BY <1>1, BoundsAssumption
  <2>. QED  BY <2>1 DEF Row, EventRows
<1>5. \A e \in DOMAIN events :
          /\ events[e] \in EventRows /\ events[e].stream = 1
          /\ events[e].source # "tmo_history"
  <2>1. \A e \in DOMAIN events : e = 1 \/ e = 2
    BY <1>3
  <2>2. events[1].stream = 1 /\ events[1].source = "schedule"
    BY <1>3 DEF Row
  <2>3. events[2].stream = 1 /\ events[2].source = "stream_schedule"
    BY <1>3 DEF Row
  <2>. QED  BY <1>3, <1>4, <2>1, <2>2, <2>3
<1>6. UniqueRows
  <2>1. events[1].source # events[2].source
    BY <1>3 DEF Row
  <2>2. \A e \in DOMAIN events : e = 1 \/ e = 2
    BY <1>3
  <2>. QED  BY <2>1, <2>2 DEF UniqueRows
<1>7. NoDraft \in [id : 0..Len(streams), kind : KindValues, type : TypeValues]
  BY <1>1, BoundsAssumption DEF NoDraft, KindValues, Kinds, TypeValues
<1>8. TypeOK
  <2>1. 1 \in DOMAIN streams /\ Len(streams) <= MaxStreams
    BY <1>1, BoundsAssumption
  <2>2. \A e \in DOMAIN events : e \in 1..(nextEvent - 1)
                                 /\ events[e].stream \in DOMAIN streams
    BY <1>2, <1>3, <1>5, <2>1
  <2>3. drafts \in [Editors -> [id : 0..Len(streams), kind : KindValues,
                                type : TypeValues]]
    BY <1>2, <1>7
  <2>4. /\ DOMAIN payments \subseteq Payments /\ DOMAIN links \subseteq DOMAIN payments
        /\ \A p \in DOMAIN payments : payments[p] \in BOOLEAN
        /\ \A p \in DOMAIN links : links[p] \in DOMAIN events
    BY <1>2, Zenon
  <2>5. nextEvent \in Nat \ {0} /\ ops \in 0..MaxOps
    BY <1>2, BoundsAssumption
  <2>6. rekinded \in BOOLEAN
    BY <1>2
  <2>. QED  BY <1>1, <1>5, <1>6, <2>1, <2>2, <2>3, <2>4, <2>5, <2>6
            DEF TypeOK, UniqueRows
<1>9. StreamsOK
  BY <1>1, <1>2 DEF StreamsOK, NoDraft
<1>10. HistoryMatchesPayments /\ CountedOnce /\ TargetStays
  BY <1>2, <1>5 DEF HistoryMatchesPayments, CountedOnce, TargetStays, IsHistory
<1>. QED  BY <1>8, <1>9, <1>10 DEF IInv

LEMMA NextOK ==
    IInv /\ [Next]_vars => IInv'
<1>. SUFFICES ASSUME IInv, [Next]_vars PROVE IInv'
  OBVIOUS
<1>1. CASE \E kind \in Kinds : create_stream(kind)
  BY <1>1, CreateStep
<1>2. CASE \E w \in Editors, s \in DOMAIN streams, kind \in KindValues :
               read_stream(w, s, kind)
  BY <1>2, ReadStep
<1>3. CASE \E w \in Editors : save_stream(w)
  BY <1>3, SaveStep
<1>4. CASE \E s \in DOMAIN streams : delete_stream(s)
  BY <1>4, DeleteStep
<1>5. CASE \E s \in DOMAIN streams, capture \in Captures :
               replace_payment_projection(s, capture)
  BY <1>5, ImportStep
<1>6. CASE UNCHANGED vars
  BY <1>6 DEF vars, IInv, TypeOK, StreamsOK, HistoryMatchesPayments, CountedOnce,
              TargetStays, IsHistory, Candidates
<1>. QED  BY <1>1, <1>2, <1>3, <1>4, <1>5, <1>6 DEF Next

-----------------------------------------------------------------------------
(* Theorems.                                                               *)

\* Types, foreign keys and the unique constraint hold in every reachable state,
\* for any number of payments, streams, editors and imports.
THEOREM TypeCorrect == Spec => []TypeOK
<1>1. IInv => TypeOK
  BY DEF IInv
<1>. QED  BY <1>1, InitOK, NextOK, PTL DEF Spec

\* The linked history events are exactly the payments of the last snapshot,
\* whatever happened to the streams before, between and after the imports.
THEOREM HistoryIsSnapshot == Spec => []HistoryMatchesPayments
<1>1. IInv => HistoryMatchesPayments
  BY DEF IInv
<1>. QED  BY <1>1, InitOK, NextOK, PTL DEF Spec

\* Without a change of kind, every history event of an active stream belongs to
\* the last snapshot: deleting and creating streams never doubles a payment.
THEOREM PaymentsCountedOnce == Spec => []CountedOnce
<1>1. IInv => CountedOnce
  BY DEF IInv
<1>. QED  BY <1>1, InitOK, NextOK, PTL DEF Spec

\* What one import keeps.
LEMMA KeepsRows ==
    ASSUME IInv, NEW s \in DOMAIN streams, NEW capture \in Captures,
           replace_payment_projection(s, capture)
    PROVE  /\ \A e \in DOMAIN events :
                 events[e].source = "stream_schedule" =>
                     e \in DOMAIN events' /\ events'[e] = events[e]
           /\ \A p \in DOMAIN links \cap DOMAIN links' :
                 events[links[p]].stream = events'[links'[p]].stream
                     => links'[p] = links[p]
<1>1. /\ DOMAIN links' = Captured(capture)
      /\ \A p \in Captured(capture) :
            /\ links'[p] = event_ids(s, capture)[p]
            /\ events'[event_ids(s, capture)[p]] = HistoryRow(s, p, payments'[p])
      /\ \A e \in DOMAIN events :
            events[e].source = "stream_schedule" =>
                e \in DOMAIN events' /\ events'[e] = events[e]
  BY Imported
<1>2. ASSUME NEW p \in DOMAIN links \cap DOMAIN links',
             events[links[p]].stream = events'[links'[p]].stream
      PROVE  links'[p] = links[p]
  <2>1. TypeOK /\ HistoryMatchesPayments /\ validate_capture(capture)
    BY DEF IInv, replace_payment_projection
  <2>2. HistoryRow(s, p, payments'[p]).stream = s
    BY DEF HistoryRow, Row
  <2>3. events[links[p]].stream = s
    BY <1>1, <1>2, <2>2
  <2>4. links[p] \in RowsOf(s, p)
    BY <2>1, <2>3 DEF RowsOf, TypeOK, HistoryMatchesPayments, IsHistory
  <2>5. event_ids(s, capture)[p] \in RowsOf(s, p)
    BY <1>1, <2>1, <2>4, EventIds
  <2>6. UniqueRows
    BY <2>1 DEF TypeOK, UniqueRows
  <2>. QED  BY <1>1, <2>4, <2>5, <2>6 DEF RowsOf, UniqueRows
<1>. QED  BY <1>1, <1>2

\* No import touches a schedule's projection, or gives a payment that stays in
\* its stream another event.
THEOREM ImportsKeepRows == Spec => ImportKeepsRows
<1>1. IInv /\ [Next]_vars =>
        [\A s \in DOMAIN streams, capture \in Captures :
          replace_payment_projection(s, capture) =>
            /\ \A e \in DOMAIN events :
                  events[e].source = "stream_schedule" =>
                      e \in DOMAIN events' /\ events'[e] = events[e]
            /\ \A p \in DOMAIN links \cap DOMAIN links' :
                  events[links[p]].stream = events'[links'[p]].stream
                      => links'[p] = links[p]]_vars
  BY KeepsRows
<1>. QED  BY <1>1, InitOK, NextOK, PTL DEF Spec, ImportKeepsRows

=============================================================================
