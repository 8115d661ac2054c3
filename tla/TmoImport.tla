----------------------------- MODULE TmoImport -----------------------------
(***************************************************************************)
(* The payments that a TMO synchronisation imports, and the history events *)
(* made of them (replace_payment_projection of                             *)
(* src/integrations/tmo_write.rs).  Each capture is a complete snapshot:   *)
(* it replaces the payments of the one before, in whichever stream is the  *)
(* trust-deed stream at that moment, while users create streams, delete    *)
(* them and change their kind.                                             *)
(*                                                                         *)
(* The import runs in the transaction that ends a run (SyncRuns); here it  *)
(* is one step.  The other tables it writes (connection, account, overview *)
(* and loans) are keyed by the provider and are not linked to events.      *)
(***************************************************************************)
EXTENDS Naturals, Sequences

CONSTANTS
    Editors,      \* requests to save a stream that may be under way
    Payments,     \* external ids: a loan account, a date and cents
    Databases,    \* the streams a database may start with
    MaxPayments,  \* bound: payments of a capture
    MaxStreams,   \* bound: streams ever created
    MaxOps        \* bound: imports and requests

Kinds == {"tmo_trust", "manual"}  \* kinds of the form; the others are manual
KindValues == Kinds \cup {"mortgage_portfolio"}
TypeValues == {"mortgage_portfolio", "manual"}
StreamRows == [kind : KindValues, type : TypeValues, active : BOOLEAN]

\* Only an imported stream has a kind that the form does not offer; the form's
\* trust-deed kind always goes with type mortgage_portfolio.
ASSUME DatabasesAssumption ==
    /\ Databases \subseteq Seq(StreamRows)
    /\ \A db \in Databases : Len(db) \in 1..MaxStreams
    /\ \A db \in Databases : \A s \in DOMAIN db :
          db[s].kind = "tmo_trust" => db[s].type = "mortgage_portfolio"

ASSUME BoundsAssumption ==
    MaxPayments \in Nat /\ MaxStreams \in Nat /\ MaxOps \in Nat

VARIABLES
    streams,    \* stream rows, by id
    drafts,     \* saves between their read and their transaction
    payments,   \* intg_tmo_import_payment: external_id -> has a check number
    links,      \* intg_tmo_payment_event_link: external_id -> event id
    events,     \* stream_event: id -> row
    nextEvent,  \* the next id of stream_event
    rekinded,   \* history: a stream became or ceased to be a trust-deed stream
    ops         \* imports and requests so far

vars == <<streams, drafts, payments, links, events, nextEvent, rekinded, ops>>

importUnchanged == UNCHANGED <<payments, links, events, nextEvent>>
NoDraft == [id |-> 0, kind |-> "manual", type |-> "manual"]

Row(stream, source, key, status) ==
    [stream |-> stream, source |-> source, key |-> key, status |-> status,
     excluded |-> FALSE]

\* An imported database has a projection of the code before this one, and one
\* of a schedule, in its first stream.
Init ==
    /\ streams \in Databases
    /\ drafts = [w \in Editors |-> NoDraft]
    /\ payments = << >> /\ links = << >>
    /\ events = <<Row(1, "schedule", 1, "projected"),
                  Row(1, "stream_schedule", 1, "projected")>>
    /\ nextEvent = 3
    /\ rekinded = FALSE
    /\ ops = 0

Operation == ops < MaxOps /\ ops' = ops + 1

-----------------------------------------------------------------------------
(* Streams: the columns that the import looks at.  Their schedules, and   *)
(* the refresh of events that ends a save, are those of StreamProjection;  *)
(* the projection in Init stands for a rule that every save keeps.         *)

stream_type_for_kind(kind) ==
    IF kind = "tmo_trust" THEN "mortgage_portfolio" ELSE kind

create_stream(kind) ==
    /\ Operation
    /\ Len(streams) < MaxStreams
    /\ streams' = Append(streams, [kind |-> kind, active |-> TRUE,
                                   type |-> stream_type_for_kind(kind)])
    /\ UNCHANGED <<drafts, rekinded>> /\ importUnchanged

\* The request names a kind, or keeps the one that it reads; a kind that stays
\* keeps its type too (build_stream_draft).
read_stream(w, s, kind) ==
    /\ Operation
    /\ drafts[w] = NoDraft
    /\ streams[s].active
    /\ kind \in Kinds \cup {streams[s].kind}
    /\ drafts' = [drafts EXCEPT ![w] =
                     [id |-> s, kind |-> kind,
                      type |-> IF kind = streams[s].kind THEN streams[s].type
                               ELSE stream_type_for_kind(kind)]]
    /\ UNCHANGED <<streams, rekinded>> /\ importUnchanged

\* UPDATE ... WHERE is_active = 1: the save of a deleted stream is refused.
save_stream(w) ==
    /\ drafts[w] # NoDraft
    /\ LET d == drafts[w]
           saved == streams[d.id].active
       IN  /\ streams' = IF saved
                         THEN [streams EXCEPT ![d.id] =
                                  [kind |-> d.kind, type |-> d.type,
                                   active |-> TRUE]]
                         ELSE streams
           /\ rekinded' = (rekinded \/ (saved /\ d.type # streams[d.id].type))
    /\ drafts' = [drafts EXCEPT ![w] = NoDraft]
    /\ UNCHANGED ops /\ importUnchanged

\* Hides the open projections of the stream; history events stay.
delete_stream(s) ==
    /\ Operation
    /\ streams[s].active
    /\ streams' = [streams EXCEPT ![s].active = FALSE]
    /\ events' = [e \in DOMAIN events |->
                     [events[e] EXCEPT !.excluded =
                         @ \/ (/\ events[e].stream = s
                               /\ events[e].source = "stream_schedule"
                               /\ events[e].status # "received")]]
    /\ UNCHANGED <<drafts, payments, links, nextEvent, rekinded>>

-----------------------------------------------------------------------------
(* The import.                                                             *)

Candidates ==
    {s \in DOMAIN streams :
        /\ streams[s].active
        /\ streams[s].type = "mortgage_portfolio" \/ streams[s].kind = "tmo_trust"}

\* Mutant: the newest stream comes first.
Ahead_mutant(s, t) == s > t

\* ORDER BY: type mortgage_portfolio first, then the id.
Ahead(s, t) ==
    LET rank(u) == IF streams[u].type = "mortgage_portfolio" THEN 0 ELSE 1
    IN  rank(s) < rank(t) \/ (rank(s) = rank(t) /\ s < t)

\* s is the first candidate; without one the import is refused.
require_trust_deed_stream(s) ==
    s \in Candidates /\ \A t \in Candidates \ {s} : Ahead(s, t)

\* A capture in which two payments have the same external id is refused.
validate_capture(capture) ==
    \A m, n \in DOMAIN capture : capture[m].id = capture[n].id => m = n

Captured(capture) == {capture[n].id : n \in DOMAIN capture}
At(capture, p) == CHOOSE n \in DOMAIN capture : capture[n].id = p

\* A payment with a check number is received, one without is confirmed.
HistoryRow(s, p, check) ==
    Row(s, "tmo_history", p, IF check THEN "received" ELSE "confirmed")

\* The row that ON CONFLICT(stream_id, source_type, source_id) finds.
RowsOf(s, p) ==
    {e \in DOMAIN events : /\ events[e].stream = s
                           /\ events[e].source = "tmo_history"
                           /\ events[e].key = p}

\* Mutant: history is inserted anew by every import.
event_ids_mutant(s, capture) ==
    [p \in Captured(capture) |-> nextEvent + At(capture, p) - 1]

\* The id that each captured payment's event has or gets.
event_ids(s, capture) ==
    [p \in Captured(capture) |->
        IF RowsOf(s, p) # {} THEN CHOOSE e \in RowsOf(s, p) : TRUE
                             ELSE nextEvent + At(capture, p) - 1]

upsert_events(s, capture) ==
    LET ids == event_ids(s, capture)
    IN  [e \in DOMAIN events \cup {ids[p] : p \in DOMAIN ids} |->
            IF \E p \in DOMAIN ids : ids[p] = e
            THEN LET p == CHOOSE q \in DOMAIN ids : ids[q] = e
                 IN  HistoryRow(s, p, capture[At(capture, p)].check)
            ELSE events[e]]

upsert_links(s, capture) ==
    LET ids == event_ids(s, capture)
    IN  [p \in DOMAIN links \cup DOMAIN ids |->
            IF p \in DOMAIN ids THEN ids[p] ELSE links[p]]

\* The three deletions of events, each of what is left of the rows so far.
StaleEvents(linked, capture) ==
    {linked[p] : p \in DOMAIN linked \ Captured(capture)}

\* Mutant: events without a link are not looked for.
OrphanEvents_mutant(s, rows, linked, capture) == {}

OrphanEvents(s, rows, linked, capture) ==
    {e \in DOMAIN rows :
        /\ rows[e].stream = s /\ rows[e].source = "tmo_history"
        /\ ~\E p \in Captured(capture) : linked[p] = e}

LegacyEvents(rows) ==
    {e \in DOMAIN rows :
        rows[e].status = "projected" /\ rows[e].source = "schedule"}

\* Deleting a payment or an event deletes its link.
replace_payment_projection(s, capture) ==
    /\ Operation
    /\ require_trust_deed_stream(s)
    /\ validate_capture(capture)
    /\ LET linked == upsert_links(s, capture)
           rows == upsert_events(s, capture)
           gone == StaleEvents(linked, capture)
                     \cup OrphanEvents(s, rows, linked, capture)
                     \cup LegacyEvents(rows)
       IN  /\ payments' = [p \in Captured(capture) |->
                              capture[At(capture, p)].check]
           /\ links' = [p \in {q \in Captured(capture) : linked[q] \notin gone} |->
                           linked[p]]
           /\ events' = [e \in DOMAIN rows \ gone |-> rows[e]]
    /\ nextEvent' = nextEvent + Len(capture)
    /\ UNCHANGED <<streams, drafts, rekinded>>

-----------------------------------------------------------------------------
Captures == UNION {[1..n -> [id : Payments, check : BOOLEAN]] : n \in 0..MaxPayments}

Next ==
    \/ \E kind \in Kinds : create_stream(kind)
    \/ \E w \in Editors, s \in DOMAIN streams, kind \in KindValues :
          read_stream(w, s, kind)
    \/ \E w \in Editors : save_stream(w)
    \/ \E s \in DOMAIN streams : delete_stream(s)
    \/ \E s \in DOMAIN streams, capture \in Captures :
          replace_payment_projection(s, capture)

Spec == Init /\ [][Next]_vars

-----------------------------------------------------------------------------
(* Properties.                                                             *)

EventRows ==
    [stream : 1..MaxStreams, source : {"schedule", "stream_schedule", "tmo_history"},
     key : Payments \cup {1}, status : {"projected", "confirmed", "received"},
     excluded : BOOLEAN]

IsHistory(e) == events[e].source = "tmo_history"

\* Every column has a value of its type, events belong to a stream and links
\* join rows that exist (the foreign keys), and (stream_id, source_type, source_id) is
\* unique.
TypeOK ==
    /\ streams \in Seq(StreamRows) /\ Len(streams) <= MaxStreams
    /\ drafts \in [Editors -> [id : 0..Len(streams), kind : KindValues,
                               type : TypeValues]]
    /\ DOMAIN payments \subseteq Payments
    /\ \A p \in DOMAIN payments : payments[p] \in BOOLEAN
    /\ DOMAIN links \subseteq DOMAIN payments
    /\ \A p \in DOMAIN links : links[p] \in DOMAIN events
    /\ nextEvent \in Nat \ {0}
    /\ \A e \in DOMAIN events : /\ e \in 1..(nextEvent - 1)
                                /\ events[e] \in EventRows
                                /\ events[e].stream \in DOMAIN streams
    /\ \A e, f \in DOMAIN events :
          /\ events[e].stream = events[f].stream
          /\ events[e].source = events[f].source
          /\ events[e].key = events[f].key
          => e = f
    /\ rekinded \in BOOLEAN
    /\ ops \in 0..MaxOps

\* The linked events are the last snapshot: each imported payment has its own
\* history event with its status, all in one stream, and that stream has no
\* other history event, even when it was the trust-deed stream before, lost
\* that role and got it back.
HistoryMatchesPayments ==
    /\ DOMAIN links = DOMAIN payments
    /\ \A p \in DOMAIN links :
          /\ IsHistory(links[p])
          /\ events[links[p]].key = p
          /\ events[links[p]].status = IF payments[p] THEN "received"
                                                      ELSE "confirmed"
    /\ \A p, q \in DOMAIN links :
          events[links[p]].stream = events[links[q]].stream
    /\ \A p \in DOMAIN links, e \in DOMAIN events :
          IsHistory(e) /\ events[e].stream = events[links[p]].stream
              => \E q \in DOMAIN links : links[q] = e

\* The cash forecast counts a payment once: as long as no stream has changed
\* between trust-deed and other kinds, every history event of an active stream
\* belongs to the last snapshot.  Deleting the trust-deed stream hands the
\* role to another one, which gets events of its own for the same payments.
CountedOnce ==
    ~rekinded =>
        \A e \in DOMAIN events :
            IsHistory(e) /\ streams[events[e].stream].active
                => \E p \in DOMAIN links : links[p] = e

\* An import keeps what is not its own, the schedule projections that share the
\* status of the legacy rows it removes, and the event of a payment that is in
\* both snapshots, with its id, as long as it stays in the same stream.
ImportKeepsRows ==
    [][\A s \in DOMAIN streams, capture \in Captures :
          replace_payment_projection(s, capture) =>
            /\ \A e \in DOMAIN events :
                  events[e].source = "stream_schedule" =>
                      e \in DOMAIN events' /\ events'[e] = events[e]
            /\ \A p \in DOMAIN links \cap DOMAIN links' :
                  events[links[p]].stream = events'[links'[p]].stream
                      => links'[p] = links[p]]_vars
=============================================================================
