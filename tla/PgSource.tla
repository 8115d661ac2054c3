------------------------------ MODULE PgSource ------------------------------
(***************************************************************************)
(* What tools/pg-to-turso reads from the legacy PostgreSQL database: the   *)
(* inventory of its relations, the typed readers that turn the rows of     *)
(* each mapped relation into rows of the target, and its sequences.        *)
(*                                                                         *)
(* A database is a record [relations, rows, sequences].  A row holds the   *)
(* columns on which the exporter decides; everything else of it is the     *)
(* column "fault": "column" when the reader refuses a value (a NaN, a date *)
(* that does not exist, JSON that does not parse, an unknown status),      *)
(* "check" when the reader lets it through and a CHECK constraint of the   *)
(* target schema refuses it, and None for a row without either.  A reader  *)
(* yields [ok, rows]; one row it refuses fails the whole export.           *)
(***************************************************************************)
EXTENDS LegacyEvents, ObjectKeys, FiniteSetsExt, TLC

-----------------------------------------------------------------------------
(* The inventory.                                                          *)

FinanceTables == {"app_user", "account", "stream", "stream_view",
                  "stream_view_stream", "stream_schedule", "stream_event"}
ProviderTables == {"integration_connection", "tmo_import_overview",
                   "tmo_import_loan", "tmo_import_payment", "tmo_account",
                   "tmo_credential", "monarch_credential",
                   "tmo_payment_event_link"}
OperationTables == {"portfolio_snapshot", "settings", "sync_log"}
InboxTables == {"loan_workspace", "loan_workspace_photo", "received_email",
                "received_email_attachment"}
PublicTables == FinanceTables \cup OperationTables
IntgTables == ProviderTables \cup InboxTables
Tables == PublicTables \cup IntgTables

MAPPED_RELATIONS == ({"public"} \X PublicTables) \cup ({"intg"} \X IntgTables)

SERIAL_RELATIONS ==
    Tables \ {"stream_view_stream", "tmo_account", "tmo_credential",
              "monarch_credential", "tmo_payment_event_link", "settings"}

has_rows(kind) == kind \in {"table", "partitioned", "view", "materialized"}

is_legacy_public_remnant(r) ==
    r.schema = "public" /\ r.name \in {"tmo_legacy", "integration_connection",
                                       "received_email",
                                       "received_email_attachment"}

classify_relation(r) ==
    CASE r.schema = "tower_sessions" /\ r.name = "session" /\ has_rows(r.kind)
             -> "discarded"
      [] r.kind = "sequence"
             -> IF r.owner \in SERIAL_RELATIONS THEN "sequence_metadata"
                                                ELSE "unclassified"
      [] r.kind # "sequence" /\ <<r.schema, r.name>> \in MAPPED_RELATIONS
             -> IF r.kind \in {"table", "partitioned"} THEN "transformed"
                                                       ELSE "unclassified"
      [] is_legacy_public_remnant(r) -> "forbidden_legacy_remnant"
      [] OTHER -> "unclassified"

\* A column stands for its name, type and nullability; the columns that no
\* decision tells apart are one.
expected_columns(t) ==
    IF t = "stream" THEN {"base", "direction", "amount_certainty"} ELSE {"base"}

validate_mapped_columns(r) ==
    \/ r.columns = expected_columns(r.name)
    \/ /\ <<r.schema, r.name>> = <<"public", "stream">>
       /\ r.columns = expected_columns("stream")
                          \ {"direction", "amount_certainty"}

stream_source_shape(columns) ==
    CASE {"direction", "amount_certainty"} \subseteq columns -> "upgraded"
      [] {"direction", "amount_certainty"} \cap columns = {} -> "legacy_signed"
      [] OTHER -> None

\* The relations that block an export, and the mapped ones that are missing.
inventory_blockers(relations) ==
    {r \in relations :
        \/ classify_relation(r) \in {"unclassified", "forbidden_legacy_remnant"}
        \/ classify_relation(r) = "transformed" /\ ~validate_mapped_columns(r)
        \/ /\ <<r.schema, r.name>> = <<"public", "stream_event">>
           /\ "scheduled_date" \in r.columns}
    \cup (MAPPED_RELATIONS \ {<<r.schema, r.name>> : r \in
                                 {q \in relations : has_rows(q.kind)}})

-----------------------------------------------------------------------------
(* The readers of the finance tables.                                      *)

\* A reader of these rows with a condition on them and what they become.
Reader(rows, legal, into) ==
    LET ok == (\A r \in rows : r.fault # "column") /\ legal
    IN  [ok |-> ok, rows |-> IF ok THEN into ELSE {}]
Copied(rows) == Reader(rows, TRUE, rows)

read_app_users(db) ==
    LET users == db.rows["app_user"]
        active == {u \in users : u.is_active}
    IN  Reader(users,
               /\ \A u \in active : u.password_hash.scheme = "argon2id"
               /\ active # {},
               users)

\* balance_as_of_date: the day of the update, never an invented one.
read_accounts(db) ==
    LET accounts == db.rows["account"]
        as_of(a) == IF a.balance = None THEN None ELSE a.balance_updated_at
    IN  Reader(accounts,
               \A a \in accounts : a.balance # None => a.balance_updated_at # None,
               {a @@ [balance_as_of_date |-> as_of(a)] : a \in accounts})

legacy_stream_semantics(s) ==
    [direction |-> IF \/ s.kind \in {"manual_expense", "credit_card"}
                      \/ s.type \in {"manual_expense", "credit_card_due"}
                   THEN "out" ELSE "in",
     amount_certainty |-> IF s.kind = "credit_card" THEN "estimated"
                                                    ELSE "known"]

read_streams(db, shape) ==
    LET streams == db.rows["stream"]
    IN  Reader(streams, TRUE,
               IF shape = "upgraded" THEN streams
               ELSE {legacy_stream_semantics(s) @@ s : s \in streams})

read_stream_views(db) == Copied(db.rows["stream_view"])
read_stream_view_streams(db) ==
    Copied(db.rows["stream_view_stream"])

\* The upgraded shape stores magnitudes, the legacy one signed amounts.
Magnitude(r, shape) == shape = "upgraded" => r.amount >= 0
source_magnitude(r, shape) ==
    IF shape = "legacy_signed" /\ r.amount < 0 THEN -r.amount ELSE r.amount

read_stream_schedules(db, shape) ==
    LET schedules == db.rows["stream_schedule"]
    IN  Reader(schedules,
               \A s \in schedules : Magnitude(s, shape),
               {[s EXCEPT !.amount = source_magnitude(s, shape)] :
                   s \in schedules})

\* Two events that would share a slot of the target block the export.
validate_transformed_event_identities(events) ==
    \A e, f \in events :
        /\ e.source_type # None /\ e.source_id # None
        /\ e.stream_id = f.stream_id /\ e.source_type = f.source_type
        /\ e.source_id = f.source_id
        => e = f

read_stream_events(db, streams, schedules, shape) ==
    LET events == db.rows["stream_event"]
        transformed ==
            {transform_event([e EXCEPT !.amount = source_magnitude(e, shape)],
                             streams, schedules) : e \in events}
    IN  Reader(events,
               /\ \A e \in events : /\ Magnitude(e, shape)
                                    /\ transformable(e, streams, schedules)
               /\ validate_transformed_event_identities(transformed),
               transformed)

-----------------------------------------------------------------------------
(* The readers of the provider and operation tables.                       *)

read_integration_connections(db) ==
    LET connections == db.rows["integration_connection"]
    IN  Reader(connections,
               \A c \in connections : c.status \in {"active", "error"},
               connections)

read_tmo_import_overviews(db) ==
    Copied(db.rows["tmo_import_overview"])
read_tmo_import_loans(db) == Copied(db.rows["tmo_import_loan"])
read_tmo_import_payments(db) ==
    Copied(db.rows["tmo_import_payment"])

read_tmo_accounts(db) ==
    LET accounts == db.rows["tmo_account"]
    IN  Reader(accounts, \A a \in accounts : a.id = 1, accounts)

read_tmo_credentials(db) == Copied(db.rows["tmo_credential"])
read_monarch_credentials(db) ==
    Copied(db.rows["monarch_credential"])
read_tmo_payment_event_links(db) ==
    Copied(db.rows["tmo_payment_event_link"])
read_portfolio_snapshots(db) ==
    Copied(db.rows["portfolio_snapshot"])
read_settings(db) == Copied(db.rows["settings"])

\* A log without a slug is from a time when only TMO was connected.
map_legacy_sync_slug(l, connections) ==
    IF l.connection_slug # None THEN [ok |-> TRUE, slug |-> l.connection_slug]
    ELSE [ok |-> /\ Cardinality({c \in connections :
                        c.slug = "tmo" /\ c.provider = "mortgage_office"}) = 1
                 /\ \A c \in connections : c.slug # "tmo" =>
                                               c.created_at > l.started_at,
          slug |-> "tmo"]

validate_terminal_sync(l) ==
    /\ l.status \in {"success", "error"}
    /\ l.finished_at # None
    /\ l.finished_at >= l.started_at

read_sync_logs(db, connections) ==
    LET logs == db.rows["sync_log"]
        slug(l) == map_legacy_sync_slug(l, connections)
    IN  Reader(logs,
               \A l \in logs : slug(l).ok /\ validate_terminal_sync(l),
               {[l EXCEPT !.connection_slug = slug(l).slug]
                    @@ [scheduled_for |-> None] : l \in logs})

-----------------------------------------------------------------------------
(* The readers of the workspace and inbox tables.                          *)

read_loan_workspaces(db) == Copied(db.rows["loan_workspace"])

read_loan_workspace_photos(db) ==
    LET photos == db.rows["loan_workspace_photo"]
    IN  Reader(photos,
               \A p, q \in photos :
                  /\ p.is_featured /\ q.is_featured
                  /\ p.connection_id = q.connection_id
                  /\ p.loan_account = q.loan_account
                  => p = q,
               photos)

read_received_emails(db) == Copied(db.rows["received_email"])

read_received_email_attachments(db, emails) ==
    LET attachments == db.rows["received_email_attachment"]
        moved(a) == transform_attachment_key(a, emails)
    IN  Reader(attachments,
               \A a \in attachments : moved(a).ok,
               {[a EXCEPT !.s3_key = moved(a).key] : a \in attachments})

-----------------------------------------------------------------------------
(* The snapshot as a whole.                                                *)

Shape(db) ==
    stream_source_shape((CHOOSE r \in db.relations :
                            <<r.schema, r.name>> = <<"public", "stream">>
                            /\ has_rows(r.kind)).columns)

\* The dataset is a function from the tables to rows of the target.
read_dataset(db) ==
    LET shape == Shape(db)
        streams == read_streams(db, shape)
        schedules == read_stream_schedules(db, shape)
        connections == read_integration_connections(db)
        emails == read_received_emails(db)
        tables ==
            [t \in Tables |->
                CASE t = "app_user" -> read_app_users(db)
                  [] t = "account" -> read_accounts(db)
                  [] t = "stream" -> streams
                  [] t = "stream_view" -> read_stream_views(db)
                  [] t = "stream_view_stream" -> read_stream_view_streams(db)
                  [] t = "stream_schedule" -> schedules
                  [] t = "stream_event" ->
                        read_stream_events(db, streams.rows, schedules.rows,
                                           shape)
                  [] t = "integration_connection" -> connections
                  [] t = "tmo_import_overview" -> read_tmo_import_overviews(db)
                  [] t = "tmo_import_loan" -> read_tmo_import_loans(db)
                  [] t = "tmo_import_payment" -> read_tmo_import_payments(db)
                  [] t = "tmo_account" -> read_tmo_accounts(db)
                  [] t = "tmo_credential" -> read_tmo_credentials(db)
                  [] t = "monarch_credential" -> read_monarch_credentials(db)
                  [] t = "tmo_payment_event_link" ->
                        read_tmo_payment_event_links(db)
                  [] t = "portfolio_snapshot" -> read_portfolio_snapshots(db)
                  [] t = "settings" -> read_settings(db)
                  [] t = "sync_log" -> read_sync_logs(db, connections.rows)
                  [] t = "loan_workspace" -> read_loan_workspaces(db)
                  [] t = "loan_workspace_photo" ->
                        read_loan_workspace_photos(db)
                  [] t = "received_email" -> emails
                  [] t = "received_email_attachment" ->
                        read_received_email_attachments(db, emails.rows)]
    IN  [ok   |-> shape # None /\ \A t \in Tables : tables[t].ok,
         rows |-> [t \in Tables |-> tables[t].rows]]

MaxId(rows) == Max({0} \cup {r.id : r \in rows})

\* Mutant: is_called is not looked at.
SourceNext_mutant(q) == q.last_value

\* A sequence is read outside the snapshot: PostgreSQL keeps no old versions of
\* it.  The next id of one table, from the rows of the snapshot and the sequence
\* as it is when it is read.
SourceNext(q) == IF q.is_called THEN q.last_value + 1 ELSE q.last_value

read_sequence_states(sequences, rows) ==
    [ok   |-> \A t \in SERIAL_RELATIONS : sequences[t].regular,
     next |-> [t \in SERIAL_RELATIONS |->
                  Max({SourceNext(sequences[t]), MaxId(rows[t]) + 1})]]
=============================================================================
