----------------------------- MODULE PgArtifact -----------------------------
(***************************************************************************)
(* The SQLite file that tools/pg-to-turso builds (sqlite.rs): the schema   *)
(* of the target, the order in which the rows are inserted under it, the   *)
(* ids that AUTOINCREMENT will give out next, and the validations that run *)
(* on the file before it is published.                                     *)
(***************************************************************************)
EXTENDS PgSource

-----------------------------------------------------------------------------
(* The schema (migrations 1 to 5).                                         *)

FK(table, column, parent) == [table |-> table, column |-> column,
                              parent |-> parent]
Connected == {"tmo_import_overview", "tmo_import_loan", "tmo_import_payment",
              "tmo_credential", "monarch_credential", "loan_workspace",
              "loan_workspace_photo"}

ForeignKeys ==
    {FK("stream", "default_account_id", "account"),
     FK("stream", "parent_id", "stream"),
     FK("stream_view_stream", "stream_view_id", "stream_view"),
     FK("stream_view_stream", "stream_id", "stream"),
     FK("stream_schedule", "stream_id", "stream"),
     FK("stream_schedule", "account_id", "account"),
     FK("stream_event", "stream_id", "stream"),
     FK("stream_event", "account_id", "account"),
     FK("stream_event", "override_account_id", "account"),
     FK("tmo_import_loan", "stream_id", "stream"),
     FK("tmo_payment_event_link", "tmo_payment_id", "tmo_import_payment"),
     FK("tmo_payment_event_link", "stream_event_id", "stream_event"),
     FK("received_email_attachment", "email_id", "received_email")}
    \cup {FK(t, "connection_id", "integration_connection") : t \in Connected}

\* Columns that may not repeat together; rows with a NULL in one may.
UniqueKeys(t) ==
    CASE t \in SERIAL_RELATIONS \cup {"tmo_account"} -> {{"id"}}
      [] t \in {"tmo_credential", "monarch_credential"} -> {{"connection_id"}}
      [] t = "stream_view_stream" -> {{"stream_view_id", "stream_id"}}
      [] t = "tmo_payment_event_link" -> {{"tmo_payment_id"}}
      [] t = "settings" -> {{"key"}}

NaturalKeys(t) ==
    CASE t = "app_user" -> {{"email"}}
      [] t = "stream_event" -> {{"stream_id", "source_type", "source_id"}}
      [] t = "integration_connection" -> {{"slug"}}
      [] t = "tmo_import_overview" -> {{"connection_id", "snapshot_date"}}
      [] t = "tmo_import_loan" -> {{"connection_id", "loan_account"}}
      [] t = "tmo_import_payment" -> {{"connection_id", "external_id"}}
      [] t = "portfolio_snapshot" -> {{"snapshot_date"}}
      [] t = "loan_workspace" -> {{"connection_id", "loan_account"}}
      [] t = "loan_workspace_photo" ->
            {{"connection_id", "loan_account", "provider", "image_url"}}
      [] t = "received_email" -> {{"resend_email_id"}}
      [] t = "received_email_attachment" ->
            {{"email_id", "resend_attachment_id"}}
      [] OTHER -> {}

\* The partial unique indexes: of these rows there is at most one.
Singletons(t, rows) ==
    CASE t = "account" -> {{r \in rows : r.is_primary /\ r.is_active}}
      [] t = "stream_view" -> {{r \in rows : r.is_default /\ r.is_active}}
      [] t = "loan_workspace_photo" ->
            {{r \in rows : /\ r.is_featured
                           /\ r.connection_id = q.connection_id
                           /\ r.loan_account = q.loan_account} : q \in rows}
      [] OTHER -> {}

Distinct(rows, columns) ==
    \A r, q \in rows :
        (\A c \in columns : r[c] # None /\ r[c] = q[c]) => r = q

-----------------------------------------------------------------------------
(* Loading.                                                                *)

FinanceOrder == <<"app_user", "account", "stream", "stream_view",
                  "stream_view_stream", "stream_schedule", "stream_event">>
ProviderOrder == <<"integration_connection", "tmo_import_overview",
                   "tmo_import_loan", "tmo_import_payment", "tmo_account",
                   "tmo_credential", "monarch_credential">>
RestOrder == <<"portfolio_snapshot", "settings", "sync_log", "loan_workspace",
               "loan_workspace_photo", "received_email",
               "received_email_attachment", "tmo_payment_event_link">>
LoadOrder == FinanceOrder \o ProviderOrder \o RestOrder

\* The tables that are filled when the rows of table n are inserted; a stream
\* gets its parent when all the streams are there.
Filled(n) ==
    {LoadOrder[i] : i \in 1..(n - 1)}
    \cup (IF LoadOrder[n] = "stream" THEN {"stream"} ELSE {})

\* The inserts of the one transaction under the constraints of the schema.
load_dataset(rows) ==
    \A n \in DOMAIN LoadOrder :
        LET t == LoadOrder[n] IN
        /\ \A r \in rows[t] : r.fault = None
        /\ \A f \in {g \in ForeignKeys : g.table = t}, r \in rows[t] :
              r[f.column] # None =>
                  /\ f.parent \in Filled(n)
                  /\ \E p \in rows[f.parent] : p.id = r[f.column]
        /\ \A columns \in UniqueKeys(t) \cup NaturalKeys(t) :
              Distinct(rows[t], columns)
        /\ \A only \in Singletons(t, rows[t]) : Cardinality(only) <= 1

\* The rows as they are read back: the streams are inserted without their
\* parents, which an UPDATE adds from the dataset.
insert_streams(rows) == {[s EXCEPT !.parent_id = None] : s \in rows["stream"]}
set_parents(streams, rows) ==
    {[s EXCEPT !.parent_id =
        (CHOOSE r \in rows["stream"] : r.id = s.id).parent_id] : s \in streams}
\* Mutant: the second pass over the streams is left out.
FinanceRows_mutant(rows) ==
    [t \in FinanceTables |->
        IF t = "stream" THEN insert_streams(rows) ELSE rows[t]]

FinanceRows(rows) ==
    [t \in FinanceTables |->
        IF t = "stream" THEN set_parents(insert_streams(rows), rows) ELSE rows[t]]
ProviderRows(rows) == [t \in ProviderTables |-> rows[t]]
RestRows(rows) == [t \in OperationTables \cup InboxTables |-> rows[t]]

readback(rows) == FinanceRows(rows) @@ ProviderRows(rows) @@ RestRows(rows)

-----------------------------------------------------------------------------
(* AUTOINCREMENT.                                                          *)

\* The row of sqlite_sequence is one below the next id.
set_sequences(rows, next) == [t \in SERIAL_RELATIONS |-> next[t] - 1]

\* The id of the next insert, as the probe of each table finds it.
probe_next_id(rows, seq, t) == Max({seq[t], MaxId(rows[t])}) + 1

\* What read_sequence_states must have said of every table.
validate_sequence_contract(rows, sequences, next) ==
    \A t \in SERIAL_RELATIONS :
        next[t] = Max({SourceNext(sequences[t]), MaxId(rows[t]) + 1})

validate_sequences(rows, seq, next) ==
    \A t \in SERIAL_RELATIONS :
        seq[t] = next[t] - 1 /\ probe_next_id(rows, seq, t) = next[t]

-----------------------------------------------------------------------------
(* Validation of what was read back.                                       *)

Sound(rows, tables) == \A t \in tables : \A r \in rows[t] : r.fault = None

\* The values of the finance tables, with the relations between columns.
ValidAccounts(rows) ==
    /\ Sound(rows, FinanceTables \ {"stream_schedule", "stream_event"})
    /\ \E u \in rows["app_user"] : u.is_active
    /\ \A u \in rows["app_user"] :
          u.is_active => u.password_hash.scheme = "argon2id"
    /\ \A a \in rows["account"] :
          (a.balance = None) <=> (a.balance_as_of_date = None)
ValidEvents(rows) ==
    /\ Sound(rows, {"stream_schedule", "stream_event"})
    /\ \A e \in rows["stream_event"] :
          e.status = "received" => e.actual_date # None /\ e.actual_amount # None
validate_destination_values(rows) == ValidAccounts(rows) /\ ValidEvents(rows)

ValidProviders(rows) ==
    /\ Sound(rows, ProviderTables)
    /\ \A a \in rows["tmo_account"] : a.id = 1
ValidRest(rows) ==
    /\ Sound(rows, OperationTables \cup InboxTables)
    /\ \A l \in rows["sync_log"] : validate_terminal_sync(l)
validate_integrations_destination_values(rows) ==
    ValidProviders(rows) /\ ValidRest(rows)

validate_natural_keys(rows) ==
    \A t \in Tables :
        /\ \A columns \in NaturalKeys(t) : Distinct(rows[t], columns)
        /\ \A only \in Singletons(t, rows[t]) : Cardinality(only) <= 1

\* The digest of a table stands for its rows.
stats(rows) == [row_count |-> Cardinality(rows), canonical_rows |-> rows]
dataset_stats(rows) == [t \in Tables |-> stats(rows[t])]

ensure_stats_match(source, destination) ==
    \A t \in Tables : source[t] = destination[t]

\* build_artifact up to the finished temporary file; what else it checks
\* (pragmas, column types, the ledger, the empty target tables) depends on
\* nothing that the source holds.
build_checks(rows, sequences, next) ==
    /\ load_dataset(rows)
    /\ validate_sequence_contract(rows, sequences, next)
    /\ validate_sequences(rows, set_sequences(rows, next), next)
    /\ validate_destination_values(readback(rows))
    /\ validate_integrations_destination_values(readback(rows))
    /\ ensure_stats_match(dataset_stats(rows), dataset_stats(readback(rows)))
    /\ validate_natural_keys(readback(rows))

build(rows, next) ==
    [rows |-> readback(rows), seq |-> set_sequences(rows, next)]
=============================================================================
