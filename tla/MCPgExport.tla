----------------------------- MODULE MCPgExport -----------------------------
(***************************************************************************)
(* Legacy databases for PgExport.  Each is a variation of one that has a   *)
(* row or two in every table, with the versions that can be exported.      *)
(***************************************************************************)
EXTENDS PgExport

SmallCalendar == [m \in FirstMonth..(LastMonth + 1) |-> 3 * m + (m \div 2) + 1]

-----------------------------------------------------------------------------
(* The database that the others vary.                                      *)

User(id, email, scheme, active) ==
    [id |-> id, email |-> email, is_active |-> active, fault |-> None,
     password_hash |-> [scheme |-> scheme, password |-> "pw"]]
Acct(id, primary) ==
    [id |-> id, is_primary |-> primary, is_active |-> TRUE, balance |-> 5,
     balance_updated_at |-> 3, fault |-> None]
Strm(id, parent, account) ==
    [id |-> id, name |-> "rent", parent_id |-> parent,
     default_account_id |-> account, kind |-> "manual_expense", type |-> "x",
     fault |-> None]
View(id, default) ==
    [id |-> id, is_default |-> default, is_active |-> TRUE, fault |-> None]
Schd(id, stream, frequency, label, account) ==
    [id |-> id, stream_id |-> stream, account_id |-> account, label |-> label,
     amount |-> -10, frequency |-> frequency, start_date |-> 1, fault |-> None]
Evnt(id, stream, source_type, source_id, date, amount, label, account) ==
    [id |-> id, stream_id |-> stream, account_id |-> account, label |-> label,
     expected_date |-> date, actual_date |-> None, amount |-> amount,
     status |-> "projected", source_id |-> source_id,
     source_type |-> source_type, fault |-> None]
Received(e) == [e EXCEPT !.status = "received", !.actual_date = e.expected_date]
Conn(id, slug, provider, created) ==
    [id |-> id, slug |-> slug, provider |-> provider, status |-> "active",
     syncable |-> FALSE, created_at |-> created, fault |-> None]
Cred(connection, key) ==
    [connection_id |-> connection, secret |-> [key |-> key, plain |-> "pin"],
     fault |-> None]
Log(id, slug, status, started, finished) ==
    [id |-> id, connection_slug |-> slug, status |-> status,
     started_at |-> started, finished_at |-> finished, fault |-> None]
Photo(id, url, featured) ==
    [id |-> id, connection_id |-> 1, loan_account |-> "L1", provider |-> "user",
     image_url |-> url, is_featured |-> featured, fault |-> None]
Mail(id, resend) == [id |-> id, resend_email_id |-> resend, fault |-> None]
Attm(id, email, resend, filename, key) ==
    [id |-> id, email_id |-> email, resend_attachment_id |-> resend,
     filename |-> filename, s3_key |-> key, fault |-> None]
Key(segment) == AttachmentKey("m1", segment)
Loan(stream) == [id |-> 1, connection_id |-> 1, stream_id |-> stream,
                 loan_account |-> "L1", fault |-> None]

\* A monthly schedule of stream 1 and a weekly one of its child, each with an
\* event that is as generated and one that the user has moved, repriced, renamed
\* or given an account.
Rows0 == [t \in Tables |->
    CASE t = "app_user" -> {User(1, "me", "argon2id", TRUE),
                            User(2, "old", "bcrypt", FALSE)}
      [] t = "account" -> {Acct(1, TRUE), [Acct(2, FALSE) EXCEPT
                              !.balance = None, !.balance_updated_at = None]}
      [] t = "stream" -> {Strm(1, 2, 1), Strm(2, None, None)}
      [] t = "stream_view" -> {View(1, TRUE), View(2, FALSE)}
      [] t = "stream_view_stream" -> {[stream_view_id |-> 1, stream_id |-> 2,
                                       fault |-> None]}
      [] t = "stream_schedule" -> {Schd(1, 1, "monthly", None, None),
                                   Schd(2, 2, "weekly", <<"gym">>, 2)}
      [] t = "stream_event" ->
            {Evnt(1, 1, "stream_schedule", <<1, 1>>, 1, -10, <<"rent", "due">>, 1),
             Evnt(2, 1, "stream_schedule", <<1, 5>>, 6, -12, <<"late">>, None),
             Received(Evnt(3, 2, "stream_schedule", <<2, 3>>, 4, -10, <<"gym">>, 2)),
             Evnt(4, 2, "manual", None, 2, 7, None, 1)}
      [] t = "integration_connection" -> {Conn(1, "tmo", "mortgage_office", 1)}
      [] t = "tmo_import_overview" -> {[id |-> 1, connection_id |-> 1,
                                        snapshot_date |-> 1, fault |-> None]}
      [] t = "tmo_import_loan" -> {Loan(1)}
      [] t = "tmo_import_payment" -> {[id |-> 1, connection_id |-> 1,
                                       external_id |-> "p1", fault |-> None]}
      [] t = "tmo_account" -> {[id |-> 1, fault |-> None]}
      [] t = "tmo_credential" -> {Cred(1, "new")}
      [] t = "monarch_credential" -> {}
      [] t = "tmo_payment_event_link" -> {[tmo_payment_id |-> 1,
                                    stream_event_id |-> 3, fault |-> None]}
      [] t = "portfolio_snapshot" -> {[id |-> 1, snapshot_date |-> 1,
                                       fault |-> None]}
      [] t = "settings" -> {[key |-> "k", fault |-> None]}
      [] t = "sync_log" -> {Log(1, "tmo", "success", 1, 2)}
      [] t = "loan_workspace" -> {[id |-> 1, connection_id |-> 1,
                                   loan_account |-> "L1", fault |-> None]}
      [] t = "loan_workspace_photo" -> {Photo(1, "u1", TRUE),
                                        Photo(2, "u2", FALSE)}
      [] t = "received_email" -> {Mail(1, "m1")}
      [] t = "received_email_attachment" ->
            {Attm(1, 1, "a1", "doc", Key("doc")), Attm(2, 1, "a2", "b", Key("a2")),
             Attm(3, 1, "a3", "a/b", Key("_")), Attm(4, 1, "a4", "c", None)}]

Relation(schema, name, kind, owner, columns) ==
    [schema |-> schema, name |-> name, kind |-> kind, owner |-> owner,
     columns |-> columns]
LegacyColumns(t) == expected_columns(t) \ {"direction", "amount_certainty"}
Table(m) == Relation(m[1], m[2], "table", None, LegacyColumns(m[2]))
Relations0 ==
    {Table(m) : m \in MAPPED_RELATIONS}
    \cup {Relation("public", "seq", "sequence", t, {}) : t \in SERIAL_RELATIONS}
    \cup {Relation("tower_sessions", "session", "table", None, {"base"})}

\* Where the sequence of a table stands after an id was given out that no row
\* has any more.
Issued(last) == [last_value |-> last, is_called |-> TRUE, regular |-> TRUE]
Base == [relations |-> Relations0, rows |-> Rows0,
         sequences |-> [t \in SERIAL_RELATIONS |-> Issued(MaxId(Rows0[t]) + 1)]]

Plus(t, r) == [Base EXCEPT !.rows[t] = @ \cup {r}]
Rows(t, rows) == [Base EXCEPT !.rows[t] = rows]
Shaped(columns) ==
    [Base EXCEPT !.relations =
        (@ \ {Table(<<"public", "stream">>)})
        \cup {Relation("public", "stream", "table", None, columns)}]
With(r) == [Base EXCEPT !.relations = @ \cup {r}]
Columned(t, columns) ==
    [Base EXCEPT !.relations =
        (@ \ {Table(<<"public", t>>)})
        \cup {Relation("public", t, "table", None, columns)}]

\* The shape that stores magnitudes and directions.
Upgraded ==
    LET Abs(rows) == {[r EXCEPT !.amount = IF @ < 0 THEN -@ ELSE @] : r \in rows}
    IN  [Shaped(expected_columns("stream")) EXCEPT
            !.rows["stream"] = {s @@ [direction |-> "out",
                                      amount_certainty |-> "known"] : s \in @},
            !.rows["stream_schedule"] = Abs(@),
            !.rows["stream_event"] = Abs(@)]

-----------------------------------------------------------------------------
(* The sources: versions, those that can be exported, and keys.            *)

Current == [current |-> "new", legacy |-> None]
Both == [current |-> "new", legacy |-> "old"]
NoKeys == [current |-> None, legacy |-> None]

\* The legacy program goes on writing: it adds an event, removes it again, and
\* its sequences move on.
Writing ==
    <<Base,
      [Plus("stream_event", Evnt(6, 2, "manual", None, 5, 7, None, 1)) EXCEPT
          !.sequences["stream_event"] = Issued(6)],
      [Base EXCEPT !.sequences["stream_event"] = Issued(7)]>>

AllVersions ==
    [plain |-> <<Base>>,
     writing |-> Writing,
     \* a run that is quiesced while the operator waits
     running |-> <<Plus("sync_log", Log(2, "tmo", "running", 3, None)),
                       Plus("sync_log", Log(2, "tmo", "success", 3, 4))>>,
     backwards |-> <<Plus("sync_log", Log(2, "tmo", "error", 3, 2))>>,
     \* the shapes of stream
     upgraded |-> <<Upgraded>>,
     negative |-> <<[Upgraded EXCEPT !.rows["stream_event"] =
                          @ \cup {Evnt(6, 2, "manual", None, 5, -7, None, 1)}]>>,
     half |-> <<Shaped({"base", "direction"})>>,
     extra |-> <<Columned("account", {"base", "extra"})>>,
     scheduled |-> <<Columned("stream_event", {"base", "scheduled_date"})>>,
     \* the relations
     remnant |-> <<With(Relation("public", "received_email", "table", None,
                                   {"base"}))>>,
     unknown |-> <<With(Relation("public", "notes", "table", None, {"base"}))>>,
     stray |-> <<With(Relation("public", "seq", "sequence", None, {}))>>,
     missing |-> <<[Base EXCEPT !.relations =
                         @ \ {Table(<<"intg", "loan_workspace">>)}]>>,
     irregular |-> <<[Base EXCEPT !.sequences["stream"].regular = FALSE]>>,
     unused |-> <<[Base EXCEPT !.sequences["account"] =
                         [last_value |-> 3, is_called |-> FALSE,
                          regular |-> TRUE]]>>,
     behind |-> <<[Base EXCEPT !.sequences["account"] = Issued(1)]>>,
     \* slugs of old logs
     slugless |-> <<Plus("sync_log", Log(2, None, "error", 1, 1))>>,
     ambiguous |-> <<[Plus("sync_log", Log(2, None, "error", 3, 4)) EXCEPT
                           !.rows["integration_connection"] =
                               @ \cup {Conn(2, "bank", "csv", 2)}]>>,
     later |-> <<[Plus("sync_log", Log(2, None, "error", 1, 1)) EXCEPT
                        !.rows["integration_connection"] =
                            @ \cup {Conn(2, "bank", "csv", 2)}]>>,
     \* keys and credentials
     oldkey |-> <<Rows("tmo_credential", {Cred(1, "old")})>>,
     nokey |-> <<Rows("tmo_credential", {Cred(1, "old")})>>,
     lostkey |-> <<Rows("tmo_credential", {Cred(1, "lost")})>>,
     keyless |-> <<Base>>,
     bare |-> <<Rows("tmo_credential", {})>>,
     misfiled |-> <<Plus("monarch_credential", Cred(1, "new"))>>,
     idle |-> <<[Base EXCEPT !.rows["tmo_credential"] = {},
                                 !.rows["integration_connection"] =
                                     {[c EXCEPT !.status = "error"] : c \in @}]>>,
     syncable |-> <<Plus("integration_connection",
                           [Conn(2, "bank", "csv", 2) EXCEPT !.syncable = TRUE])>>,
     \* users
     locked |-> <<Rows("app_user", {User(1, "me", "argon2id", FALSE),
                                      User(2, "old", "argon2id", TRUE)})>>,
     bcrypt |-> <<Plus("app_user", User(3, "new", "bcrypt", TRUE))>>,
     \* rows that the target has no place for
     undated |-> <<Plus("account", [Acct(3, FALSE) EXCEPT
                                          !.balance_updated_at = None])>>,
     primaries |-> <<Plus("account", Acct(3, TRUE))>>,
     orphan |-> <<Plus("stream", Strm(3, 9, None))>>,
     garbled |-> <<Plus("stream_view", [View(3, FALSE) EXCEPT
                                              !.fault = "column"])>>,
     unchecked |-> <<Plus("stream_schedule",
                            [Schd(3, 1, "annual", None, None) EXCEPT
                                !.fault = "check"])>>,
     secondtmo |-> <<Plus("tmo_account", [id |-> 2, fault |-> None])>>,
     unlinked |-> <<Rows("tmo_import_loan", {Loan(9)})>>,
     featured |-> <<Plus("loan_workspace_photo", Photo(3, "u3", TRUE))>>,
     \* events
     collapse |-> <<Plus("stream_event",
                           Evnt(6, 1, "stream_schedule", <<1, 2>>, 2, -10, None, 1))>>,
     misaligned |-> <<Plus("stream_event", Received(
                           Evnt(6, 2, "stream_schedule", <<2, 4>>, 4, -10, None, 1)))>>,
     unowned |-> <<Plus("stream_event",
                          Evnt(6, 2, "stream_schedule", <<1, 8>>, 8, -10, None, 1))>>,
     foreign |-> <<Plus("stream_event",
                          Evnt(6, 1, "stream_schedule", <<"x">>, 8, -10, None, 1))>>,
     halfpaid |-> <<Plus("stream_event",
                           [Evnt(6, 2, "manual", None, 5, 7, None, 1) EXCEPT
                               !.status = "received"])>>,
     \* attachments
     unsafe |-> <<Plus("received_email_attachment",
                         Attm(5, 1, "../x", "d", Key("d")))>>,
     misnamed |-> <<Plus("received_email_attachment",
                           Attm(5, 1, "a5", "d", Key("e")))>>,
     unmailed |-> <<Plus("received_email_attachment",
                           Attm(5, 2, "a5", "d", Key("d")))>>]

AllSources == DOMAIN AllVersions
AllKeys ==
    [s \in Sources |-> CASE s \in {"oldkey", "lostkey"} -> Both
                         [] s \in {"keyless", "idle"} -> NoKeys
                         [] OTHER -> Current]
AllPortable ==
    [s \in Sources |->
        CASE s = "writing" -> {1, 2, 3}
          [] s = "running" -> {2}
          [] s \in {"plain", "upgraded", "unused", "behind", "slugless", "later",
                    "oldkey", "idle"} -> {1}
          [] OTHER -> {}]
KnownUser == [email |-> "me", password |-> "pw"]

=============================================================================
