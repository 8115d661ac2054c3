# Formal models of fin-stream

This directory holds TLA+ models of the parts of fin-stream (the "Trust Deeds"
application) whose correctness depends on orders of events that its tests do
not reach: several serverless invocations sharing one libSQL database, killed
between any two statements, with providers, webhooks and object stores that
fail, repeat and answer late; and the two tools that carry a legacy database and
its objects over to the program. TLC checks the models on small instances; TLAPS
proves the most important results for every value of the constants. Paths
below are relative to the repository root.

## 1. The system

The program is a Rust web application deployed as serverless functions
(`vercel.json`: `maxDuration` 300 s, one daily cron). Invocations share no
memory: all coordination goes through libSQL/Turso rows, and large payloads are
in an S3-compatible object store.

| Component | State it keeps | Operations | Hard behaviour |
|---|---|---|---|
| operations (`src/operations`, `src/operator.rs`, `src/bin/ops.rs`) | `operation_control` (mode, scheduler flag), `sync_log` | set the mode, claim a manual or a scheduled run, interrupt stale runs, complete with success or error | claims race; unique indexes decide; a freeze races requests already admitted |
| sync_runtime (`src/sync_runtime`) | none of its own; writes `sync_log`, the connection's status and the imported tables | run = sweep, claim, fetch, finish; the status page also sweeps | a kill after the claim, a 240 s deadline that drops any await, lost commit answers, an owner that outlives its run |
| scheduler (`src/scheduler.rs`) | `next_scheduled_at` of a connection | slot arithmetic; the cron loop over TMO and Monarch | redelivered cron, boundary instants |
| integrations: actions (`src/integrations/actions.rs`) | `sync_cadence`, Monarch balance | cadence form, credentials, Monarch balance run | writes the same columns as cron; no deadline and no recovery for Monarch |
| integrations: TMO tables (`src/integrations/tmo_write.rs`) | loans, payments, links to their events | replace the snapshot inside the import transaction | the stream that gets the events is looked up anew by each import; three deletions and two cascades must leave exactly the snapshot |
| write gate (`src/write_gate.rs`) | none | reads `operation_control` once per request | what it read is stale when the handler writes |
| resend (`src/resend`) | `intg_received_email`, attachments, processing leases | webhook, retry; fetch, put, record, complete or fail | at-least-once delivery, leases that expire under a suspended owner, unfenced object writes |
| media (`src/media`) | objects under canonical keys; photo uploads | conditional PUT; upload intents, verification, finalisation, signed GET URLs | a PUT that arrives after its sender gave up; store and database share no transaction |
| workspace_inbox (`src/workspace_inbox`) | loan workspaces, photos, email links | link and unlink, photo metadata, order and featured photo | rows that others remove while a request works |
| finance (`src/finance`) | accounts, streams, schedules, events | save and delete streams (each refreshes the projections), add, edit, remove, reconcile events, forecast | a save works from what it read before its transaction; repeated projection against user edits; month-end dates; balances on both sides of an anchor |
| sessions (`src/session_store.rs`, `src/middleware.rs`, `src/db.rs`, `app/login`, `app/logout`) | `app_session`, `app_user`, two 30 s caches per instance | create, save, load, delete; the check of every request | a revoked session that is cached again, or in another instance |
| db start-up, config, crypto, providers, templates, browser code | migrations ledger | start-up, rendering, network calls | none that a model would show |
| `tools/pg-to-turso` | a SQLite artifact and a manifest | inventory, export | the source goes on changing; two runs name the same files; failures between file and manifest |
| `tools/object-cutover` | objects in the target, manifests | inventory, backfill, promote | lost answers, reruns over partial copies, overlapping runs |

`PROJECT.json` lists the same components with what is modelled of each, and the
hazards at their lines.

What makes the modelled components correct:

* *Synchronisation.* One run per integration at a time; a live owner keeps its
  run; an owner that lost its run writes nothing; log, import and connection
  status agree; a slot is attempted a bounded number of times and never after a
  success covers it; a freeze stops new runs; a dead run is released.
* *Scheduling.* A slot is the latest instant of the cadence's grid, the same for
  every delivery between two slots; the slot shown belongs to the cadence.
* *Inbound email.* A 2xx means stored; stored means complete; rows match
  objects; one owner at a time; eventually stored.
* *Streams.* After a save the projected window is exactly what the rules say;
  what was received, removed or changed by the user survives every refresh; no
  day has two rows of one rule; a deleted stream expects nothing.
* *Forecast.* Rows add up from the opening to the ending balance, windows
  connect, and the figures do not depend on the day of the anchor.
* *TMO import.* The linked history events are exactly the last snapshot; what
  stays keeps its identity; a payment is counted once.
* *Loan workspace.* No photo row without bytes; photos in the order of their
  upload; a removed photo becomes unreachable.
* *Sessions.* A revoked session or a deactivated user is let through for a bounded
  time only, on whatever instance.
* *Migration.* An artifact that a manifest calls complete can take over from the
  legacy program; exactly the databases that cannot be carried over are refused;
  a successful run is durable, a failed one leaves nothing; every object ends up,
  once, under the key that the exported row has.

## 2. Modules

| Module | Contents |
|---|---|
| `Optional`, `Ordered` | an absent value (`NULL`, `None`); the rows of a query in the order of its `ORDER BY` |
| `Cadence` | slot arithmetic of `scheduler.rs`, as operators |
| `SyncRuns` | the control row, `sync_log`, the TMO and Monarch runs, cron, the cadence form, the status page, the operator; extends `Cadence` |
| `SyncRunsProofs` | the inductive invariant and the theorems that follow from it |
| `Inbox` | what the storing of an email promises, without invocations, leases or stores |
| `InboundEmail` | webhook, retry, lease, object store and completion of one email; instantiates `Inbox` and states that it implements it |
| `InboundEmailProofs` | the inductive invariant, the refinement and the exclusion of processors |
| `Schedules` | calendar and recurrence of `finance/date.rs` and `finance/repository.rs`, as operators |
| `CalendarProofs` | theorems about `Cadence` and `Schedules` |
| `StreamProjection` | one stream: its rules, the events projected from them, the user's changes; extends `Schedules` |
| `StreamProjectionProofs` | the inductive invariant and the theorems that follow from it |
| `Forecast` | `compute_forecast` and its helpers, as operators |
| `TmoImport` | payments, links and history events under imports and changing streams |
| `TmoImportProofs` | the inductive invariant and the theorems that follow from it |
| `Platform` | requests of browsers on the serverless platform: steps, loss, the limit of their life |
| `LoanWorkspace` | loans, workspaces, photos with their uploads, links of emails; extends `Platform` |
| `SessionStore` | sessions, the two caches of each instance, login and logout; extends `Platform` |
| `AppProofs` | the inductive invariants of sessions, photos, the order of photos and the transfers of `ObjectCutover`, and the theorems that follow from them |
| `LegacyEvents` | `schedule_transform.rs` of the exporter, as operators; extends `Schedules` |
| `ObjectKeys` | keys and URLs of objects as the exporter, the object tool and the program read them, as operators |
| `PgSource`, `PgArtifact` | what the exporter reads of a legacy database, and the SQLite file it builds and validates, as operators; the second extends the first |
| `PgExport` | runs of the exporter; extends `PgArtifact` |
| `PgExportProofs` | the inductive invariants of the runs and the theorems that follow from them |
| `ObjectCutover` | runs of the object tool; extends `ObjectKeys` |
| `MCAlgorithms` | reference definitions for `Cadence`, `Schedules`, `Forecast` and `LegacyEvents`, and the inputs they are compared on |
| `AlgorithmsProofs` | the same comparisons for every input |
| `MCApp` | sessions, photos or loans, on one platform |
| `MCPgExport`, `MCObjectCutover`, `MCMigration` | the legacy databases and corpora examined; both tools in one model |
| `MCSyncRuns`, `MCInboundEmail`, `MCStreamProjection`, `MCTmoImport` | model values, small calendars, rules and symmetry for TLC |

Definitions that end in `_mutant` (and `LeaseFree_early`, `LeaseFree_forever`,
`tombstone_all`, `projection_slot_by_date`, `transform_event_moved`) are plausible mistakes: each is
the definition below it with one error, and the property `PROJECT.json` names
must fail when it takes that definition's place. They are used by no
specification.

### SyncRuns

State and code:

* `control` is the single row of `operation_control`. `enter_read_only`,
  `enable_writes` and `set_scheduler_enabled` are the operator's commands, one
  `UPDATE` each.
* `log` is `sync_log`, indexed by its autoincrement id (`nextRun`); an id that
  is not used yet has status `"none"`. `conn` holds the three columns of
  `intg_integration_connection` that the runs read and write.
* `ledger[s]` stands for all imported tables of an integration: which run wrote
  them last. `apply_tmo_sync` and `apply_monarch_balance` are reduced to that
  assignment, which is what the properties tell apart.
* `pc[w]` and `job[w]` are an invocation's position and its local variables.
  `job[w].born` is the instant the invocation began, `started` the instant read
  before the sweep, `run` the claimed id. `base` is a history variable: the
  import the fetched data is newer than.
* `clock` is UTC now. All invocations see the same clock.

Actions: `ManualRequest`, `CronRequest` and `CadenceRequest` are the write gate
followed by the handler's first instant. `prepare_schedule`, `persist_cadence`,
`interrupt_stale`, `Claim`/`ClaimRefused`, `finish_success`, `finish_failure`
and `recover_claim` are one database transaction each. `capture` is the whole
conversation with the provider. `GiveUp`, the failing disjuncts, `Abort` (the
execution deadline or a panic) and `Kill` are the error paths. After each
transaction that commits there is a disjunct in which its answer is lost.
`Refusal` is the explanation that `claim_manual` and `claim_scheduled` derive
when they insert nothing.

Abstractions: the connection statuses `active` and `degraded` are both `"ok"`;
counts, messages and credentials are left out; the connection rows are there
from the start or never (no code of the repository deletes one). A page that
lists runs is one step, `recent_runs`: a reader delayed between its clock and its
`UPDATE` interrupts no more than one that starts later. Both integrations
share the module because they share `sync_log` and one cron invocation walks
both; they differ in the connection lookup before the claim (Monarch) and in
`recover_claim` (TMO only).

### InboundEmail

Emails share no row and no object, so one email is the whole system. `email` and
`atts` are the two tables, `lease` the lease row with its age, `objects` the
object store, `flight` the conditional PUTs whose sender no longer waits.
`acked` is a history variable: some delivery got a 2xx. `outage` says that the
platform, the provider or a store may still fail; `Heal` ends it, and the
liveness property is about what follows. Time is kept as ages, so that runs are
finite without a bound on the clock.

`claim_webhook` and `claim_retry` are the claim transaction (`claim_on`) behind
the two routes. `put_body` .. `complete` are the steps of `process_claim` in the
code's order; each repository call is one action with its lease test.
`StepFails`, `Timeout`, `mark_attachment_error` and `fail` are its error paths,
`Kill` the platform. `put_if_absent` (media) is a conditional PUT and, when the
object exists, a comparison with what is there; it is one step because objects
are only created, so a later comparison gives the same answer.

Abstractions: a lease token is the worker that holds it, or `NoOwner` once that
invocation is gone (tokens are random and never reused); `size_bytes` is the
content itself, the finest size there is; the pending attachments are taken in
any order, the code takes them by id; `Transient` and `Permanent` failures
differ only in the response code. A delivery turned away by the signature or by
the write gate changes nothing and is not an action. `MaxProcessing` counts from
the claim, the code's timeout from just after it; 45 s against a lease of 120 s
leaves room for the difference.

`Inbox` is the specification of what all this is for. An email is announced, each
of its parts is recorded once and for all, it is stored when nothing that was
announced is missing, and only a stored email is acknowledged; there are four
actions and no failures. `Promise` in `InboundEmail` maps the columns to it:
`stage` is whether there is a row and whether its status is `stored`, `recorded`
is what the rows of body and attachments say, `announced` the attachments that
have a row. Leases, objects, positions of workers and failed attempts are
stuttering. `ImplementsInbox` is `Promise!Spec`, and replaces separate
properties for acknowledgement, completeness and single recording.

### Schedules and StreamProjection

`Schedules` is parameterised by a calendar: `FirstDay[m]` is the day number of
the first day of month `m`, so that one definition serves the Gregorian calendar
(`MCAlgorithms`), a toy calendar with months of three and four days
(`MCStreamProjection`) and every calendar (`CalendarProofs`). It holds the
enumeration of `schedule_occurrences` (`FirstStep` is the rounding of
`ceil_div`), the clamping of due days to short months, and `projection_slot`,
the period number that becomes the `source_id` of an event. `Due` is the
declarative statement of when a rule falls due; no code corresponds to it.

In `StreamProjection` a stream is the whole system, since streams share no row.
`schedules` and `events` are the tables; an event is named by its source (a slot
of a schedule, or a manual number). `editor[w]` is a PUT or POST between
`list_streams`, which it reads outside a transaction, and the transaction of
`FinanceRepository::save_stream`; `today` may change in between. The requests
are the three forms of `build_stream_draft`: a list of schedules (`save_list`),
none (`save_kept`) and the flattened fields of the page (`save_flattened`).
`save_stream` is the whole transaction, including the deactivation of schedules
that the draft does not name and `refresh_stream_schedule_events_on`, which is
first `tombstone` and then `upsert` of what the rules `Generated`.

Abstractions: overrides are the set of overridden columns, their values do not
matter; one column per patch; a rule's amount stands for amount, label, account
and metadata, which the upsert treats alike; a manual event is expected on the
day it is entered; the two `SELECT`s of `list_streams` are one step; a request
adds at most one schedule. Status `confirmed` is only written by the TMO import.
Not modelled: `refresh_stream_schedule_events` and `restore_scheduled_event`
(no route calls them), `bootstrap_defaults`, views.

### Forecast

Amounts are whole cents instead of `f64`, days are numbers, and the tables are
read at one instant (the code reads balance, cash source and events in separate
statements; the hazard list records it). `is_late` and the columns that are only
passed through are left out. A range that ends before it starts, and a database
without a primary balance, are answered without a computation.

### TmoImport

`streams` keeps the columns by which `require_trust_deed_stream` finds its
target. `drafts[w]` is a save between its read and its transaction, as in
`StreamProjection`, here for kind and type; schedules and their refresh are left
to that module. `payments`, `links` and `events` are the three tables; an
external id (loan account, date and cents) is one value. A capture is a sequence
of such ids, each with or without a check number; one in which an id occurs
twice is refused. `replace_payment_projection` is the whole function: the two
upserts, the three deletions and the cascades of the link table.
`rekinded` is a history variable. The transaction it runs in, and who may run
it, are in `SyncRuns`. The upserts of account, overview, portfolio snapshot and
loans touch none of these tables; whether a loan is active is in `LoanWorkspace`.

`CountedOnce` has the premise that no stream has changed between trust-deed and
other kinds. Without the premise it does not hold: when the kind of the
trust-deed stream is edited and another stream takes its place, the next import
writes history events into the new one, and the events of the old one, which is
still active, stay (`src/integrations/tmo_write.rs:584` looks for orphans in the
target only), so that the forecast counts each of those payments twice until
the old stream is deleted.

### Platform, LoanWorkspace and SessionStore

`request[q]` is a request between two of its steps; `Lost` ends it at any of them
(a kill, a failing database, a closed connection), and `Tick` lets no request
outlive `RequestLife`.

In `LoanWorkspace`, `intent` stands for the signed tokens that were issued, each
with its random key, `object` for the keys that the store has, `orphan` for the
age by which the lifecycle rule of the bucket finds what to reclaim, and
`downloads` for the signed GET URLs. `upload` (the browser) and `reclaim` (the
bucket) are external. `finalize_photo_upload`, `verify_uploaded_intent` and
`create_manual_photo_metadata` are the three steps of finalisation: the token,
the object, the transaction. `serve_loan_photo` and `signed_redirect` are the two
of serving. `WindowAssumption` is what the comment at `src/media/http.rs:107-111`
asks of the deployment: an orphan is left alone for longer than an intent and a
request that accepted it can live. `removed` is a history variable. The form of
a workspace is one value per kind of column; of its two money columns, and of
its two URLs, there is one.

In `SessionStore`, `expires` is the table, `cache[i]` and `active_user_cache[i]`
are the two maps of an instance with the instants of their entries, and
`cached_expiry` the expiry that the record itself carries. The steps are those
between which another request, or another instance, can get in: `load` reads the
row and `cache_record` keeps it; `delete` removes the row and `evict` the copy of
its own instance only. `cycle_id`, `create` and `save` are login as
tower-sessions calls the store. One user is modelled, since users share nothing.
`deactivate` stands for an operator's `UPDATE`; no code of the repository has it.

### LegacyEvents, PgSource, PgArtifact and PgExport

A legacy database is its relations (with their columns), its rows and its
sequences. A row has the columns that relate it to other rows or decide a branch;
everything that a reader validates about single columns (dates, JSON, finite
numbers, non-empty text) is the row's `fault`. The readers of `source.rs` are one
operator each, `read_dataset` their conjunction; `load_dataset` inserts in the
code's order under the constraints of migrations 1 to 5. Parsing of dates and
slots is done, on the tuples of `LegacyEvents`.

`PgExport` runs them. `source` has a sequence of versions and `LegacyWrite` moves
to the next one at any time; a run's snapshot is one version, but the sequences
are read as they are when it comes to them. `finds` holds what the checks say
about each version and pair of versions, computed once: the checks are functions
of these. The actions follow `export`: two path checks, snapshot, rows,
sequences, temporary file, `persist_noclobber`, verification of what was read
back, rollback, manifest, sync. `fail` is an I/O error with the cleanup of its
place, `crash` the death of the process, after which nothing is cleaned up.
`Usable` says, without reference to the exporter's code, what the target needs.
`Portable`, given with each database, is what a person would decide.

### ObjectKeys and ObjectCutover

A key is a tuple of segments; the segments are a few strings that stand for the
cases the code tells apart (a separator, a dot segment, a percent sign, a
question mark). `canonical_key` and `legacy_physical_key` are the tool's,
`media_canonical_key` the program's. `ObjectCutover` runs inventories and
transfers (backfill from a directory, promotion between prefixes of a bucket)
against one bucket: `take_inventory` lists the source, `put_create` creates or
finds, `lose_put` is an attempt whose answer is lost, with or without effect,
`verify_object` downloads and compares, `list_destination` looks for strangers,
`publish` writes the manifest without overwriting one. References are copied in
the order of the manifest.
`ValidIsTransferred` follows the links of the program: the attachment's exported
key, the body's key, and the route that a page shows for a photo.

## 3. Runs

The clock unit is scaled; what matters is the order of the platform's limit, the
stale boundaries, the lease and the hour, which every configuration keeps. Two
workers are enough for the exclusion and fencing hazards (each is about an owner
and one other), and a worker that is done or killed serves as a new one, so the
number of invocations in a behaviour is not bounded by two.

| Run | Bounds | What it shows |
|---|---|---|
| `algorithms` | cadences at all instants within 50 h of the epoch, 2 units an hour; rules with 6 start dates, 9 window starts and windows up to 45 days over three Gregorian years around a leap day, each occurrence with six versions of its legacy event; forecasts of up to 3 of 7 kinds of events over 4 days, every anchor and window | slots, occurrences, migrated events and balances agree with independently written definitions: `SlotsAreOnGrid`, `OccurrencesAreDue` (with distinct slots), `LegacyEventsSurvive`, `WindowsConnect` (with rows that add up), `AnchorMoves` |
| `sync_slots` | 2 workers, 3 runs, 2 attempts, 3 instants over two slots | `NoOverlap`, `SlotAttemptsBounded`, `CoveredSlotNotRepeated`, `RefusalIsExplained`, `FreezeStopsClaims` with manual and scheduled runs mixed |
| `sync_fenced` | 2 workers, 3 runs, limit 3 above the boundary 1 | without a platform limit below the boundary (a local host), owners do lose their runs; nothing stale is written: `NoStaleOverwrite`, `OutcomeIsFinal`, `ImportMatchesLog` |
| `sync_live` | 2 workers, cron over both integrations and the settings form, 1 run each row, 3 instants, limit = stale boundary | `OwnerKeepsRun` at the tightest allowed boundary, `NextSlotIsTruthful`, `StaleRunIsReleased` |
| `inbound_fenced` | 2 workers, 1 attachment, 2 contents, 2 body kinds, an owner may outlive its lease, a delivery may announce more | `RowsMatchObjects`, `ImplementsInbox` |
| `inbound_live` | 2 workers, 2 attachments, two announcements, the timeout (1) below the lease (2) | `OneProcessor`, `ImplementsInbox`, `EventuallyStored` |
| `stream` | 2 editors, 5 rules, 2 schedules, 1 manual event, 3 user operations, the small calendar, a horizon of 5 days, two days | `ProjectionIsExact`, `OneRowPerPeriod`, `ReceivedIsFinal`, `RemovedStaysRemoved`, `OverridesSurviveSaves`, `DeletedStreamIsQuiet` |
| `tmo_import` | 2 initial databases, 2 editors, 2 payments, 3 streams, 5 imports and requests | `HistoryMatchesPayments`, `CountedOnce`, `ImportKeepsRows` |
| `migration` | 2 exporters and an inventory with the same paths, 1 error or crash, on each of the databases of `MCPgExport` (sound ones of both shapes, some with a second version, and ones with one thing wrong); 2 transfers, 1 failure, 2 attempts for a put, on each of the corpora of `MCObjectCutover` | `CompleteIsUsable`, `SuccessIsDurable`, `FailureLeavesNothing`, `RefusalIsJustified`, `ValidIsTransferred`, `TransferCompletes` |
| `app` | 2 requests at a time; photos: 2 loans, a migrated photo and an intent, 5 instants, ids up to 4; sessions: 2 instances, a session, 5 instants; loans: an email, 2 forms | `RowHasBytes`, `PhotosInOrder`, `RemovedBecomesUnreachable`, `RevocationTakesEffect` |
| `retry_doc`, `stream_lost_rule` | expected violations | the findings of section 5 |

The type invariants are proved, as parts of the inductive invariants of section 4,
and are in no run of their own; the one of the workspaces' forms and links
(`WorkspaceTypeOK`) was checked on the instance of `app`. Every inductive invariant
was checked as an invariant of its run's instance before it was proved.

Why the bounds are enough for what they are used for: three runs let a slow
owner, the run that replaced it and a third run of a later slot coexist; the
clock reaches one instant beyond a stale boundary after a kill at any point; two
attempts per slot make "one too many" visible. `sync_slots` uses a limit of zero
instants: an invocation starts and ends within one clock unit, which leaves all
interleavings of two invocations and makes every row of a killed owner stale one
unit later. Three operations on a stream let a save create rows, the user touch
one and a second save, which may have read before that, meet it; the small
calendar has a short and a long month and windows that cross months. Five
operations on the import let a stream lose the role of trust-deed stream to
another one and get it back, with an import at each point. In `app` the times are
one unit each except the reclaiming window (3) and the life of a session (4): an
intent can be uploaded, finalised, its photo removed, its object reclaimed and
the intent finalised again within five instants, and a cached session outlives
its row by every bound there is. One intent is enough for `RowHasBytes`, since
keys are independent; the migrated photo is the second row for the order. In
`migration` a second exporter, or transfer, is all that can be in the way of
the first, and each database and each corpus is a small one with one thing
different. Workers, editors,
contents, attachments and payments are interchangeable and are declared
symmetric in the safety runs; the liveness runs use no symmetry.

`ImplementsInbox` asks for completeness in the step that stores an email. A
delivery that announces another attachment for an email that is stored already
inserts a pending row that nothing fetches (`src/resend/repository.rs:93`);
Resend redelivers the same payload.

The synchronisation and email models always have an enabled step (time, or a
request), so deadlock is checked there. `algorithms`, the stream runs,
`tmo_import` and `app` end when their bounds (for `app`, the clock) are used up,
and the runs of `migration` end when the tools do; they do not check it.

### Fairness

`LiveSpec` of `SyncRuns` assumes nothing of the invocations. It assumes that
time passes, that the platform ends an invocation that reached `maxDuration`,
and that the status page is loaded again and again while writes are enabled
(strong fairness of `recent_runs`: the mode may be switched in between). The
property has the premise that writes are enabled again and again.

`LiveSpec` of `InboundEmail` assumes that the outage ends, that time passes, that
a live invocation goes on with its work after that, and that Resend redelivers
until it gets a 2xx (strong fairness of a delivery to a free worker while the
email is not acknowledged).

`MigrationSpec` assumes that the operator starts the transfers one way or another
and that a transfer that has not failed goes on (weak fairness of each transfer's
step). Failures are bounded by `MaxFailures`, below the number of transfers: the
property is about a rerun after a failure, as the tool's README describes it.

## 4. Proofs

Constants are constrained only by the named assumptions in the modules that
declare them, which TLC evaluates on every instance. Most give types to
parameters and tell absent values from present ones: `HourAssumption`,
`NoSlotAssumption`, `SlugsAssumption`, the `BoundsAssumption`s of `SyncRuns` and `TmoImport`, `CalendarAssumption`,
`RulesAssumption`, `DaysAssumption`, `DatabasesAssumption`, `InboundAssumption`,
`NoneAssumption`, `LifeAssumption`, `NoFileAssumption`, `SourceIdAssumption` and
`BoundsAssumption` of `MCAlgorithms` (what is examined lies within the calendar).
`ImportedAssumption` says what the schema says of the photos that the migration
brought: finitely many rows with a primary key, at most one featured photo of a
loan, and no key of an intent, which has a random part. One is a demand on the
deployment: `WindowAssumption`, that the bucket leaves an orphan alone for
longer than an intent and a request that accepted it live.

Other conditions are hypotheses of the theorems that need them, and of no other:

* `PlatformBound`, that the platform's limit is not above any stale boundary
  (`LiveOwnersKeepTheirRuns`, `RunsExclude`). `sync_fenced` breaks it on purpose.
* `MaxProcessing < LeaseStale`, that the timeout cuts processing off before the
  lease is stale (`OnlyOneProcessor`). An instance that is suspended breaks it;
  `inbound_fenced` does, and the refinement holds all the same.
* `MaxAttempts > 0`, three in the code (`RefusalsAreExplained`).
* `ChecksSuffice`, that a database whose export passes every check is usable
  (`CompleteIsAlwaysUsable`). It speaks of the data of a database, not of runs. On
  the databases of `MCPgExport` TLC finds it true, and `migration` covers it: an
  exporter that is left alone reaches every pair of versions that passes.
* `WellKept`, that a corpus is one the legacy program and its operator can have
  left (`ValidManifestsAreRight`): finite tables, attachments with an email and
  under their legacy name (or the target's), bodies apart from photos, photos under
  a name that their key stands for, and a target that is apart from what the
  source's references lead to.
  `CorporaAssumption` has TLC evaluate it on every corpus of `MCObjectCutover`.
  Beside it, that a run is either a transfer or an inventory.
* `IsStore`, that a table of events is finite, has integer keys, and that days and
  amounts are integers (the theorems about forecasts).

`CalendarProofs`, for every length of the hour and every calendar that satisfies
`CalendarAssumption` (months follow each other without gaps, cover the dates, and
each is longer than the mid-month day), start date and window

* `SlotBracketsNow`: for every scheduled cadence and instant the slot and the
  next slot are on the grid, bracket the instant and are one period apart.
* `SlotIsStable`: all instants between two slots have the same slot, so every
  delivery of cron meets the same key of the unique index.
* `OccurrencesExact`: `schedule_occurrences` returns exactly the days of the
  window on which the rule is `Due`; the steps are an arithmetic case for weekly
  rules and a month-by-month argument for the calendar frequencies.
* `SlotsInjective`: two due days of a rule never have the same slot.

`SyncRunsProofs`, for any number of workers, rows and instants

* `TypeCorrect`: `Spec => []TypeOK`.
* `OwnershipHolds`: `Spec => []Ownership`, the inductive invariant:
  * `RowsInOrder`: the rows in use are those below `nextRun`, so a claim writes a
    fresh one;
  * `OneRunning`: at most one running row per slug, kept by the partial index;
  * `HoldersKnowRun`: who holds a run holds an existing row of its own slug that
    started no earlier than the invocation;
  * `OneHolder`: no two invocations hold the same row, because ids are not
    reused and a run is dropped when its holder returns;
  * `CaptureIsCurrent`: while a finishing owner's row is running, no import has
    happened since its fetch. This is the heart of fencing: an import in between
    needs another run of that slug to be running, which `OneRunning` excludes
    unless this owner's row was interrupted first;
  * `Lifetimes`: an invocation's instants lie within its limit, which ties row
    ages to the platform's limit.
* `ImportsAreFresh` (`NoStaleOverwrite`) and `OutcomesAreFinal`
  (`OutcomeIsFinal`) hold without `PlatformBound`: fencing does not depend on
  timing.
* `LiveOwnersKeepTheirRuns` (`OwnerKeepsRun`) and `RunsExclude` (`NoOverlap`)
  hold under `PlatformBound`: a row interrupted by the strict comparison with
  the stale boundary is older than its holder may be. `NoOverlap` follows from
  `OwnerKeepsRun`, `OneRunning` and `OneHolder`.
* `HistoryHolds`: `Spec => []LogHistory`, a second invariant on top of
  `Ownership`, about what the log says of the past:
  * `RunningIsNewest`: a running row is the newest of its integration. Without it
    the next two are not inductive: an older running row could succeed after a
    newer one and the log would disagree with the tables;
  * `ImportMatchesLog` and `CoveredSlotNotRepeated`;
  * `AttemptsBounded`: the rows of a slot are counted by their attempts. A slot
    is claimed again only when all its rows have failed, fewer than the limit
    of them, and the claim adds one row, whichever way the failures were recorded.
* From these, `ImportsMatchTheLog` (`ImportMatchesLog`),
  `CoveredSlotsAreNotRepeated` (`CoveredSlotNotRepeated`) and
  `AttemptsAreBounded` (`SlotAttemptsBounded`).
* `FreezeAlwaysStopsClaims` (`FreezeStopsClaims`): in read-only mode a row changes
  only by the hand of the live invocation that owns it. `NextSlotsAreTruthful`
  (`NextSlotIsTruthful`): who writes a next slot has computed it from the cadence
  it leaves in the row, and the others leave both. `RefusalsAreExplained`
  (`RefusalIsExplained`).

`InboundEmailProofs`, for any number of invocations, attachments, contents and
announcements

* `InboundInvariant`: `IInv` is `TypeOK`, `RowsMatchObjects` and `LeaseMeansPending`
  (a lease is held only for a pending email), and of every worker: `JobFits`
  and `RowsExist` (what it carries fits where it is), `PutBefore` (what it is about
  to record is in the store, put by it or found and compared) and `BodyOnce` (an
  owner that comes to record the body is the first to). It claims nothing of
  exclusion: a worker that lost its lease may be anywhere, and every write
  that it tries is fenced.
* `RowsAlwaysMatch` (`RowsMatchObjects`), `InboundTypes`, and
  `InboundImplementsInbox` (`ImplementsInbox`): the initial state maps to the
  initial state of `Inbox`, and each action to one of its steps or to a stutter.
  Completion needs `BodyOnce` and the fact that a completing statement finds every
  row stored.
* `OnlyOneProcessor` (`OneProcessor`) from `ProcessorOwns`: who processes holds
  the lease, which is no older than its claim, so nobody can find it stale.

`AppProofs`, for any number of requests, instances, sessions, loans and photos
and all lifetimes

* `SessionInvariant`: a cached record or user is no older than its map says
  (`RecordCached`, `UserCached`), was true when the request that cached it read it,
  at most `RequestLife` earlier, and what a request has established so far was
  true at most `Lag = RequestLife + CACHE_TTL` before it began (`Checked`). Rows go
  only with a note of the instant (`TablesGo`). From this
  `RevocationAlwaysTakesEffect` (`RevocationTakesEffect`).
* `PhotoInvariant`: `Uploaded` (an object of an intent is in a row, or has been
  without one since some time after the intent was issued), `Found` (a request
  that accepted an intent began before it expired; one that looked has seen the
  object, which is still there) and `Signed` (a URL is as young as its request). From
  it `RowsAlwaysHaveBytes` (`RowHasBytes`), which is where `WindowAssumption` is
  needed: the bucket cannot reclaim between the look and the insert. And
  `RemovedAlwaysBecomesUnreachable` (`RemovedBecomesUnreachable`).
* `PhotosAlwaysInOrder` (`PhotosInOrder`) from `OrderInv`: ids are unique and not
  above the last one given, a loan has at most one featured photo, and an uploaded
  photo whose `sort_order` is smaller than another's has the smaller id. The last
  part is what makes the order that of the uploads: `next_sort_order` is one more
  than the largest that is left, so removals give a number away again but never
  put a new photo before one that is still there. The page shows its photos by
  `InOrder`, whose meaning is proved for every finite set and every strict order.
* `ValidManifestsAreRight` (`ValidIsTransferred`), about the transfers of
  `ObjectCutover`, for every set of corpora that are `WellKept` and any number of
  runs and failures. `CutoverInv` says how far each transfer is (`Progress`: what
  it no longer has to do is in the target and equal to what was read, and once it
  has listed the target nothing else was in it), that the source is as it was
  (`SourceKept`), what an object is (`Bucket`) and that a valid manifest is true now
  (`Honest`). It is inductive because every put creates or finds:
  another transfer can add an object but not change one that was verified, and
  whatever it adds belongs to the same corpus.

`StreamProjectionProofs`, for every calendar, set of rules (`RulesAssumption`),
range of days (`DaysAssumption`) and number of editors. The inductive invariant
is `TypeOK` with `EditorsOK` (a request under way holds rules of `Rules`,
a day of `Days` and the stream as it was before any deletion) and `SlotsOK` (a
row of a calendar frequency has the slot of its date, a semimonthly one is not
before the middle of its month, and a manual row is never hidden). `upsert` is described once, by what it does to a row that is
generated and to one that is not; every theorem is a case distinction over that:

* `TypeCorrect`, `DeletedStreamIsQuietAlways`, `OneRowPerPeriodAlways`
  (from `SlotsOK`: days of one period have one slot), `ReceivedIsFinalAlways`, `RemovedStaysRemovedAlways`,
  `OverridesSurviveSavesAlways`, and `ProjectionIsExactAlways`, which rests on
  `OccurrencesExact` and `SlotsInjective`.

`TmoImportProofs`, for any number of payments, streams, editors and imports,
from `DatabasesAssumption` (an initial database is not empty, and the form's
trust-deed kind goes with its type) and `BoundsAssumption`. The inductive
invariant is `TypeOK`, `HistoryMatchesPayments` and `CountedOnce` with
`StreamsOK` (kind and type agree, in rows and in drafts) and `TargetStays`:
while no stream has changed its role, the stream of the last import is still the
first candidate unless it was deleted. `CountedOnce` needs it, because events
stay behind whenever the target moves; it can then only have moved away from a
deleted stream. The lemma `Imported` says once what an import leaves behind:

* `TypeCorrect`, `HistoryIsSnapshot` (`HistoryMatchesPayments`),
  `PaymentsCountedOnce` (`CountedOnce`) and `ImportsKeepRows`
  (`ImportKeepsRows`).

`PgExportProofs`, for any number of exporters and inventories, legacy databases
and faults

* `ExportInvariant`: `Places` (which run can be where), `OwnOutput` (the file at
  the path is that of the run that published it, from then until it returns or
  takes it back), `OwnManifest`, `FilesDescribed` (a file says from which versions its
  run made it, and these stay) and `Verified` (what is called complete has passed
  every check). Each action is first reduced to one of seven kinds of steps
  (`RunStep`), and each part of the invariant is shown for those.
* `SuccessAlwaysLasts` (`SuccessIsDurable`), `FailuresLeaveNothing`
  (`FailureLeavesNothing`), and under `ChecksSuffice` `CompleteIsAlwaysUsable`
  (`CompleteIsUsable`): nothing that happens between the checks, to the source, the
  files or the other runs, lets a manifest call something complete that was
  not checked as it is.
* `EndsAlwaysHaveCauses` (`EndsHaveCauses`), with no condition on the data and
  whatever overlaps, fails or is killed: an export returns successfully only with
  what has passed every check, and it fails only because of an error, a kill, a
  check that refuses what it read, or a file of another run. `CauseInv` adds to
  `ExportInvariant` what a run has read by the time it is somewhere and why one
  that is about to fail does. The cause lasts: a file at the path belongs to a
  run that got that far, a run that is ahead stays ahead, and the source only
  gets more versions. `EndsHaveCauses` is true on the instance of `migration` too,
  where `RefusalIsJustified` is checked instead, which compares the ends with a
  verdict on each database.

`AlgorithmsProofs`, the comparisons of `MCAlgorithms` for every length of the hour,
every calendar and all bounds

* `SlotsAreAlwaysOnGrid` (`SlotsAreOnGrid`), `OccurrencesAreAlwaysDue`
  (`OccurrencesAreDue`) and `LegacyEventsAlwaysSurvive` (`LegacyEventsSurvive`), from
  the invariant `Examined` (what is examined stays within the bounds) and the
  theorems of `CalendarProofs`. The first adds to `SlotBracketsNow` that the grid,
  written as a set of instants, has no point in between.
* `MigratedEventsSurvive`: for every rule and every date it falls on, the event
  that `transform_event` makes of a generated one has the slot that the target's
  `projection_slot` gives that date (so that the next save finds it instead of
  adding a second), and shows the date, amount, label and account it had. The dates
  of the events themselves may differ from the rule's in any way a user can edit.
* `ForecastsAddUp`, `ForecastWindowsConnect` and `ForecastAnchorMoves`, for every
  table of events that `IsStore`, choice of streams, balance on record and window:
  each row continues the one above, two windows that follow each other give the
  rows of both together, and the balance shown for another day, taken as the one
  on record, gives the same forecast. From these `WindowsAlwaysConnect`
  (`WindowsConnect`) and `AnchorAlwaysMoves` (`AnchorMoves`) of the run. They rest on
  a closed form, `ForecastIs`. List all events that count by date and id, and let
  `A[k]` be the sum of the first `k` amounts: the balance after `k` events is the one
  on record, plus `A[k]`, less `A` at the day on record, whether that day is
  before, in or after the window. The code adds up forwards after that day and
  backwards before it.

What these proofs need of data (that the rows of a query can be listed, what a
running balance is after so many rows) is by induction over the sizes of finite
sets and over bounded numbers. The library's induction theorems take an operator
as a parameter and cannot be used; instead a set of counterexamples is shown to
be empty, as it would have a least element (`UpToBound`).

Only model-checked:

* `StaleRunIsReleased`, `EventuallyStored` and `TransferCompletes`: liveness under
  fairness is out of the prover's reach.
* `ChecksSuffice`, the hypothesis about the data of databases: TLC evaluates it on
  those of `MCPgExport`. A proof for every database is a proof about each column
  of the schema.
* `RefusalIsJustified`: which databases are portable is a person's verdict, given
  with each database of `MCPgExport`. What does not depend on that verdict is
  `EndsAlwaysHaveCauses`.

Every other property of a passing run is stated by a theorem.

## 5. Findings

* `retry_doc`: the repository's `README.md:225-227` says that a failed scheduled
  slot is not retried automatically. Since migration 0006 and
  `MAX_SCHEDULED_ATTEMPTS` a cron delivered again within the slot claims it
  again, up to three attempts.
* `stream_lost_rule`: a comment (`src/finance/http.rs:908-910`) says that an
  ordinary save cannot erase recurrence rules. The rules are read outside the
  transaction that deactivates every rule the draft does not name, so a save that
  names none deactivates a rule that another request added in between.

Seen while modelling, without a run:

* `README.md:232-234` gives a stale-run cutoff of twenty minutes, which is
  Monarch's; the TMO runtime interrupts after six.
* `patch_event` says that clearing an override returns to the schedule's seed; a
  cleared label keeps `has_label_override` set and shows as empty
  (`src/finance/repository.rs:1378`), which also keeps the row from being hidden
  when its rule is gone. Clearing an override refreshes nothing: the row of a rule
  that no longer exists stays until the next save (`:902`).
* A comment (`src/finance/repository.rs:955-957`) promises one stable slot per
  period. Weekly and biweekly slots are counted from the rule's start date
  (`:1016`); moving it by a week renumbers them, and a received payment is
  expected again.
* `save_account` (`src/finance/http.rs:486`) reads the account and writes back
  every column that the request omits, and the form of a loan workspace is
  written whole: the last one wins. `compute_forecast` reads balance, cash source
  and events in separate statements.
* `tools/pg-to-turso/README.md:117-120` accepts attachments that are already
  under their canonical key. `tools/object-cutover` always derives the source
  key from the file name (`src/source_db.rs:208-221`), so a corpus with such an
  attachment is blocked as missing.
* A promotion whose target prefix lies inside the source prefix lists its own
  partial copy as unreferenced source objects and blocks the rerun.
* The tool's `canonical_key` accepts `?` and `#` that were encoded, the
  program's (`src/media/key.rs`) does not: such a photo is copied and never
  shown. The same goes for an `s3://` photo outside `loan-workspace/`. The tool
  records `x-amz-meta-sha256`, the program compares
  `x-amz-meta-trust-deeds-sha256`.
* Two attachments of one email with the same file name share a legacy key and so
  one object. The export gives each its own key and the cutover finds duplicates
  by that key only (`cutover.rs:29-44`): it copies the one object to both keys and
  publishes a valid manifest. The corpus `SameName` of `MCObjectCutover` does this
  in `migration`. Whether that object is the content of both attachments nobody
  can tell from the rows.

## 6. What is not modelled, and the plan

Left out for good: rendering, read models of the pages, the browser code,
configuration, start-up and the migrations ledger, cryptography and provider
clients (their results are nondeterministic choices); operations that only tests
call (`upsert_received_email`, `mark_email_*`, `reset_*_for_retry`, `link_email`,
`create_attachment_metadata`, `create_photo_metadata`, `delete_email_metadata`
of `workspace_inbox`; `refresh_stream_schedule_events` and
`restore_scheduled_event` of `finance`); `bootstrap_defaults`, which only a local
start calls; views. Accounts are rows that one statement writes whole; beyond
the observation above there is nothing that a model would show.

What could be proved next: the parts of `ChecksSuffice` that
hold for every database, namely references, credentials and events, from the
reader, the constraints and the canaries. The ids need that a finite set of rows
has a largest id.
