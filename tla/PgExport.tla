------------------------------ MODULE PgExport ------------------------------
(***************************************************************************)
(* tools/pg-to-turso: runs of its commands export and inventory (lib.rs)   *)
(* while the legacy program may still be writing, with exporters that name *)
(* the same files, failing I/O and crashes.                                *)
(*                                                                         *)
(* A source is a sequence of versions of the legacy database, which the    *)
(* legacy program goes through.  A file of an exporter is described by the *)
(* version of its snapshot and the version at which it read the sequences. *)
(***************************************************************************)
EXTENDS PgArtifact

CONSTANTS
    Exporters,  \* runs of export, which name the same two files
    Inventories,  \* runs of inventory, which name the same manifest
    Sources,    \* names of the legacy databases examined
    Versions,   \* versions of each: [Sources -> sequence of databases]
    Keys,       \* keys of each: [Sources -> [current, legacy]], None if unset
    Canary,     \* the login canary: [email, password]
    MaxFaults   \* bound: I/O errors and crashes

VARIABLES
    source,   \* the legacy database of this behaviour
    finds,    \* what the checks find in its versions, which never changes
    version,  \* its current version
    pc,       \* where a run is
    snap,     \* version of its snapshot
    seqs,     \* version at which it read the sequences
    verdict,  \* how it ended: "blocked", by an "error", "killed", or None
    output,   \* the SQLite file: [by, snap, seqs] or None
    manifest, \* the manifest: [by, snap, seqs, status] or None
    faults    \* I/O errors and crashes so far

vars == <<source, finds, version, pc, snap, seqs, verdict, output, manifest, faults>>
run == <<pc, snap, seqs, verdict>>

Runs == Exporters \cup Inventories

\* A file in place is told from a missing one.
Files == [by : Runs, snap : Nat, seqs : Nat]
Entries == [by : Runs, snap : Nat, seqs : Nat,
            status : {"complete", "blocked", "ready"}]
ASSUME NoFileAssumption == None \notin Files /\ None \notin Entries

-----------------------------------------------------------------------------
(* What an export finds in its snapshot.                                   *)

\* Ciphertexts are [key, plain]; AES-GCM decrypts with the right key only.
decrypt(c, key) == key # None /\ c.key = key
encrypt(plain, key) == [key |-> key, plain |-> plain]
Credentials(rows) == rows["tmo_credential"] \cup rows["monarch_credential"]

rewrap(c, keys) ==
    IF decrypt(c.secret, keys.current) THEN c
    ELSE [c EXCEPT !.secret = encrypt(@.plain, keys.current)]

\* Without rows or without the current key nothing is rewrapped.
rewrap_legacy_credentials(rows, keys) ==
    IF keys.current = None THEN [ok |-> TRUE, rows |-> rows]
    ELSE [ok   |-> \A c \in Credentials(rows) :
                      \/ decrypt(c.secret, keys.current)
                      \/ decrypt(c.secret, keys.legacy),
          rows |-> [rows EXCEPT
              !["tmo_credential"] = {rewrap(c, keys) : c \in @},
              !["monarch_credential"] = {rewrap(c, keys) : c \in @}]]

validate_login_canary(rows) ==
    \E u \in rows["app_user"] :
        /\ u.is_active /\ u.email = Canary.email
        /\ u.password_hash = [scheme |-> "argon2id", password |-> Canary.password]

\* The table of the credentials of each provider and the slug it must have.
CredentialTable(provider) ==
    IF provider = "mortgage_office" THEN "tmo_credential" ELSE "monarch_credential"
ProviderSlug(provider) == IF provider = "mortgage_office" THEN "tmo" ELSE "monarch"
Providers == {"mortgage_office", "monarch"}

validate_active_provider_credentials(rows) ==
    LET connections == rows["integration_connection"]
    IN  /\ \A c \in connections : c.status = "active" =>
              IF c.provider \in Providers
              THEN /\ c.slug = ProviderSlug(c.provider)
                   /\ \E k \in rows[CredentialTable(c.provider)] :
                         k.connection_id = c.id
              ELSE ~c.syncable
        /\ \A p \in Providers : \A k \in rows[CredentialTable(p)] :
              \E c \in connections : /\ c.id = k.connection_id
                                     /\ c.provider = p /\ c.slug = ProviderSlug(p)

validate_credential_canary(rows, keys) ==
    /\ validate_active_provider_credentials(rows)
    /\ \A c \in Credentials(rows) : decrypt(c.secret, keys.current)

\* The rows that an export of a database loads.
Converted(db, keys) ==
    LET read == read_dataset(db)
    IN  IF read.ok THEN rewrap_legacy_credentials(read.rows, keys) ELSE read

Canaries(rows, keys) ==
    validate_login_canary(rows) /\ validate_credential_canary(rows, keys)

-----------------------------------------------------------------------------
(* What the artifact is for.                                               *)

\* What the legacy program showed of an event and what the target shows; the
\* account of an event that no schedule generated is left out, because only the
\* target falls back on the account of the stream there.
LegacyView(l) ==
    [id |-> l.id, stream |-> l.stream_id,
     account |-> IF FromSchedule(l) THEN l.account_id ELSE None,
     label |-> l.label, status |-> l.status,
     date |-> IF l.actual_date # None THEN l.actual_date ELSE l.expected_date,
     amount |-> IF l.amount < 0 THEN -l.amount ELSE l.amount]

TargetView(e, streams) ==
    [id |-> e.id, stream |-> e.stream_id, status |-> e.status,
     account |-> CASE ~FromSchedule(e) -> None
                   [] FromSchedule(e) /\ e.has_account_override ->
                         e.override_account_id
                   [] FromSchedule(e) /\ ~e.has_account_override
                      /\ e.account_id # None -> e.account_id
                   [] OTHER -> (CHOOSE t \in streams :
                                   t.id = e.stream_id).default_account_id,
     label |-> IF e.has_label_override THEN e.override_label ELSE e.label,
     date |-> CASE e.actual_date # None -> e.actual_date
                [] e.actual_date = None /\ e.override_date # None ->
                      e.override_date
                [] OTHER -> e.expected_date,
     amount |-> CASE e.actual_amount # None -> e.actual_amount
                  [] e.actual_amount = None /\ e.override_amount # None ->
                        e.override_amount
                  [] OTHER -> e.amount]

\* The target can take over from the legacy program with this file: it has the
\* rows of one version and no other, every reference leads somewhere, the events
\* look as they did, the canary can log in, every credential decrypts to what it
\* was, nothing is running, and no id that the source ever gave out comes again.
Usable(db, now, artifact, keys) ==
    LET rows == artifact.rows IN
    /\ \A t \in Tables : Cardinality(rows[t]) = Cardinality(db.rows[t])
    /\ \A t \in SERIAL_RELATIONS :
          {r.id : r \in rows[t]} = {r.id : r \in db.rows[t]}
    /\ \A f \in ForeignKeys : \A r \in rows[f.table] :
          r[f.column] # None => \E p \in rows[f.parent] : p.id = r[f.column]
    /\ {TargetView(e, rows["stream"]) : e \in rows["stream_event"]}
          = {LegacyView(l) : l \in db.rows["stream_event"]}
    /\ validate_login_canary(rows)
    /\ \A c \in Credentials(db.rows) : \E d \in Credentials(rows) :
          d = [c EXCEPT !.secret.key = keys.current]
    /\ \A l \in rows["sync_log"] : l.status # "running" /\ l.finished_at # None
    /\ \A t \in SERIAL_RELATIONS :
          LET q == now.sequences[t]
              issued == {r.id : r \in db.rows[t] \cup now.rows[t]} \cup
                        (IF q.is_called THEN {q.last_value} ELSE {})
          IN  \A id \in issued : Max({artifact.seq[t], MaxId(rows[t])}) + 1 > id

-----------------------------------------------------------------------------
\* What a run finds depends on its source, on the version of its snapshot and on
\* the version whose sequences it read: the last version, and the versions and the
\* pairs of them that pass each check.
Checks(versions, keys) ==
    LET Rows(v) == Converted(versions[v], keys).rows
        States(v, w) == read_sequence_states(versions[w].sequences, Rows(v))
        Ready(v) == /\ Converted(versions[v], keys).ok
                    /\ Canaries(Rows(v), keys)
        clear == {v \in DOMAIN versions :
                     inventory_blockers(versions[v].relations) = {}}
        readable == {v \in clear : Ready(v)}
        pairs == UNION {{<<v, w>> : w \in v..Len(versions)} : v \in readable}
        sequenced == {y \in pairs : States(y[1], y[2]).ok}
        buildable == {y \in sequenced :
                         build_checks(Rows(y[1]), versions[y[2]].sequences,
                                      States(y[1], y[2]).next)}
        Artifact(y) == build(Rows(y[1]), States(y[1], y[2]).next)
    IN  [last |-> Len(versions), clear |-> clear, readable |-> readable,
         sequenced |-> sequenced, buildable |-> buildable,
         verified |-> {y \in buildable : Canaries(Artifact(y).rows, keys)},
         usable |-> {y \in buildable :
                        Usable(versions[y[1]], versions[y[2]], Artifact(y),
                               keys)}]

-----------------------------------------------------------------------------
Init ==
    /\ source \in Sources
    /\ finds = Checks(Versions[source], Keys[source])
    /\ version = 1
    /\ pc = [r \in Runs |-> "idle"]
    /\ snap = [r \in Runs |-> 0]
    /\ seqs = [r \in Runs |-> 0]
    /\ verdict = [r \in Runs |-> None]
    /\ output = None /\ manifest = None
    /\ faults = 0

\* The legacy program commits its next transaction.
LegacyWrite ==
    /\ version < finds.last
    /\ version' = version + 1
    /\ UNCHANGED <<source, finds, run, output, manifest, faults>>

At(r, here) == pc[r] = here
Go(r, there) == pc' = [pc EXCEPT ![r] = there]

Fault ==
    /\ faults < MaxFaults
    /\ faults' = faults + 1

\* Both paths must be free; nothing is held between this check and the use.
validate_private_output_path(r) ==
    /\ At(r, "idle")
    /\ Go(r, IF manifest = None /\ (r \in Exporters => output = None)
             THEN "open" ELSE "failed")
    /\ UNCHANGED <<source, finds, version, snap, seqs, verdict, output, manifest,
                   faults>>

\* BEGIN REPEATABLE READ READ ONLY and the inventory of the relations.
open(r) ==
    /\ At(r, "open")
    /\ snap' = [snap EXCEPT ![r] = version]
    /\ IF version \in finds.clear
       THEN Go(r, IF r \in Exporters THEN "read" ELSE "ready")
            /\ UNCHANGED verdict
       ELSE Go(r, "blocked") /\ verdict' = [verdict EXCEPT ![r] = "blocked"]
    /\ UNCHANGED <<source, finds, version, seqs, output, manifest, faults>>

\* A check of the snapshot that fails, before there is a file: abort_export.
Refuse(r) ==
    /\ Go(r, "blocked")
    /\ verdict' = [verdict EXCEPT ![r] = "blocked"]
    /\ UNCHANGED <<snap, seqs>>

read_rows(r) ==
    /\ At(r, "read")
    /\ IF snap[r] \in finds.readable
       THEN Go(r, "sequences") /\ UNCHANGED <<snap, seqs, verdict>>
       ELSE Refuse(r)
    /\ UNCHANGED <<source, finds, version, output, manifest, faults>>

\* The sequences are as they are now, whatever the snapshot shows.
read_sequences(r) ==
    /\ At(r, "sequences")
    /\ IF <<snap[r], version>> \in finds.sequenced
       THEN /\ Go(r, "build")
            /\ seqs' = [seqs EXCEPT ![r] = version]
            /\ UNCHANGED <<snap, verdict>>
       ELSE Refuse(r)
    /\ UNCHANGED <<source, finds, version, output, manifest, faults>>

\* The temporary file is built if the path is still free.
build_artifact(r) ==
    /\ At(r, "build")
    /\ IF output = None /\ <<snap[r], seqs[r]>> \in finds.buildable
       THEN Go(r, "publish") /\ UNCHANGED <<snap, seqs, verdict>>
       ELSE Refuse(r)
    /\ UNCHANGED <<source, finds, version, output, manifest, faults>>

\* Mutant: the file is moved into place over whatever is there.
persist_mutant(r) ==
    /\ At(r, "publish")
    /\ output' = [by |-> r, snap |-> snap[r], seqs |-> seqs[r]]
    /\ Go(r, "sealed")
    /\ UNCHANGED <<snap, seqs, verdict>>
    /\ UNCHANGED <<source, finds, version, manifest, faults>>

\* persist_noclobber: link and unlink, so that an existing file is kept.
persist(r) ==
    /\ At(r, "publish")
    /\ IF output = None
       THEN /\ output' = [by |-> r, snap |-> snap[r], seqs |-> seqs[r]]
            /\ Go(r, "sealed")
            /\ UNCHANGED <<snap, seqs, verdict>>
       ELSE Refuse(r) /\ UNCHANGED output
    /\ UNCHANGED <<source, finds, version, manifest, faults>>

\* The file is synced and its digest taken; then both canaries and the digests
\* of the tables are checked on the rows read back.
verify(r) ==
    /\ At(r, "sealed")
    /\ IF <<snap[r], seqs[r]>> \in finds.verified
       THEN Go(r, "rollback") /\ UNCHANGED <<verdict, output>>
       ELSE /\ Go(r, "blocked")
            /\ verdict' = [verdict EXCEPT ![r] = "blocked"]
            /\ output' = None
    /\ UNCHANGED <<source, finds, version, snap, seqs, manifest, faults>>

\* The snapshot is closed.
rollback(r) ==
    /\ At(r, "rollback")
    /\ Go(r, "manifest")
    /\ UNCHANGED <<source, finds, version, snap, seqs, verdict, output, manifest,
                   faults>>

Entry(r, status) == [by |-> r, snap |-> snap[r], seqs |-> seqs[r],
                     status |-> status]

\* write_manifest up to persist_noclobber, which fails when the path is taken:
\* then the artifact goes.
write_manifest(r) ==
    /\ At(r, "manifest")
    /\ IF manifest = None
       THEN /\ manifest' = Entry(r, "complete")
            /\ Go(r, "synced")
            /\ UNCHANGED output
       ELSE /\ Go(r, "failed")
            /\ output' = None
            /\ UNCHANGED manifest
    /\ UNCHANGED <<source, finds, version, snap, seqs, verdict, faults>>

\* Its sync; the run has returned.
finish(r) ==
    /\ At(r, "synced")
    /\ Go(r, "done")
    /\ UNCHANGED <<source, finds, version, snap, seqs, verdict, output, manifest,
                   faults>>

\* abort_export after the removal: the manifest says that the run is blocked,
\* unless its path is taken.
abort_export(r) ==
    /\ At(r, "blocked")
    /\ manifest' = IF manifest = None THEN Entry(r, "blocked") ELSE manifest
    /\ Go(r, "failed")
    /\ UNCHANGED <<source, finds, version, snap, seqs, verdict, output, faults>>

\* The end of the command inventory.
inventory(r) ==
    /\ At(r, "ready")
    /\ manifest' = IF manifest = None THEN Entry(r, "ready") ELSE manifest
    /\ Go(r, IF manifest = None THEN "done" ELSE "failed")
    /\ UNCHANGED <<source, finds, version, snap, seqs, verdict, output, faults>>

-----------------------------------------------------------------------------
(* Errors and crashes.                                                     *)

\* Mutant: an error after the file is in place leaves it there.
Removes_mutant(r) == FALSE

\* A run in these places has its artifact at the path and removes it on the way
\* out: the guard of build_artifact, abort_export or the end of export.
Removes(r) == pc[r] \in {"sealed", "rollback", "manifest", "synced"}

\* An I/O error.  One while the source is read or the file is built or checked
\* goes through abort_export, which then may fail at once with the connection;
\* an error of the rollback or of the manifest itself does not.
fail(r) ==
    /\ pc[r] \notin {"idle", "done", "failed"}
    /\ Fault
    /\ output' = IF Removes(r) THEN None ELSE output
    /\ \/ pc[r] \in {"read", "sequences", "build", "publish", "sealed"}
          /\ Go(r, "blocked")
       \/ Go(r, "failed")
    /\ verdict' = [verdict EXCEPT ![r] = "error"]
    /\ UNCHANGED <<source, finds, version, snap, seqs, manifest>>

\* The process is killed.
crash(r) ==
    /\ pc[r] \notin {"idle", "done", "failed"}
    /\ Fault
    /\ Go(r, "failed")
    /\ verdict' = [verdict EXCEPT ![r] = "killed"]
    /\ UNCHANGED <<source, finds, version, snap, seqs, output, manifest>>

\* export, and inventory, as they go when nothing is in their way.
export(r) ==
    \/ validate_private_output_path(r) \/ open(r) \/ read_rows(r)
    \/ read_sequences(r) \/ build_artifact(r) \/ persist(r) \/ verify(r)
    \/ rollback(r) \/ write_manifest(r) \/ finish(r)
    \/ abort_export(r) \/ inventory(r)

Next ==
    \/ LegacyWrite
    \/ \E r \in Runs : export(r) \/ fail(r) \/ crash(r)

Spec == Init /\ [][Next]_vars

-----------------------------------------------------------------------------
(* Properties.                                                             *)

\* A manifest that says "complete" beside the artifact with its digest is all an
\* operator goes by: that artifact is usable, whatever the legacy program wrote
\* while it was made and whoever else was exporting.
CompleteIsUsable ==
    /\ output # None /\ manifest # None
    /\ manifest.status = "complete" /\ manifest.by = output.by
    => <<output.snap, output.seqs>> \in finds.usable

\* An export that has returned successfully has its own artifact and manifest in
\* place, and no other run, failing or not, takes them away.
SuccessIsDurable ==
    \A r \in Exporters : pc[r] = "done" =>
        /\ output # None /\ output.by = r
        /\ manifest # None /\ manifest.by = r /\ manifest.status = "complete"

\* A run that fails without being killed leaves no artifact of its own: "failed
\* exports remove their incomplete SQLite artifact".
FailureLeavesNothing ==
    \A r \in Exporters :
        pc[r] = "failed" /\ verdict[r] # "killed"
            => output = None \/ output.by # r

\* What the checks of an export are for, as a condition on the legacy databases:
\* whatever passes all of them is usable.
ChecksSuffice ==
    \A s \in Sources :
        LET found == Checks(Versions[s], Keys[s])
        IN  found.verified \subseteq found.usable

\* Another run of the same paths has had its file there, or has ended.
InTheWay(r) ==
    \E o \in Runs \ {r} : pc[o] \in {"sealed", "rollback", "manifest", "synced",
                                     "blocked", "done", "failed"}

\* Some check refuses the snapshot of r, with the sequences of then or later.
ChecksRefuse(r) ==
    /\ snap[r] \in 1..version
    /\ \E w \in snap[r]..version : <<snap[r], w>> \notin finds.verified

\* Every end of an export has its cause, with any number of runs that overlap,
\* fail and are killed: it returns successfully only with what has passed all the
\* checks, and it fails only because of an error, a kill, a check or another run.
EndsHaveCauses ==
    \A r \in Exporters :
        /\ pc[r] = "done" => <<snap[r], seqs[r]>> \in finds.verified
        /\ pc[r] = "failed" => \/ verdict[r] \in {"error", "killed"}
                               \/ ChecksRefuse(r) \/ InTheWay(r)

CONSTANT Portable  \* the versions of each source that can be exported

\* An export refuses what cannot be carried over and nothing else: it succeeds
\* only with a snapshot that is portable, and one that meets no other run and no
\* error fails only if its snapshot is not.
RefusalIsJustified ==
    \A r \in Exporters :
        /\ pc[r] = "done" => snap[r] \in Portable[source]
        /\ pc[r] = "failed" => \/ verdict[r] \in {"error", "killed"}
                               \/ snap[r] # 0 /\ snap[r] \notin Portable[source]
                               \/ InTheWay(r)
=============================================================================
