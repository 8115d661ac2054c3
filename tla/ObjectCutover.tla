--------------------------- MODULE ObjectCutover ---------------------------
(***************************************************************************)
(* tools/object-cutover: runs of inventory, backfill-local-to-s3 and       *)
(* promote-s3-to-s3, which copy every object that the exported database    *)
(* refers to from the retained legacy store to the store of the program.   *)
(*                                                                         *)
(* The legacy store is a directory or a prefix of the bucket; the target   *)
(* is another prefix of the bucket.  Runs may overlap, store requests may  *)
(* fail with or without having taken effect, and a run may die.            *)
(***************************************************************************)
EXTENDS ObjectKeys, FiniteSets

CONSTANTS
    Transfers,      \* runs of backfill-local-to-s3 or promote-s3-to-s3
    InventoryRuns,  \* runs of inventory
    Paths,          \* files for the manifests of transfers
    Corpora,        \* what there is to move:
                    \*   photos, emails, attachments: the legacy rows
                    \*   local: the legacy store is a directory
                    \*   objects: its objects by physical key, [bytes, type]
                    \*   prefix, target: prefixes of source and destination
                    \*   there: objects of the bucket at the start
                    \*   portable: it can be moved without a decision of a person
    REMOTE_ATTEMPTS,  \* attempts at one request (4)
    MaxFailures     \* bound: failed requests and deaths of runs

VARIABLES
    corpus,     \* the corpus of this behaviour
    refs,       \* the references of its database, which never change
    bucket,     \* objects of the bucket by key
    manifests,  \* published manifests by file: [by, valid]
    place, path,  \* where a run is, and the file for its manifest
    todo,       \* references a transfer has left
    tries,      \* failed attempts at the current put
    found,      \* blockers found so far
    exit,       \* how it ended: "ok", "blocked", "failed", or None
    failures

cutoverVars == <<corpus, refs, bucket, manifests, place, path, todo, tries, found,
                 exit, failures>>

CutoverRuns == Transfers \cup InventoryRuns
InventoryFile == "inventory"

-----------------------------------------------------------------------------
(* The database (source_db.rs).                                            *)

\* Rows of the artifact: the exporter has renamed the attachments.
Artifact(c) ==
    {[a EXCEPT !.s3_key = transform_attachment_key(a, c.emails).key] :
        a \in c.attachments}

Reference(kind, id, key, source, type, presence) ==
    [kind |-> kind, id |-> id, canonical_key |-> key, source_key |-> source,
     content_type |-> type, presence |-> presence]

read_photos(c) ==
    {LET at == classify_photo(p.image_url, Percent)
     IN  Reference("photo", p.id, at.key, at.key, None,
                   CASE at.kind = "stored" -> "missing"
                     [] at.kind = "external" -> "external"
                     [] OTHER -> "invalid") : p \in c.photos}

push_database_key(kind, id, key, source, type) ==
    IF canonical_key(key) /\ legacy_physical_key(source)
    THEN Reference(kind, id, key, source, type, "missing")
    ELSE Reference(kind, id, None, None, type, "invalid")

\* A blank key stands for an email without a body, as NULL does.
read_email_bodies(c) ==
    {push_database_key("body", e.id, e.body_s3_key, e.body_s3_key,
                       e.body_content_type) :
        e \in {e \in c.emails : e.body_s3_key \notin {None, <<>>}}}

read_attachments(c) ==
    {LET email == CHOOSE e \in c.emails : e.id = a.email_id
     IN  push_database_key("attachment", a.id, a.s3_key,
             AttachmentKey(email.resend_email_id, LegacyFilename(a.filename)),
             a.content_type) :
        a \in {a \in Artifact(c) : a.s3_key # None}}

read_database(c) == read_photos(c) \cup read_email_bodies(c) \cup read_attachments(c)

\* External photos have no object, invalid references have no key.
Objects == {r \in refs : r.canonical_key # None}

-----------------------------------------------------------------------------
(* The stores (storage.rs).                                                *)

Under(prefix, b) ==
    LET keys == {k \in DOMAIN b : Len(k) > Len(prefix) /\ StartsWith(k, prefix)}
    IN  [k \in {After(k, prefix) : k \in keys} |-> b[prefix \o k]]

SourceObjects(c, b) == IF c.local THEN c.objects ELSE Under(c.prefix, b)

\* A layout is "legacy_source" or "canonical": only the legacy one leaves out the
\* prefix of photos.
physical_candidates(key, layout) ==
    {key} \cup (IF /\ layout = "legacy_source"
                   /\ StartsWith(key, PhotoPrefix) /\ Len(key) > 1
                THEN {After(key, PhotoPrefix)} ELSE {})

canonicalize_physical_key(key, layout) ==
    IF layout = "canonical" \/ key[1] \in {"loan-workspace", "emails"} THEN key
    ELSE PhotoPrefix \o key

list_keys(objects, layout) ==
    {canonicalize_physical_key(k, layout) : k \in DOMAIN objects}

\* The listing fails at a name that cannot be, and at two names of one key.
Listable(objects, layout) ==
    /\ \A k \in DOMAIN objects :
          IF layout = "canonical" THEN canonical_key(k) ELSE legacy_physical_key(k)
    /\ Cardinality(list_keys(objects, layout)) = Cardinality(DOMAIN objects)

mime_guess(key) == IF key[Len(key)] = "f.jpg" THEN "image/jpeg" ELSE None

Names(objects, key, layout) == physical_candidates(key, layout) \cap DOMAIN objects

\* An object in both layouts is ambiguous.
Unambiguous(objects, key, layout) == Cardinality(Names(objects, key, layout)) <= 1

\* A directory keeps no content types.
get(objects, key, layout, store) ==
    LET object == objects[CHOOSE k \in Names(objects, key, layout) : TRUE]
    IN  IF Names(objects, key, layout) = {} THEN None
        ELSE IF store = "local" THEN [object EXCEPT !.type = mime_guess(key)]
        ELSE object

SourceStore(c) == IF c.local THEN "local" ELSE "s3"

-----------------------------------------------------------------------------
(* What a run finds and copies (cutover.rs).                               *)

Shared(rows) == {r \in rows : \E s \in rows : s # r /\ s.canonical_key = r.canonical_key}

reference_blockers(keys) ==
    {<<"invalid", r.id>> : r \in {r \in refs : r.presence = "invalid"}}
    \cup {<<"duplicate_canonical_key", r.id>> : r \in Shared(Objects)}
    \cup {<<"referenced_object_missing", r.id>> :
             r \in {r \in Objects : r.source_key \notin keys}}
    \cup (IF keys \ {r.source_key : r \in Objects} # {}
          THEN {<<"unreferenced_source_objects", 0>>} ELSE {})

\* The object that a transfer writes for a reference.
Copy(objects, store, ref) ==
    LET source == get(objects, ref.source_key, "legacy_source", store)
        guess == mime_guess(ref.canonical_key)
    IN  [bytes |-> source.bytes,
         type  |-> IF ref.content_type # None THEN ref.content_type
                   ELSE IF source.type # None THEN source.type ELSE guess]
Upload(ref) == Copy(SourceObjects(corpus, bucket), SourceStore(corpus), ref)

\* References are copied in the order of their kinds and ids.
KindOrder == [photo |-> 1, body |-> 2, attachment |-> 3]
NextReference(rows) ==
    CHOOSE r \in rows : \A s \in rows :
        \/ KindOrder[r.kind] < KindOrder[s.kind]
        \/ KindOrder[r.kind] = KindOrder[s.kind] /\ r.id <= s.id

verify_blockers(ref, remote, upload) ==
    CASE remote = None -> {<<"destination_object_missing_after_put", ref.id>>}
      [] remote # None /\ remote.bytes # upload.bytes ->
            {<<"destination_hash_mismatch", ref.id>>}
      [] remote # None /\ upload.type # None /\ remote.type # upload.type ->
            {<<"destination_content_type_mismatch", ref.id>>}
      [] OTHER -> {}

-----------------------------------------------------------------------------
InitialBucket(c) ==
    LET source == IF c.local THEN {} ELSE {c.prefix \o k : k \in DOMAIN c.objects}
    IN  [k \in DOMAIN c.there \cup source |->
            IF k \in DOMAIN c.there THEN c.there[k] ELSE c.objects[After(k, c.prefix)]]

CutoverInit ==
    /\ corpus \in Corpora
    /\ refs = read_database(corpus)
    /\ bucket = InitialBucket(corpus)
    /\ manifests = << >>
    /\ place = [r \in CutoverRuns |-> "start"]
    /\ path = [r \in CutoverRuns |-> None]
    /\ todo = [r \in CutoverRuns |-> {}]
    /\ tries = [r \in CutoverRuns |-> 0]
    /\ found = [r \in CutoverRuns |-> {}]
    /\ exit = [r \in CutoverRuns |-> None]
    /\ failures = 0

\* Entries that exist stay as they are.
Keeping(entries, name, entry) ==
    [n \in DOMAIN entries \cup {name} |->
        IF n \in DOMAIN entries THEN entries[n] ELSE entry]

Enter(r, label) == place' = [place EXCEPT ![r] = label]
Exit(r, how) == Enter(r, "done") /\ exit' = [exit EXCEPT ![r] = how]

\* A copy from prefix to prefix needs two of them.
Refused(c) == ~c.local /\ (c.target = <<>> \/ c.prefix = c.target)

\* The file must not be there yet; read_database reads a file nobody writes.
reserve(r) ==
    /\ place[r] = "start"
    /\ \E p \in (IF r \in InventoryRuns THEN {InventoryFile} ELSE Paths) \ DOMAIN manifests :
          path' = [path EXCEPT ![r] = p]
    /\ IF r \in Transfers /\ Refused(corpus)
       THEN Exit(r, "failed")
       ELSE Enter(r, "list") /\ UNCHANGED exit
    /\ UNCHANGED <<corpus, refs, bucket, manifests, todo, tries, found, failures>>

\* The listing of the source, and a look at every object that is referred to.
take_inventory(r) ==
    LET source == SourceObjects(corpus, bucket)
        blockers == reference_blockers(list_keys(source, "legacy_source"))
    IN  /\ place[r] = "list"
        /\ IF /\ Listable(source, "legacy_source")
              /\ \A ref \in Objects : Unambiguous(source, ref.source_key, "legacy_source")
           THEN /\ found' = [found EXCEPT ![r] = blockers]
                /\ IF blockers # {} \/ r \in InventoryRuns
                   THEN Enter(r, "publish") /\ UNCHANGED todo
                   ELSE /\ Enter(r, "put")
                        /\ todo' = [todo EXCEPT ![r] = Objects]
                /\ UNCHANGED exit
           ELSE Exit(r, "failed") /\ UNCHANGED <<found, todo>>
        /\ UNCHANGED <<corpus, refs, bucket, manifests, path, tries, failures>>

remote_key(ref) == corpus.target \o ref.canonical_key
Create(ref) == bucket' = Keeping(bucket, remote_key(ref), Upload(ref))

\* An object that exists already ends the run.
put_create_mutant(r) ==
    /\ place[r] = "put"
    /\ IF todo[r] = {} THEN Enter(r, "destination") /\ UNCHANGED <<bucket, exit>>
       ELSE IF remote_key(NextReference(todo[r])) \in DOMAIN bucket
       THEN Exit(r, "failed") /\ UNCHANGED bucket
       ELSE Create(NextReference(todo[r])) /\ Enter(r, "verify") /\ UNCHANGED exit
    /\ tries' = [tries EXCEPT ![r] = 0]
    /\ UNCHANGED <<corpus, refs, manifests, path, todo, found, failures>>

\* PutMode::Create: an object that exists stays as it is.
put_create(r) ==
    /\ place[r] = "put"
    /\ IF todo[r] = {} THEN Enter(r, "destination") /\ UNCHANGED bucket
       ELSE Create(NextReference(todo[r])) /\ Enter(r, "verify")
    /\ tries' = [tries EXCEPT ![r] = 0]
    /\ UNCHANGED <<corpus, refs, manifests, path, todo, found, exit, failures>>

\* A put whose answer is lost may have taken effect; it is tried again.
lose_put(r) ==
    /\ place[r] = "put" /\ todo[r] # {} /\ failures < MaxFailures
    /\ failures' = failures + 1
    /\ Create(NextReference(todo[r])) \/ UNCHANGED bucket
    /\ tries' = [tries EXCEPT ![r] = @ + 1]
    /\ IF tries[r] + 1 < REMOTE_ATTEMPTS THEN UNCHANGED <<place, exit>>
       ELSE Exit(r, "failed")
    /\ UNCHANGED <<corpus, refs, manifests, path, todo, found>>

\* Without the comparison.
verify_object_mutant(r) ==
    /\ place[r] = "verify"
    /\ todo' = [todo EXCEPT ![r] = @ \ {NextReference(@)}]
    /\ Enter(r, "put")
    /\ UNCHANGED <<corpus, refs, bucket, manifests, path, tries, found, exit, failures>>

\* The object is downloaded and compared, whoever wrote it.
verify_object(r) ==
    LET ref == NextReference(todo[r])
        remote == get(Under(corpus.target, bucket), ref.canonical_key, "canonical", "s3")
    IN  /\ place[r] = "verify"
        /\ found' = [found EXCEPT
               ![r] = @ \cup verify_blockers(ref, remote, Upload(ref))]
        /\ todo' = [todo EXCEPT ![r] = @ \ {ref}]
        /\ Enter(r, "put")
        /\ UNCHANGED <<corpus, refs, bucket, manifests, path, tries, exit, failures>>

list_destination(r) ==
    LET objects == Under(corpus.target, bucket)
        orphans == list_keys(objects, "canonical") \ {ref.canonical_key : ref \in Objects}
    IN  /\ place[r] = "destination"
        /\ IF Listable(objects, "canonical")
           THEN /\ Enter(r, "publish") /\ UNCHANGED exit
                /\ found' = [found EXCEPT ![r] = @ \cup
                      (IF orphans = {} THEN {}
                       ELSE {<<"unreferenced_destination_objects", 0>>})]
           ELSE Exit(r, "failed") /\ UNCHANGED found
        /\ UNCHANGED <<corpus, refs, bucket, manifests, path, todo, tries, failures>>

Publish(r) ==
    manifests' = Keeping(manifests, path[r], [by |-> r, valid |-> found[r] = {}])

\* persist_noclobber; the exit status tells whether the manifest is valid.
publish(r) ==
    /\ place[r] = "publish"
    /\ IF path[r] \in DOMAIN manifests
       THEN Exit(r, "failed") /\ UNCHANGED manifests
       ELSE Publish(r) /\ Exit(r, IF found[r] = {} THEN "ok" ELSE "blocked")
    /\ UNCHANGED <<corpus, refs, bucket, path, todo, tries, found, failures>>

\* The run dies, a store stays unavailable, or the manifest cannot be written;
\* syncing the directory may fail after the manifest has its name.
give_up(r) ==
    /\ place[r] \notin {"start", "done"} /\ failures < MaxFailures
    /\ failures' = failures + 1
    /\ Exit(r, "failed")
    /\ \/ UNCHANGED manifests
       \/ place[r] = "publish" /\ path[r] \notin DOMAIN manifests /\ Publish(r)
    /\ UNCHANGED <<corpus, refs, bucket, path, todo, tries, found>>

step(r) == \/ reserve(r) \/ take_inventory(r) \/ put_create(r) \/ verify_object(r)
           \/ list_destination(r) \/ publish(r)

CutoverNext == \E r \in CutoverRuns : step(r) \/ lose_put(r) \/ give_up(r)

\* A run goes on until it ends, and the operator starts every run.
CutoverSpec ==
    /\ CutoverInit
    /\ [][CutoverNext]_cutoverVars
    /\ \A r \in CutoverRuns : WF_cutoverVars(step(r))

-----------------------------------------------------------------------------
(* Properties.                                                             *)

Ends(p) == p \in DOMAIN manifests /\ manifests[p].valid /\ manifests[p].by \in Transfers

\* The rows and objects of a corpus.  Some segments are written by the code.
Segment == STRING \cup {"loan-workspace", "emails", "attachments", "_", "a b", "a?b"}
AnyKey == Seq(Segment)
URLs == [scheme : {"path", "http", "s3", "other"}, host : STRING \cup {None},
         path : AnyKey, query : BOOLEAN, user : BOOLEAN]
PhotoRows == [id : Nat, image_url : URLs, object : AnyKey \cup {None}]
EmailRows == [id : Nat, resend_email_id : Segment, body_s3_key : AnyKey \cup {None},
              body_content_type : STRING \cup {None}]
AttachmentRows == [id : Nat, email_id : Nat, resend_attachment_id : Segment,
                   filename : Segment, s3_key : AnyKey \cup {None},
                   content_type : STRING]
CorpusRows(c) ==
    /\ None \notin STRING /\ None \notin AnyKey
    /\ c.photos \subseteq PhotoRows /\ c.emails \subseteq EmailRows
    /\ c.attachments \subseteq AttachmentRows
    /\ IsFiniteSet(c.photos) /\ IsFiniteSet(c.emails) /\ IsFiniteSet(c.attachments)

Store(objects) == \A k \in DOMAIN objects :
    /\ k \in AnyKey \ {<<>>}
    /\ objects[k] = [bytes |-> objects[k].bytes, type |-> objects[k].type]

\* The references that have an object.
Referring(c) == {r \in read_database(c) : r.canonical_key # None}

\* An attachment with an object belongs to an email, and its object has its legacy
\* name, or the target's if no reference leads there.
AttachmentsKept(c) ==
    \A a \in {a \in c.attachments : a.s3_key # None} :
        /\ \E e \in c.emails : e.id = a.email_id
        /\ LET email == CHOOSE e \in c.emails : e.id = a.email_id
           IN  \/ a.s3_key = AttachmentKey(email.resend_email_id,
                                          LegacyFilename(a.filename))
              \/ /\ a.s3_key = transform_attachment_key(a, c.emails).key
                 /\ a.s3_key \in DOMAIN c.objects \ {r.source_key : r \in Referring(c)}

\* Email bodies are not kept among the photos.
BodiesKept(c) ==
    \A e \in c.emails : e.body_s3_key \notin {None, <<>>} =>
        ~StartsWith(e.body_s3_key, PhotoPrefix)

\* The object of a photo has one of the two names that its key stands for, and is
\* there if one of them is.
PhotosKept(c) ==
    \A p \in c.photos :
        LET at == classify_photo(p.image_url, Percent)
            candidates == physical_candidates(at.key, "legacy_source")
        IN  at.kind = "stored" =>
               /\ p.object \in candidates
               /\ candidates \cap DOMAIN c.objects # {} => p.object \in DOMAIN c.objects

\* What a transfer creates is not what a reference leads to in the source: a
\* directory is apart from the bucket, and so are two prefixes unless one of them
\* begins with the other.
Apart(c) ==
    \/ c.local \/ Refused(c)
    \/ \A r \in Referring(c) : \A k \in physical_candidates(r.source_key, "legacy_source") :
          /\ c.prefix \o k \notin DOMAIN c.there
          /\ \A s \in Referring(c) : c.prefix \o k # c.target \o s.canonical_key

\* What the legacy program and its operator keep to.
WellKept(c) ==
    /\ c.prefix \in AnyKey /\ c.target \in AnyKey /\ CorpusRows(c)
    /\ Store(c.objects) /\ Store(c.there)
    /\ AttachmentsKept(c) /\ BodiesKept(c) /\ PhotosKept(c) /\ Apart(c)

\* What the rows of a corpus had is among the objects new.
AttachmentsArrived(c, new) ==
    \A a \in c.attachments : a.s3_key # None =>
        LET key == transform_attachment_key(a, c.emails).key
        IN  /\ key \in DOMAIN new
            /\ new[key] = [bytes |-> c.objects[a.s3_key].bytes, type |-> a.content_type]
BodiesArrived(c, new) ==
    \A e \in c.emails : e.body_s3_key \notin {None, <<>>} =>
        /\ e.body_s3_key \in DOMAIN new
        /\ new[e.body_s3_key].bytes = c.objects[e.body_s3_key].bytes
        /\ e.body_content_type \in {None, new[e.body_s3_key].type}
PhotosArrived(c, new) ==
    LET urls == {p.image_url : p \in c.photos}
    IN  \A p \in c.photos : from_photo(p.image_url) # None =>
            LET key == redirected_photo(from_photo(p.image_url), urls)
            IN  key \in DOMAIN new /\ new[key].bytes = c.objects[p.object].bytes

\* A valid manifest of a transfer (cutover.rs: manifest.valid) lets the program
\* take over: every row that had an object finds the same bytes, with the right
\* content type, under the key that the exported row has; whatever link to a
\* photo a page shows, the route of the link leads to the bytes that the legacy
\* program served; and nothing else is in the target.
ValidIsTransferred ==
    LET new == Under(corpus.target, bucket)
    IN  (\E p \in Paths : Ends(p)) =>
        /\ AttachmentsArrived(corpus, new)
        /\ BodiesArrived(corpus, new)
        /\ PhotosArrived(corpus, new)
        /\ Cardinality(DOMAIN new) <= Cardinality(Objects)

\* The README of the tool: "The mode is idempotent, but a failed run may have
\* safely created a subset of the objects, so rerun with a new output path".
\* While fewer runs fail than there are, a transfer of a corpus that needs no
\* decision by a person ends with a valid manifest, whatever the failed runs
\* left behind.
RerunsComplete == corpus.portable ~> (\E p \in Paths : Ends(p))

=============================================================================
