--------------------------- MODULE LoanWorkspace ---------------------------
(***************************************************************************)
(* The workspace of an imported loan (media/http.rs, media/service.rs,     *)
(* workspace_inbox): its notes, its photos and the emails linked to it.    *)
(*                                                                         *)
(* A photo is uploaded in three requests.  An intent names a random key    *)
(* and is signed for UPLOAD_EXPIRY; the browser puts the bytes under that  *)
(* key, straight to the object store; and finalize checks the object and   *)
(* records a row.  The store and the database share no transaction, each   *)
(* request may be lost or sent again, and a lifecycle rule of the bucket   *)
(* reclaims objects to which no row has referred for a while.              *)
(***************************************************************************)
EXTENDS Platform, Ordered, FiniteSetsExt

CONSTANTS
    Loans,              \* loan accounts of the provider
    Intents,            \* random markers, each with the key made from it
    Imported,           \* photo rows of the migrated database
    Emails,
    Drafts,             \* what a browser sends as the workspace form
    UPLOAD_EXPIRY,      \* life of an intent and of its PUT URL (5 minutes)
    DOWNLOAD_EXPIRY,    \* life of a GET URL (1 minute)
    Window,             \* age at which the lifecycle rule takes an orphan
    MaxId               \* bound on photo ids

VARIABLES
    loan,       \* what imports made of a loan: "unknown", "active", "inactive"
    workspace,  \* intg_loan_workspace by loan
    link,       \* loan_account of a received email
    intent,     \* issued intents by key: [loan, issued]
    object,     \* keys under which the store has an object
    orphan,     \* since when no row refers to it (0 while one does)
    rows,       \* intg_loan_workspace_photo
    last_id,    \* its AUTOINCREMENT counter
    downloads,  \* until when the last signed GET URL of a key works
    removed     \* when a key lost its row (history)

workspaceVars == <<now, loan, workspace, link, intent, object, orphan, rows, last_id,
                   request, downloads, removed>>
photoVars == <<intent, object, orphan, rows, last_id, request, downloads, removed>>

Keys == Intents \cup {r.key : r \in Imported}

\* The lifecycle rule leaves an object alone for longer than its intent and a
\* request that has accepted the intent can live (media/http.rs:107-111, 166-171).
ASSUME WindowAssumption ==
    /\ {UPLOAD_EXPIRY, DOWNLOAD_EXPIRY, RequestLife, Window} \subseteq Nat
    /\ Window > UPLOAD_EXPIRY + RequestLife

\* Markers are random: no migrated photo has a key that is made from one.  The
\* table has a primary key and the featured index of migration 0004.
ASSUME ImportedAssumption ==
    /\ IsFiniteSet(Imported)
    /\ \A r \in Imported :
           /\ r = [id |-> r.id, loan |-> r.loan, key |-> r.key, sort |-> r.sort,
                   featured |-> r.featured]
           /\ r.loan \in Loans /\ r.key \notin Intents
           /\ r.id \in Nat /\ r.sort \in Int /\ r.featured \in BOOLEAN
    /\ \A p, q \in Imported :
           \/ p.id = q.id
           \/ p.loan = q.loan /\ p.featured /\ q.featured
           => p = q

-----------------------------------------------------------------------------
(* Reads.                                                                  *)

\* Inactive loans keep their pages; nothing deletes a loan.
resolve_loan(l) == loan[l] # "unknown"

photos_of(l) == {r \in rows : r.loan = l}

\* ORDER BY is_featured DESC, sort_order, id.
Precedes(p, q) ==
    \/ p.featured /\ ~q.featured
    \/ /\ p.featured = q.featured
       /\ \/ p.sort < q.sort
          \/ p.sort = q.sort /\ p.id < q.id

photos_on(l) == InOrder(photos_of(l), Precedes)

Referenced(k) == \E r \in rows : r.key = k

\* MAX(sort_order) + 1 over the loan's photos.
next_sort_order_mutant(l) == Cardinality(photos_of(l))
next_sort_order(l) == Max({-1} \cup {r.sort : r \in photos_of(l)}) + 1

\* The signature of a token is right by construction: intents are issued here.
verify_claims_mutant(k) == intent[k] # None
verify_claims(k) == intent[k] # None /\ ~(intent[k].issued + UPLOAD_EXPIRY < now)

validate_workspace(d) ==
    /\ d.url \in {None, "https"}
    /\ d.status \in {None, "new", "reviewing", "committed", "funded", "passed"}
    /\ d.contribution # None => d.contribution >= 0

-----------------------------------------------------------------------------
WorkspaceInit ==
    /\ now = 0
    /\ loan \in [Loans -> {"unknown", "active"}]
    /\ \A r \in Imported : loan[r.loan] = "active"
    /\ workspace = [l \in Loans |-> None]
    /\ link = [e \in Emails |-> None]
    /\ intent = [k \in Keys |-> None]
    /\ object = Keys \ Intents
    /\ orphan = [k \in Keys |-> 0]
    /\ rows = Imported
    /\ last_id = Max({0} \cup {r.id : r \in Imported})
    /\ request = [q \in Requests |-> None]
    /\ downloads = [k \in Keys |-> None]
    /\ removed = [k \in Keys |-> None]

\* The import of a snapshot adds a loan or changes whether it is active.
import(l) ==
    /\ \/ loan[l] # "active" /\ loan' = [loan EXCEPT ![l] = "active"]
       \/ loan[l] = "active" /\ loan' = [loan EXCEPT ![l] = "inactive"]
    /\ UNCHANGED <<now, workspace, link, photoVars>>

save_workspace(l, d) ==
    /\ resolve_loan(l)
    /\ validate_workspace(d)
    /\ workspace' = [workspace EXCEPT ![l] = d]
    /\ UNCHANGED <<now, loan, link, photoVars>>

link_email_to_imported_tmo_loan(e, l) ==
    /\ link[e] \in {None, l}
    /\ loan[l] = "active"
    /\ link' = [link EXCEPT ![e] = l]
    /\ UNCHANGED <<now, loan, workspace, photoVars>>

unlink_email(e) ==
    /\ link' = [link EXCEPT ![e] = None]
    /\ UNCHANGED <<now, loan, workspace, photoVars>>

-----------------------------------------------------------------------------
(* Photos.                                                                 *)

PhotoStep == UNCHANGED <<now, loan, workspace, link>>

create_photo_upload_intent(l, k) ==
    /\ resolve_loan(l)
    /\ intent[k] = None
    /\ intent' = [intent EXCEPT ![k] = [loan |-> l, issued |-> now]]
    /\ UNCHANGED <<object, orphan, rows, last_id, request, downloads, removed>>
    /\ PhotoStep

\* The browser uses the PUT URL of the intent, as often as it likes.
upload(k) ==
    /\ intent[k] # None
    /\ now <= intent[k].issued + UPLOAD_EXPIRY
    /\ object' = object \cup {k}
    /\ orphan' = [orphan EXCEPT ![k] = IF Referenced(k) THEN 0 ELSE now]
    /\ UNCHANGED <<intent, rows, last_id, request, downloads, removed>>
    /\ PhotoStep

Begin(q, pc, l, k) ==
    /\ request[q] = None
    /\ request' = [request EXCEPT
           ![q] = [pc |-> pc, loan |-> l, key |-> k, since |-> now]]

\* verify_uploaded_intent checks the token, which must be of this loan ...
finalize_photo_upload(q, l, k) ==
    /\ resolve_loan(l)
    /\ verify_claims(k)
    /\ intent[k].loan = l
    /\ Begin(q, "head", l, k)
    /\ UNCHANGED <<intent, object, orphan, rows, last_id, downloads, removed>>
    /\ PhotoStep

\* ... and then the object.
verify_uploaded_intent(q) ==
    /\ At(q, "head")
    /\ IF request[q].key \notin object THEN Answer(q) ELSE Goto(q, "record")
    /\ UNCHANGED <<intent, object, orphan, rows, last_id, downloads, removed>>
    /\ PhotoStep

\* A photo that is recorded already is answered with its row.
create_manual_photo_metadata(q) ==
    /\ At(q, "record")
    /\ LET l == request[q].loan
           k == request[q].key
       IN  IF \E r \in rows : r.loan = l /\ r.key = k
           THEN UNCHANGED <<rows, last_id, orphan, removed>>
           ELSE /\ last_id < MaxId
                /\ last_id' = last_id + 1
                /\ rows' = rows \cup {[id |-> last_id', loan |-> l, key |-> k,
                                       sort |-> next_sort_order(l),
                                       featured |-> FALSE]}
                /\ orphan' = [orphan EXCEPT ![k] = 0]
                /\ removed' = [removed EXCEPT ![k] = None]
    /\ Answer(q)
    /\ UNCHANGED <<intent, object, downloads>>
    /\ PhotoStep

set_featured_photo(l, r) ==
    /\ resolve_loan(l)
    /\ r.loan = l
    /\ rows' = (rows \ photos_of(l))
               \cup {[p EXCEPT !.featured = (p.id = r.id)] : p \in photos_of(l)}
    /\ UNCHANGED <<intent, object, orphan, last_id, request, downloads, removed>>
    /\ PhotoStep

\* The row goes; the bytes stay for the lifecycle rule.
delete_photo_metadata(l, r) ==
    /\ resolve_loan(l)
    /\ r.loan = l
    /\ rows' = rows \ {r}
    /\ orphan' = [orphan EXCEPT ![r.key] = now]
    /\ removed' = [removed EXCEPT ![r.key] = now]
    /\ UNCHANGED <<intent, object, last_id, request, downloads>>
    /\ PhotoStep

\* The photo's route looks for a row of the key and then signs a GET URL.
serve_loan_photo_mutant(q, k) ==
    /\ Begin(q, "sign", None, k)
    /\ UNCHANGED <<intent, object, orphan, rows, last_id, downloads, removed>>
    /\ PhotoStep

serve_loan_photo(q, k) ==
    /\ Referenced(k)
    /\ Begin(q, "sign", None, k)
    /\ UNCHANGED <<intent, object, orphan, rows, last_id, downloads, removed>>
    /\ PhotoStep

signed_redirect(q) ==
    /\ At(q, "sign")
    /\ downloads' = [downloads EXCEPT ![request[q].key] = now + DOWNLOAD_EXPIRY]
    /\ Answer(q)
    /\ UNCHANGED <<intent, object, orphan, rows, last_id, removed>>
    /\ PhotoStep

photo_request_lost(q) ==
    /\ Lost(q)
    /\ UNCHANGED <<intent, object, orphan, rows, last_id, downloads, removed>>
    /\ PhotoStep

\* The lifecycle rule of the bucket.
reclaim(k) ==
    /\ k \in object /\ ~Referenced(k)
    /\ now - orphan[k] >= Window
    /\ object' = object \ {k}
    /\ UNCHANGED <<intent, orphan, rows, last_id, request, downloads, removed>>
    /\ PhotoStep

\* GET URLs expire.
photo_tick ==
    /\ Tick
    /\ downloads' = [k \in Keys |-> IF downloads[k] = now THEN None
                                     ELSE downloads[k]]
    /\ UNCHANGED <<loan, workspace, link, intent, object, orphan, rows, last_id,
                   removed>>

LoanNext ==
    \/ \E l \in Loans : import(l)
    \/ \E l \in Loans, d \in Drafts : save_workspace(l, d)
    \/ \E e \in Emails, l \in Loans : link_email_to_imported_tmo_loan(e, l)
    \/ \E e \in Emails : unlink_email(e)

PhotoNext ==
    \/ \E l \in Loans, k \in Intents : create_photo_upload_intent(l, k)
    \/ \E k \in Intents : upload(k)
    \/ \E q \in Requests, l \in Loans, k \in Intents : finalize_photo_upload(q, l, k)
    \/ \E q \in Requests : verify_uploaded_intent(q)
    \/ \E q \in Requests : create_manual_photo_metadata(q)
    \/ \E l \in Loans, r \in rows : set_featured_photo(l, r)
    \/ \E l \in Loans, r \in rows : delete_photo_metadata(l, r)
    \/ \E q \in Requests, k \in Keys : serve_loan_photo(q, k)
    \/ \E q \in Requests : signed_redirect(q)
    \/ \E q \in Requests : photo_request_lost(q)
    \/ \E k \in Keys : reclaim(k)
    \/ photo_tick

WorkspaceNext == LoanNext \/ PhotoNext

WorkspaceSpec == WorkspaceInit /\ [][WorkspaceNext]_workspaceVars

-----------------------------------------------------------------------------
(* Properties.                                                             *)

\* Types, the unique constraint of photo rows and the featured index of
\* migration 0004.
WorkspaceTypeOK ==
    /\ now \in 0 .. MaxTime
    /\ loan \in [Loans -> {"unknown", "active", "inactive"}]
    /\ link \in [Emails -> Loans \cup {None}]
    /\ object \subseteq Keys /\ orphan \in [Keys -> 0 .. MaxTime]
    /\ \A r \in rows : r.loan \in Loans /\ r.key \in Keys /\ r.id \in 1 .. last_id
    /\ \A p, q \in rows :
           \/ p.id = q.id
           \/ p.loan = q.loan /\ p.key = q.key
           \/ p.loan = q.loan /\ p.featured /\ q.featured
           => p = q

\* finalize_photo_upload (media/http.rs:107-111) verifies the object outside the
\* transaction that records the photo, and yet "it never produces a row that
\* points at missing bytes": no photo refers to bytes that the lifecycle rule has
\* taken, whatever is deleted, repeated or delayed in between.
RowHasBytes == \A r \in rows : r.key \in object

\* list_photos shows a photo that was uploaded after all photos that were there
\* before it, in whatever order others were removed, and the featured one first:
\* create_manual_photo_metadata's sort_order and the ORDER BY of photos_on.
PhotosInOrder ==
    \A l \in Loans :
        LET shown == photos_on(l)
        IN  \A i, j \in DOMAIN shown :
                /\ shown[j].featured => j = 1
                /\ /\ i < j
                   /\ shown[i].key \in Intents
                   /\ ~shown[i].featured
                   => shown[i].id < shown[j].id

\* serve_loan_photo authorises by row and signs afterwards: a URL for a photo
\* that was removed works at most as long as a request and a GET URL live after
\* its removal, and there is never one for a key that no row ever had.
RemovedBecomesUnreachable ==
    \A k \in Keys :
        \/ downloads[k] = None \/ Referenced(k)
        \/ /\ removed[k] # None
           /\ downloads[k] <= removed[k] + RequestLife + DOWNLOAD_EXPIRY
=============================================================================
