----------------------------- MODULE ObjectKeys -----------------------------
(***************************************************************************)
(* Names of stored objects: what the exporter (pg-to-turso), the object    *)
(* cutover and the program (src/media/key.rs) each make of them.           *)
(*                                                                         *)
(* A key is a sequence of segments.  A URL is [scheme, host, path, query,  *)
(* user], where query says that it has a query or a fragment and user that *)
(* it has a user name.  The sets below say which segments have the         *)
(* characters that the code looks for.                                     *)
(***************************************************************************)
EXTENDS Sequences, Naturals, Optional

Split == {"../x", "a/b"}          \* file names with a separator
Dotted == {"", "..", "link"}      \* empty, a dot segment, a symbolic link
Percent == {"50%", "a%20b", "a%3Fb"}  \* segments with a percent sign
Question == {"a?b"}               \* segments with a question mark

-----------------------------------------------------------------------------
(* The exporter.                                                           *)

is_canonical_object_segment(s) == s \notin Split \cup Dotted \cup Percent
LegacyFilename(name) == IF name \in Split THEN "_" ELSE name
AttachmentKey(email, segment) == <<"emails", email, "attachments", segment>>

\* The legacy writer names the object after the file, the target after the
\* attachment.
transform_attachment_key(a, emails) ==
    LET email == CHOOSE e \in emails : e.id = a.email_id
    IN  IF a.s3_key = None THEN [ok |-> TRUE, key |-> None]
        ELSE IF \A e \in emails : e.id # a.email_id
        THEN [ok |-> FALSE, key |-> None]
        ELSE LET target == AttachmentKey(email.resend_email_id,
                                         a.resend_attachment_id)
             IN  [ok  |-> /\ is_canonical_object_segment(email.resend_email_id)
                          /\ is_canonical_object_segment(a.resend_attachment_id)
                          /\ a.s3_key \in
                                {target,
                                 AttachmentKey(email.resend_email_id,
                                               LegacyFilename(a.filename))},
                  key |-> target]

-----------------------------------------------------------------------------
(* The cutover and the program.                                            *)

Segments(key) == {key[i] : i \in DOMAIN key}

legacy_physical_key(key) == key # <<>> /\ Segments(key) \cap Dotted = {}
canonical_key(key) == legacy_physical_key(key) /\ Segments(key) \cap Percent = {}
\* The program has the stricter canonical_key (MAX_KEY_BYTES is left out).
media_canonical_key(key) == canonical_key(key) /\ Segments(key) \cap Question = {}

decode(s) == CASE s = "a%20b" -> "a b" [] s = "a%3Fb" -> "a?b" [] OTHER -> s
\* Percent signs that do not decode are ambiguous.
decode_url_key(path) ==
    [ok  |-> "50%" \notin Segments(path),
     key |-> [i \in DOMAIN path |-> decode(path[i])]]

StartsWith(path, prefix) ==
    Len(path) >= Len(prefix) /\ SubSeq(path, 1, Len(prefix)) = prefix
After(path, prefix) == SubSeq(path, Len(prefix) + 1, Len(path))
MEDIA_PREFIX == <<"media", "loan-workspace">>
STATIC_PREFIX == <<"static", "loan-images">>
PhotoPrefix == <<"loan-workspace">>

Invalid == [kind |-> "invalid", key |-> None]

\* refused: what the canonical_key of the reader refuses beside dot segments.
Stored(path, prefix, refused) ==
    LET decoded == decode_url_key(path)
        key == prefix \o decoded.key
    IN  IF decoded.ok /\ legacy_physical_key(key) /\ Segments(key) \cap refused = {}
        THEN [kind |-> "stored", key |-> key] ELSE Invalid

\* The prefixes of routes end with a separator.
Below(path, prefix) == Len(path) > Len(prefix) /\ StartsWith(path, prefix)

legacy_photo_key(path, prefix, query, refused) ==
    IF query THEN Invalid
    ELSE Stored(After(path, prefix), PhotoPrefix, refused)

\* In a path-style URL the bucket comes first.
known_s3_http_key(u, refused) ==
    CASE u.host = "virtual" -> Stored(u.path, <<>>, refused)
      [] u.host = "path" -> IF Len(u.path) < 2 THEN Invalid
                            ELSE Stored(Tail(u.path), <<>>, refused)
      [] OTHER -> [kind |-> "external", key |-> None]

\* Both programs have this function, each with its own canonical_key.
classify_photo(u, refused) ==
    IF \/ u.scheme = "other"
       \/ u.scheme = "http" /\ u.user
       \/ u.scheme = "s3" /\ (u.query \/ u.host = None) THEN Invalid
    ELSE IF u.scheme = "s3" THEN Stored(u.path, <<>>, refused)
    ELSE IF Below(u.path, MEDIA_PREFIX)
    THEN legacy_photo_key(u.path, MEDIA_PREFIX, u.query, refused)
    ELSE IF Below(u.path, STATIC_PREFIX)
    THEN legacy_photo_key(u.path, STATIC_PREFIX, u.query, refused)
    ELSE IF u.scheme = "http" THEN known_s3_http_key(u, refused) ELSE Invalid

-----------------------------------------------------------------------------
(* The program shows a stored photo under its own route and finds the key  *)
(* again in a request for the route, which arrives decoded.                *)

photo_route_url(key) ==
    IF StartsWith(key, PhotoPrefix) /\ Len(key) > 1 THEN After(key, PhotoPrefix)
    ELSE None

from_photo(url) ==
    LET at == classify_photo(url, Percent \cup Question)
    IN  IF at.kind = "stored" THEN photo_route_url(at.key) ELSE None

photo_key_from_route(route) ==
    LET key == PhotoPrefix \o route
    IN  IF media_canonical_key(key) THEN key ELSE None

\* The object that a request for a photo is redirected to.
redirected_photo(route, urls) ==
    LET key == photo_key_from_route(route)
    IN  IF \E u \in urls : LET at == classify_photo(u, Percent \cup Question)
                           IN  at.kind = "stored" /\ at.key = key
        THEN key ELSE None

=============================================================================
