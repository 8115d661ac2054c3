-------------------------- MODULE MCObjectCutover --------------------------
(***************************************************************************)
(* Corpora for ObjectCutover: one with a photo, an email body and an       *)
(* attachment, and what may be different about each of them.               *)
(***************************************************************************)
EXTENDS ObjectCutover, TLC

Url(scheme, host, at) ==
    [scheme |-> scheme, host |-> host, path |-> at, query |-> FALSE, user |-> FALSE]
Photo(id, url, object) == [id |-> id, image_url |-> url, object |-> object]
Media(file) == Url("path", None, MEDIA_PREFIX \o <<"L1", file>>)
Static(file) == Url("path", None, STATIC_PREFIX \o <<"L1", file>>)
Mail(body, type) == [id |-> 1, resend_email_id |-> "m1", body_s3_key |-> body,
                     body_content_type |-> type]
Att(id, resend, filename, key) ==
    [id |-> id, email_id |-> 1, resend_attachment_id |-> resend,
     filename |-> filename, s3_key |-> key, content_type |-> "pdf"]
Named(name) == AttachmentKey("m1", name)

Body == <<"emails", "m1", "body">>
Old(file) == <<"L1", file>>
New(file) == <<"loan-workspace", "L1", file>>
Bytes(b, t) == [bytes |-> b, type |-> t]

Base == [photos |-> {Photo(1, Media("f.jpg"), Old("f.jpg"))},
         emails |-> {Mail(Body, "html")},
         attachments |-> {Att(1, "a1", "doc", Named("doc"))},
         objects |-> Old("f.jpg") :> Bytes("photo", "image/jpeg")
                  @@ Body :> Bytes("body", "html")
                  @@ Named("doc") :> Bytes("doc", None),
         local |-> TRUE, prefix |-> <<>>, target |-> <<"new">>, there |-> << >>, portable |-> TRUE]

Promoted == [Base EXCEPT !.local = FALSE, !.prefix = <<"old">>]
\* A photo beside a body, with another object and another place for it.
OnePhoto(url, object, at) ==
    [Base EXCEPT !.photos = {Photo(1, url, object)}, !.attachments = {},
                 !.objects = at :> Bytes("photo", None) @@ Body :> Bytes("body", "html")]
\* Attachments beside a body.
Attachments(rows, objects) ==
    [Base EXCEPT !.photos = {}, !.attachments = rows,
                 !.objects = objects @@ Body :> Bytes("body", "html")]
There(objects) == [Base EXCEPT !.there = objects]

\* Two attachments of one email with the same file name share an object in the
\* legacy store; each gets a copy of its own.
SameName == Attachments({Att(1, "a1", "doc", Named("doc")), Att(2, "a2", "doc", Named("doc"))},
                        Named("doc") :> Bytes("doc", None))

PortableCorpora ==
    {Base, Promoted, SameName,
     OnePhoto(Static("f.jpg"), New("f.jpg"), New("f.jpg")),
     [OnePhoto(Url("http", "site", MEDIA_PREFIX \o <<"L1", "g">>),
               Old("g"), Old("g")) EXCEPT !.local = FALSE, !.prefix = <<"old">>],
     OnePhoto(Media("a%20b"), Old("a b"), Old("a b")),
     OnePhoto(Media("a%3Fb"), Old("a?b"), Old("a?b")),
     OnePhoto(Url("s3", "bucket", New("g")), New("g"), New("g")),
     OnePhoto(Url("http", "virtual", New("g")), New("g"), New("g")),
     OnePhoto(Url("http", "path", <<"bucket">> \o New("g")), New("g"), New("g")),
     [Base EXCEPT !.photos = @ \cup {Photo(2, Url("http", "site", <<"x">>), None)}],
     [Base EXCEPT !.photos = @ \cup {Photo(2, Url("http", "site", MEDIA_PREFIX), None)}],
     [Base EXCEPT !.emails = {Mail(<<>>, None)}, !.attachments = {},
                  !.objects = Old("f.jpg") :> Bytes("photo", None)],
     Attachments({Att(1, "a1", "50%", Named("50%")), Att(2, "a2", "none", None)},
                 Named("50%") :> Bytes("doc", None)),
     Attachments({Att(1, "a1", "a/b", Named("_"))}, Named("_") :> Bytes("doc", None)),
     There(<<"new", "emails", "m1", "body">> :> Bytes("body", "html")),
     There(<<"newer", "x">> :> Bytes("other", None))}

\* An attachment that was stored under the target's name already.  The exporter
\* accepts it (pg-to-turso/README.md:117-120), but the transfer looks for it under
\* the legacy name only and reports it missing.
Canonical == Attachments({Att(1, "a1", "doc", Named("a1"))}, Named("a1") :> Bytes("doc", None))

OtherCorpora ==
    {Canonical,
     [Promoted EXCEPT !.target = <<>>], [Promoted EXCEPT !.target = <<"old">>],
     [Promoted EXCEPT !.prefix = <<>>],
     [Promoted EXCEPT !.prefix = <<"new", "old">>],
     There(<<"new", "emails", "m1", "body">> :> Bytes("different", "html")),
     There(<<"new", "emails", "m1", "body">> :> Bytes("body", "text")),
     There(<<"new", "emails", "x">> :> Bytes("other", None)),
     There(<<"new", "50%">> :> Bytes("other", None)),
     [Base EXCEPT !.objects = @ @@ New("f.jpg") :> Bytes("other", None)],
     [Base EXCEPT !.objects = @ @@ Old("orphan") :> Bytes("other", None)],
     [Base EXCEPT !.objects = @ @@ Old("link") :> Bytes("other", None)],
     [Base EXCEPT !.objects = Body :> Bytes("body", "html")],
     [Base EXCEPT !.photos = @ \cup {Photo(2, Static("f.jpg"), Old("f.jpg"))}],
     [Base EXCEPT !.photos = @ \cup {Photo(2, Media(".."), None)}],
     [Base EXCEPT !.photos = @ \cup {Photo(2, Media("50%"), None)}],
     [Base EXCEPT !.photos = @ \cup {Photo(2, [Media("g") EXCEPT !.query = TRUE], None)}],
     [Base EXCEPT !.photos = @ \cup {Photo(2, Url("http", "path", <<"bucket">>), None)}],
     [Base EXCEPT !.photos = @ \cup {Photo(2, Url("s3", None, <<"g">>), None)}],
     [Base EXCEPT !.photos = @ \cup {Photo(2, Url("path", None, STATIC_PREFIX), None)}],
     [Base EXCEPT !.emails = {Mail(<<"emails", "..">>, "html")}],
     OnePhoto(Url("s3", "bucket", <<"g">>), <<"g">>, <<"g">>)}

AllCorpora == PortableCorpora
              \cup {[c EXCEPT !.portable = FALSE] : c \in OtherCorpora}

=============================================================================
