---------------------------- MODULE InboundEmail ----------------------------
(***************************************************************************)
(* The storing of one received email: Resend delivers a webhook at least   *)
(* once, any number of serverless invocations may work on it, and a lease  *)
(* row decides which of them may write.  Bodies and attachments are put in *)
(* an object store outside the database and are not fenced by the lease;   *)
(* they are only ever created, never replaced.                             *)
(*                                                                         *)
(* Emails share no row and no object, so one email is the whole system.    *)
(* A delivery that the signature or the write gate turns away changes      *)
(* nothing and is not modelled.                                            *)
(*                                                                         *)
(* Sources: src/resend/repository.rs, src/resend/http.rs, put_if_absent of *)
(* src/media/service.rs, migrations 0004 and 0005.                         *)
(***************************************************************************)
EXTENDS Naturals

CONSTANTS
    Workers,        \* concurrent serverless invocations
    Attachments,    \* provider ids of attachments
    Announcements,  \* the sets of attachments a delivery may announce
    BodyKinds,      \* what the provider may return: "html", "txt", "empty"
    Contents,       \* the contents the provider may return for one object
    LeaseStale,     \* age at which a lease is expired (LEASE_STALE_SQL)
    MaxProcessing,  \* longest a claim is worked on: PROCESSING_TIMEOUT, or more
                    \* when the instance is suspended meanwhile
    NoContent,      \* an object that does not exist, a size that is NULL
    NoOwner         \* the lease token of an invocation that is gone

BodyKeys == {"html", "txt"}
Keys == BodyKeys \cup Attachments

ASSUME InboundAssumption ==
    /\ BodyKinds \subseteq BodyKeys \cup {"empty"}
    /\ Announcements \subseteq SUBSET Attachments
    /\ (BodyKeys \cup {"body"}) \cap Attachments = {}
    /\ NoContent \notin Contents \cup BodyKeys \cup {"empty"}
    /\ NoOwner \notin Workers
    /\ LeaseStale \in Nat \ {0} /\ MaxProcessing \in Nat

VARIABLES
    email,    \* intg_received_email: processing_state and the body columns
    atts,     \* intg_received_email_attachment: processing_state and size_bytes
    lease,    \* intg_received_email_processing_lease; held FALSE is no row
    objects,  \* the object store
    flight,   \* conditional PUTs whose sender no longer waits for them
    acked,    \* history: a delivery was answered with a 2xx
    outage,   \* the platform, the provider or a store may still fail, or be
              \* too slow for the processing timeout
    pc, job   \* where each invocation is, and its local variables

vars == <<email, atts, lease, objects, flight, acked, outage, pc, job>>

NoLease == [held |-> FALSE, owner |-> NoOwner, age |-> 0]
NoJob == [body |-> "none", todo |-> {}, key |-> "html", got |-> NoContent,
          age |-> 0]

Init ==
    /\ email = [state |-> "absent", body |-> "none"]
    /\ atts = [a \in Attachments |-> [state |-> "absent", size |-> NoContent]]
    /\ lease = NoLease
    /\ objects = [k \in Keys |-> NoContent]
    /\ flight = {}
    /\ acked = FALSE
    /\ outage = TRUE
    /\ pc = [w \in Workers |-> "idle"]
    /\ job = [w \in Workers |-> NoJob]

-----------------------------------------------------------------------------
(* Steps of an invocation.                                                 *)

Goto(w, label, j) ==
    /\ pc' = [pc EXCEPT ![w] = label]
    /\ job' = [job EXCEPT ![w] = j]

storeUnchanged == UNCHANGED <<objects, flight>>
dbUnchanged == UNCHANGED <<email, atts, lease>>

Owned(w) == lease.held /\ lease.owner = w
\* Tokens are random and never used twice: once the invocation is gone nobody
\* can present its token.
Orphaned(l, w) == [l EXCEPT !.owner = IF @ = w THEN NoOwner ELSE @]

\* The invocation answers without a 2xx, or is killed.
Leave(w) == Goto(w, "idle", NoJob)
\* process_claim returns an error, or is dropped.
GotoFail(w) == Goto(w, "fail", NoJob)

-----------------------------------------------------------------------------
(* The claim: one IMMEDIATE transaction.                                   *)

\* upsert_attachment, for every attachment that a delivery announces: a row
\* that is there is left alone.
upsert_attachment(ann) ==
    [a \in Attachments |->
        IF a \in ann /\ atts[a].state = "absent"
        THEN [atts[a] EXCEPT !.state = "pending"] ELSE atts[a]]

\* Mutant: attachments that failed before are not picked up again.
Incomplete_mutant(rows) == {a \in Attachments : rows[a].state = "pending"}

\* The attachments that are not stored.
Incomplete(rows) == {a \in Attachments : rows[a].state \in {"pending", "error"}}
Reset(rows) == [a \in Attachments |->
                  IF a \in Incomplete(rows)
                  THEN [rows[a] EXCEPT !.state = "pending"] ELSE rows[a]]

\* Mutants: leases never expire; a lease is taken while its owner may work.
LeaseFree_forever == ~lease.held
LeaseFree_early == ~lease.held \/ lease.age + 1 >= LeaseStale

\* There is no lease row once the stale ones are deleted.
LeaseFree == ~lease.held \/ lease.age >= LeaseStale

\* claim_on, after the attachment rows have become rows.  email.state is not
\* 'stored' here.  The claim returns a snapshot of the email and its
\* attachments.
claim_on(w, rows) ==
    \/ /\ LeaseFree
       /\ email' = [email EXCEPT !.state = "pending"]
       /\ atts' = Reset(rows)
       /\ \/ /\ lease' = [held |-> TRUE, owner |-> w, age |-> 0]
             /\ Goto(w, IF email.body = "none" THEN "body" ELSE "list",
                     [NoJob EXCEPT !.todo = Incomplete(rows)])
          \* committed, but the answer is lost
          \/ /\ outage
             /\ lease' = [held |-> TRUE, owner |-> NoOwner, age |-> 0]
             /\ UNCHANGED <<pc, job>>
    \/ /\ ~LeaseFree                \* Busy: the rows are kept all the same
       /\ atts' = rows
       /\ UNCHANGED <<email, lease, pc, job>>

\* A delivery: new, repeated or concurrent with another one.  A stored email
\* is acknowledged, and its attachment rows are inserted even then.
claim_webhook(w, ann) ==
    /\ pc[w] = "idle"
    /\ IF email.state = "stored"
       THEN /\ atts' = upsert_attachment(ann)
            /\ acked' = TRUE
            /\ UNCHANGED <<email, lease, pc, job>>
       ELSE /\ claim_on(w, upsert_attachment(ann))
            /\ UNCHANGED acked
    /\ storeUnchanged /\ UNCHANGED outage

\* A signed-in user retries an email that is listed.
claim_retry(w) ==
    /\ pc[w] = "idle" /\ email.state \in {"pending", "error"}
    /\ claim_on(w, atts)
    /\ storeUnchanged /\ UNCHANGED <<acked, outage>>

-----------------------------------------------------------------------------
(* process_claim, within PROCESSING_TIMEOUT.                               *)

Processing == {"body", "record", "list", "store", "mark", "markerror",
               "complete"}
NextAttachment(w, todo) ==
    \/ /\ todo = {}
       /\ Goto(w, "complete", [job[w] EXCEPT !.todo = {}])
    \/ \E a \in todo :
          Goto(w, "store", [job[w] EXCEPT !.todo = todo, !.key = a,
                                          !.got = NoContent])

\* Mutant: an unconditional PUT.
Created_mutant(k, c) == [objects EXCEPT ![k] = c]

\* What the conditional PUT does to object k.
Created(k, c) == IF objects[k] = NoContent THEN [objects EXCEPT ![k] = c]
                                           ELSE objects

\* put_if_absent: it succeeds when the object is there with the same bytes.
\* Without an answer the PUT may still arrive later, or never.
put_if_absent(w, k, c, Ok, Failed) ==
    \/ /\ objects' = Created(k, c)
       /\ IF objects'[k] = c THEN Ok ELSE Failed
       /\ UNCHANGED flight
    \/ /\ outage
       /\ flight' = flight \cup {<<k, c>>}
       /\ Failed
       /\ UNCHANGED objects

\* get_received_email and the PUT of what it returned.  An email without a
\* body has no object.
put_body(w) ==
    /\ pc[w] = "body"
    /\ \E kind \in BodyKinds :
        LET Put == Goto(w, "record", [job[w] EXCEPT !.body = kind])
        IN  \/ kind = "empty" /\ Put /\ storeUnchanged
            \/ kind # "empty" /\ \E c \in Contents :
                                    put_if_absent(w, kind, c, Put, GotoFail(w))
    /\ dbUnchanged /\ UNCHANGED <<acked, outage>>

\* Mutant: the lease is not tested.
record_body_mutant(w) ==
    /\ pc[w] = "record"
    /\ IF email.state = "pending"
       THEN /\ email' = [email EXCEPT !.body = job[w].body]
            /\ \/ Goto(w, "list", [job[w] EXCEPT !.body = "none"])
               \/ outage /\ GotoFail(w)
       ELSE GotoFail(w) /\ UNCHANGED email
    /\ storeUnchanged /\ UNCHANGED <<atts, lease, acked, outage>>

\* One UPDATE that tests the lease and the state.
record_body(w) ==
    /\ pc[w] = "record"
    /\ IF Owned(w) /\ email.state = "pending"
       THEN /\ email' = [email EXCEPT !.body = job[w].body]
            /\ \/ Goto(w, "list", [job[w] EXCEPT !.body = "none"])
               \/ outage /\ GotoFail(w)
       ELSE GotoFail(w) /\ UNCHANGED email
    /\ storeUnchanged /\ UNCHANGED <<atts, lease, acked, outage>>

\* The attachments that were not stored when the claim was made, one by one.
list_attachments(w) ==
    /\ pc[w] = "list"
    /\ NextAttachment(w, job[w].todo)
    /\ dbUnchanged /\ storeUnchanged /\ UNCHANGED <<acked, outage>>

store_attachment(w) ==
    LET a == job[w].key
    IN  /\ pc[w] = "store"
        /\ \E c \in Contents :
              put_if_absent(w, a, c,
                            Goto(w, "mark", [job[w] EXCEPT !.got = c]),
                            Goto(w, "markerror", job[w]))
        /\ dbUnchanged /\ UNCHANGED <<acked, outage>>

\* One UPDATE that tests the lease; a row that is stored already is accepted
\* when it records the same object.
mark_attachment_stored(w) ==
    LET a == job[w].key
        c == job[w].got
    IN  /\ pc[w] = "mark"
        /\ IF Owned(w) /\ (atts[a].state # "stored" \/ atts[a].size = c)
           THEN /\ atts' = [atts EXCEPT ![a] = [state |-> "stored", size |-> c]]
                /\ \/ NextAttachment(w, job[w].todo \ {a})
                   \/ outage /\ Goto(w, "markerror", job[w])
           ELSE UNCHANGED atts /\ Goto(w, "markerror", job[w])
        /\ storeUnchanged /\ UNCHANGED <<email, lease, acked, outage>>

\* The attachment could not be fetched, put or marked; best effort.
mark_attachment_error(w) ==
    LET a == job[w].key
    IN  /\ pc[w] = "markerror"
        /\ \/ /\ Owned(w) /\ atts[a].state = "pending"
              /\ atts' = [atts EXCEPT ![a] = [@ EXCEPT !.state = "error"]]
           \/ /\ outage \/ ~Owned(w) \/ atts[a].state # "pending"
              /\ UNCHANGED atts
        /\ GotoFail(w)
        /\ storeUnchanged /\ UNCHANGED <<email, lease, acked, outage>>

\* One transaction: the lease, the attachments and the state are tested, the
\* email is stored and the lease row deleted.  A retry's redirect is counted
\* as an acknowledgement too.
complete(w) ==
    /\ pc[w] = "complete"
    /\ IF Owned(w) /\ Incomplete(atts) = {} /\ email.state = "pending"
       THEN /\ email' = [email EXCEPT !.state = "stored"]
            /\ lease' = NoLease
            /\ \/ acked' = TRUE /\ Leave(w)
               \/ outage /\ GotoFail(w) /\ UNCHANGED acked
       ELSE GotoFail(w) /\ UNCHANGED <<email, lease, acked>>
    /\ storeUnchanged /\ UNCHANGED <<atts, outage>>

-----------------------------------------------------------------------------
(* How a claim ends otherwise.                                             *)

\* The provider or a store failed, or its answer was refused.
StepFails(w) ==
    /\ outage
    /\ \/ pc[w] \in {"body", "record", "list", "complete"} /\ GotoFail(w)
       \/ pc[w] \in {"store", "mark"} /\ Goto(w, "markerror", job[w])
    /\ dbUnchanged /\ storeUnchanged /\ UNCHANGED <<acked, outage>>

\* tokio::time::timeout drops process_claim at whatever it awaits; a PUT may
\* be on its way then.
Timeout(w) ==
    /\ outage /\ pc[w] \in Processing /\ job[w].age >= MaxProcessing
    /\ \/ UNCHANGED flight
       \/ /\ pc[w] = "store"
          /\ \E c \in Contents : flight' = flight \cup {<<job[w].key, c>>}
       \/ /\ pc[w] = "body"
          /\ \E k \in BodyKinds \ {"empty"}, c \in Contents :
                flight' = flight \cup {<<k, c>>}
    /\ GotoFail(w)
    /\ dbUnchanged /\ UNCHANGED <<objects, acked, outage>>

\* One transaction, best effort; then the invocation answers 502 or 503.
fail(w) ==
    /\ pc[w] = "fail"
    /\ \/ /\ Owned(w) /\ email.state = "pending"
          /\ email' = [email EXCEPT !.state = "error"]
          /\ lease' = NoLease
       \/ /\ outage \/ ~Owned(w) \/ email.state # "pending"
          /\ lease' = Orphaned(lease, w)
          /\ UNCHANGED email
    /\ Leave(w)
    /\ storeUnchanged /\ UNCHANGED <<atts, acked, outage>>

\* The platform ends the invocation.
Kill(w) ==
    /\ outage /\ pc[w] # "idle"
    /\ Leave(w)
    /\ lease' = Orphaned(lease, w)
    /\ storeUnchanged /\ UNCHANGED <<email, atts, acked, outage>>

-----------------------------------------------------------------------------
(* The environment.                                                        *)

\* A PUT nobody waits for reaches the object store, or is dropped.
Land ==
    /\ \E p \in flight :
          /\ flight' = flight \ {p}
          /\ objects' = Created(p[1], p[2]) \/ UNCHANGED objects
    /\ dbUnchanged /\ UNCHANGED <<acked, outage, pc, job>>

Heal ==
    /\ outage /\ outage' = FALSE
    /\ dbUnchanged /\ storeUnchanged /\ UNCHANGED <<acked, pc, job>>

\* Time passes for the lease and for the claims that are worked on.  Only
\* ages below the two limits are told apart.
Older(age, limit) == IF age < limit THEN age + 1 ELSE age
Tick ==
    /\ \A w \in Workers : pc[w] \in Processing => job[w].age < MaxProcessing
    /\ lease' = IF lease.held
                THEN [lease EXCEPT !.age = Older(@, LeaseStale)] ELSE lease
    /\ job' = [w \in Workers |->
                 IF pc[w] \in Processing
                 THEN [job[w] EXCEPT !.age = Older(@, MaxProcessing)]
                 ELSE job[w]]
    /\ storeUnchanged /\ UNCHANGED <<email, atts, acked, outage, pc>>

Deliver(w) == \E ann \in Announcements : claim_webhook(w, ann)
Work(w) ==
    \/ put_body(w) \/ record_body(w)
    \/ list_attachments(w) \/ store_attachment(w)
    \/ mark_attachment_stored(w) \/ mark_attachment_error(w)
    \/ complete(w) \/ fail(w)
Trouble(w) == StepFails(w) \/ Timeout(w) \/ Kill(w)

Next ==
    \/ \E w \in Workers : Deliver(w) \/ claim_retry(w) \/ Work(w) \/ Trouble(w)
    \/ Land \/ Heal \/ Tick

Spec == Init /\ [][Next]_vars

\* The outage ends, time passes, a live invocation goes on with its work, and
\* Resend redelivers until it gets a 2xx.
LiveSpec ==
    /\ Spec
    /\ WF_vars(Heal) /\ WF_vars(Tick)
    /\ \A w \in Workers : /\ WF_vars(Work(w))
                          /\ SF_vars(~acked /\ Deliver(w))
-----------------------------------------------------------------------------
(* Properties.                                                             *)

Sizes == Contents \cup {NoContent}
Jobs == [body : BodyKeys \cup {"none", "empty"}, todo : SUBSET Attachments,
         key : Keys, got : Sizes, age : 0..MaxProcessing]

\* The type invariant: the columns, the objects, the requests that are on
\* their way and the points where an invocation can be; size_bytes is set
\* exactly on stored attachments.
TypeOK ==
    /\ email \in [state : {"absent", "pending", "stored", "error"},
                  body : BodyKeys \cup {"none", "empty"}]
    /\ atts \in [Attachments -> [state : {"absent", "pending", "stored", "error"},
                                 size : Sizes]]
    /\ \A a \in Attachments : atts[a].state = "stored" <=> atts[a].size \in Contents
    /\ lease \in [held : BOOLEAN, owner : Workers \cup {NoOwner},
                  age : 0..LeaseStale]
    /\ objects \in [Keys -> Sizes]
    /\ flight \subseteq Keys \X Contents
    /\ acked \in BOOLEAN /\ outage \in BOOLEAN
    /\ pc \in [Workers -> Processing \cup {"idle", "fail"}]
    /\ job \in [Workers -> Jobs]

\* Whatever the rows point to is in the object store with the recorded size,
\* although objects are written without a lease: by an owner that has lost
\* it, or by a request that arrives after its sender gave up.
RowsMatchObjects ==
    /\ email.body \in BodyKeys => objects[email.body] # NoContent
    /\ \A a \in Attachments : atts[a].state = "stored" =>
            atts[a].size = objects[a]

\* The abstract email of Inbox: attempts that failed are attempts, and leases,
\* objects and invocations do not show.
Promise == INSTANCE Inbox WITH
    Body <- "body", Missing <- NoContent,
    stage <- IF email.state \in {"pending", "error"} THEN "announced"
             ELSE email.state,
    announced <- {a \in Attachments : atts[a].state # "absent"},
    recorded <- [p \in {"body"} \cup Attachments |->
                   IF p \in Attachments THEN atts[p].size
                   ELSE IF email.body = "none" THEN NoContent ELSE email.body]

\* The lease protocol implements Inbox: whatever is delivered again, retried,
\* suspended, killed or late, the body and the attachments are recorded once and
\* never replaced by an owner that has lost its lease, the email becomes stored
\* only when nothing announced is missing, and only then is it acknowledged: after
\* a 2xx Resend does not send the email again.
ImplementsInbox == Promise!Spec

\* Only one invocation at a time fetches the email ("a short libSQL lease
\* allows only one invocation to fetch content at a time", README): the
\* processing timeout ends an owner before its lease can be taken.
OneProcessor ==
    \A v, w \in Workers :
        pc[v] \in Processing /\ pc[w] \in Processing => v = w

\* An email that was ever announced is stored in the end, whatever failed
\* before: leases of killed owners expire, failed attempts are repeated.
EventuallyStored == email.state # "absent" ~> [](email.state = "stored")
=============================================================================
