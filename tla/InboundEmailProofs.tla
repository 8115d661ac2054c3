------------------------- MODULE InboundEmailProofs -------------------------
(***************************************************************************)
(* Proofs about InboundEmail for every number of invocations, attachments  *)
(* and contents: types, what the rows point to, the implementation of      *)
(* Inbox and, where a lease outlives the processing of its claim, that one *)
(* invocation at a time processes the email.                               *)
(***************************************************************************)
EXTENDS InboundEmail, TLAPS

\* Where a worker has got to the attachments.
AfterBody == {"list", "store", "mark", "markerror", "complete"}
OnAttachment == {"store", "mark", "markerror"}

\* What a worker carries fits where it is.
JobFits(w) ==
    /\ pc[w] = "record" => job[w].body \in BodyKeys \cup {"empty"}
    /\ pc[w] \in OnAttachment => job[w].key \in job[w].todo
    /\ pc[w] = "mark" => job[w].got \in Contents

\* It works on attachments that have rows.
RowsExist(w) == \A a \in job[w].todo : atts[a].state # "absent"

\* What it is about to record is in the store, whoever put it there.
PutBefore(w) ==
    /\ pc[w] = "record" /\ job[w].body # "empty"
          => objects[job[w].body] # NoContent
    /\ pc[w] = "mark" => objects[job[w].key] = job[w].got

\* An owner that comes to record the body is the first one, and nobody is past
\* the body before it is recorded.
BodyOnce(w) ==
    /\ pc[w] \in {"body", "record"} /\ Owned(w) => email.body = "none"
    /\ pc[w] \in AfterBody => email.body # "none"

\* A lease is for an email that is neither stored nor given up.
LeaseMeansPending == lease.held => email.state = "pending"

IInv ==
    /\ TypeOK
    /\ LeaseMeansPending
    /\ RowsMatchObjects
    /\ \A w \in Workers : JobFits(w) /\ RowsExist(w) /\ PutBefore(w) /\ BodyOnce(w)

\* Who processes holds the lease, which is no older than its claim.
ProcessorOwns ==
    \A w \in Workers :
        pc[w] \in Processing => Owned(w) /\ lease.age <= job[w].age

-----------------------------------------------------------------------------
(* Steps of an invocation.                                                 *)

Labels == Processing \cup {"idle", "fail"}

LEMMA NoJobType == NoJob \in Jobs
  BY InboundAssumption DEF NoJob, Jobs, Sizes, Keys, BodyKeys

LEMMA JobTypes ==
    ASSUME NEW j \in Jobs
    PROVE  /\ j.body \in BodyKeys \cup {"none", "empty"}
           /\ j.todo \in SUBSET Attachments
           /\ j.key \in Keys /\ j.got \in Sizes /\ j.age \in 0..MaxProcessing
  BY DEF Jobs

\* Goto moves one invocation and leaves the others.
LEMMA GotoGives ==
    ASSUME TypeOK, NEW w \in Workers, NEW label \in Labels, NEW j \in Jobs,
           Goto(w, label, j)
    PROVE  /\ pc' \in [Workers -> Labels] /\ job' \in [Workers -> Jobs]
           /\ pc'[w] = label /\ job'[w] = j
           /\ \A v \in Workers \ {w} : pc'[v] = pc[v] /\ job'[v] = job[v]
  BY DEF TypeOK, Goto, Labels

LEMMA GotoFits ==
    ASSUME TypeOK, NEW w \in Workers, NEW label \in Labels, NEW j \in Jobs,
           Goto(w, label, j), \A v \in Workers : JobFits(v),
           label = "record" => j.body \in BodyKeys \cup {"empty"},
           label \in OnAttachment => j.key \in j.todo,
           label = "mark" => j.got \in Contents
    PROVE  \A v \in Workers : JobFits(v)'
<1>. SUFFICES ASSUME NEW v \in Workers  PROVE  JobFits(v)'
  OBVIOUS
<1>1. /\ pc'[w] = label /\ job'[w] = j
      /\ v # w => pc'[v] = pc[v] /\ job'[v] = job[v]
  BY GotoGives
<1>. QED  BY <1>1 DEF JobFits

\* The invocation that gives up.
LEMMA LeaveFits ==
    ASSUME TypeOK, NEW w \in Workers, NEW label \in {"idle", "fail"},
           Goto(w, label, NoJob), \A v \in Workers : JobFits(v)
    PROVE  /\ pc' \in [Workers -> Labels] /\ job' \in [Workers -> Jobs]
           /\ \A v \in Workers : JobFits(v)'
<1>1. label \in Labels /\ label \notin OnAttachment /\ label \notin {"record", "mark"}
  BY DEF Labels, OnAttachment
<1>. QED  BY <1>1, NoJobType, GotoGives, GotoFits

\* The next attachment, or the end.
LEMMA NextFits ==
    ASSUME TypeOK, NEW w \in Workers, NEW todo \in SUBSET Attachments,
           NextAttachment(w, todo), \A v \in Workers : JobFits(v)
    PROVE  /\ pc' \in [Workers -> Labels] /\ job' \in [Workers -> Jobs]
           /\ \A v \in Workers : JobFits(v)'
           /\ pc'[w] \in {"complete", "store"} /\ job'[w].todo = todo
           /\ job'[w].age = job[w].age
           /\ \A v \in Workers \ {w} : pc'[v] = pc[v] /\ job'[v] = job[v]
<1>. DEFINE j1 == [job[w] EXCEPT !.todo = {}]
            j2(a) == [job[w] EXCEPT !.todo = todo, !.key = a, !.got = NoContent]
<1>1. job[w] \in Jobs
  BY DEF TypeOK
<1>2. "complete" \in Labels /\ "store" \in Labels
  BY DEF Labels, Processing
<1>3. CASE todo = {} /\ Goto(w, "complete", j1)
  <2>1. j1 \in Jobs /\ j1.todo = todo /\ j1.age = job[w].age
    BY <1>1, <1>3 DEF Jobs
  <2>. HIDE DEF j1
  <2>. QED  BY <2>1, <1>2, <1>3, GotoGives, GotoFits DEF OnAttachment
<1>4. ASSUME NEW a \in todo, Goto(w, "store", j2(a))
      PROVE  /\ pc' \in [Workers -> Labels] /\ job' \in [Workers -> Jobs]
             /\ \A v \in Workers : JobFits(v)'
             /\ pc'[w] \in {"complete", "store"} /\ job'[w].todo = todo
             /\ job'[w].age = job[w].age
             /\ \A v \in Workers \ {w} : pc'[v] = pc[v] /\ job'[v] = job[v]
  <2>1. /\ j2(a) \in Jobs /\ j2(a).todo = todo /\ j2(a).age = job[w].age
        /\ j2(a).key = a
    BY <1>1 DEF Jobs, Keys, Sizes
  <2>. HIDE DEF j2
  <2>. QED  BY <2>1, <1>2, <1>4, GotoGives, GotoFits DEF OnAttachment
<1>. QED  BY <1>3, <1>4 DEF NextAttachment

-----------------------------------------------------------------------------
(* What the pieces of the actions leave behind.                            *)

States == {"absent", "pending", "stored", "error"}
RowsTyped(rows) ==
    /\ rows \in [Attachments -> [state : States, size : Sizes]]
    /\ \A a \in Attachments : rows[a].state = "stored" <=> rows[a].size \in Contents
EmailType == [state : States, body : BodyKeys \cup {"none", "empty"}]
LeaseType == [held : BOOLEAN, owner : Workers \cup {NoOwner}, age : 0..LeaseStale]

LEMMA TypeParts ==
    TypeOK <=>
        /\ email \in EmailType /\ RowsTyped(atts) /\ lease \in LeaseType
        /\ objects \in [Keys -> Sizes] /\ flight \subseteq Keys \X Contents
        /\ acked \in BOOLEAN /\ outage \in BOOLEAN
        /\ pc \in [Workers -> Labels] /\ job \in [Workers -> Jobs]
  BY DEF TypeOK, EmailType, RowsTyped, LeaseType, States, Labels

\* upsert_attachment changes only rows that were not there.
LEMMA UpsertRows ==
    ASSUME TypeOK, NEW ann
    PROVE  /\ RowsTyped(upsert_attachment(ann))
           /\ \A a \in Attachments :
                 /\ upsert_attachment(ann)[a].size = atts[a].size
                 /\ atts[a].state # "absent" => upsert_attachment(ann)[a] = atts[a]
                 /\ upsert_attachment(ann)[a].state = "stored"
                       <=> atts[a].state = "stored"
<1>. DEFINE rows == upsert_attachment(ann)
<1>1. RowsTyped(atts)
  BY TypeParts
<1>2. ASSUME NEW a \in Attachments
      PROVE  /\ rows[a] \in [state : States, size : Sizes]
             /\ rows[a].size = atts[a].size
             /\ atts[a].state # "absent" => rows[a] = atts[a]
             /\ rows[a].state = "stored" <=> atts[a].state = "stored"
  <2>1. atts[a] \in [state : States, size : Sizes]
    BY <1>1 DEF RowsTyped
  <2>. QED  BY <2>1 DEF upsert_attachment, States
<1>3. DOMAIN rows = Attachments /\ rows = [a \in DOMAIN rows |-> rows[a]]
  BY DEF upsert_attachment
<1>. HIDE DEF rows
<1>4. RowsTyped(rows)
  BY <1>1, <1>2, <1>3 DEF RowsTyped
<1>. QED  BY <1>2, <1>4 DEF rows

\* Reset makes rows pending that were not stored.
LEMMA ResetRows ==
    ASSUME NEW rows, RowsTyped(rows)
    PROVE  /\ RowsTyped(Reset(rows))
           /\ \A a \in Attachments :
                 /\ Reset(rows)[a].size = rows[a].size
                 /\ Reset(rows)[a].state = "absent" <=> rows[a].state = "absent"
                 /\ Reset(rows)[a].state = "stored" <=> rows[a].state = "stored"
<1>. DEFINE fresh == Reset(rows)
<1>1. ASSUME NEW a \in Attachments
      PROVE  /\ fresh[a] \in [state : States, size : Sizes]
             /\ fresh[a].size = rows[a].size
             /\ fresh[a].state = "absent" <=> rows[a].state = "absent"
             /\ fresh[a].state = "stored" <=> rows[a].state = "stored"
  <2>1. rows[a] \in [state : States, size : Sizes]
    BY DEF RowsTyped
  <2>. QED  BY <2>1 DEF Reset, Incomplete, States
<1>2. DOMAIN fresh = Attachments /\ fresh = [a \in DOMAIN fresh |-> fresh[a]]
  BY DEF Reset
<1>. HIDE DEF fresh
<1>3. RowsTyped(fresh)
  BY <1>1, <1>2 DEF RowsTyped
<1>. QED  BY <1>1, <1>3 DEF fresh

\* The three ways in which a claim ends, and what all of them keep.
LEMMA ClaimGives ==
    ASSUME TypeOK, \A v \in Workers : JobFits(v),
           NEW w \in Workers, NEW rows, RowsTyped(rows),
           \A a \in Attachments : /\ rows[a].size = atts[a].size
                                  /\ atts[a].state # "absent" => rows[a] = atts[a]
                                  /\ rows[a].state = "stored" <=> atts[a].state = "stored",
           claim_on(w, rows)
    PROVE  /\ email' \in EmailType /\ RowsTyped(atts') /\ lease' \in LeaseType
           /\ pc' \in [Workers -> Labels] /\ job' \in [Workers -> Jobs]
           /\ \A v \in Workers : JobFits(v)'
           /\ email'.body = email.body
           /\ \A a \in Attachments :
                 /\ atts'[a].size = atts[a].size
                 /\ atts[a].state # "absent" => atts'[a].state # "absent"
                 /\ atts'[a].state = "stored" <=> atts[a].state = "stored"
           /\ \A v \in Workers \ {w} : pc'[v] = pc[v] /\ job'[v] = job[v]
           /\ \/ /\ LeaseFree /\ email'.state = "pending"
                 /\ lease' = [held |-> TRUE, owner |-> w, age |-> 0]
                 /\ pc'[w] = IF email.body = "none" THEN "body" ELSE "list"
                 /\ job'[w].age = 0
                 /\ \A a \in job'[w].todo : atts'[a].state # "absent"
              \/ /\ LeaseFree /\ email'.state = "pending"
                 /\ lease' = [held |-> TRUE, owner |-> NoOwner, age |-> 0]
                 /\ UNCHANGED <<pc, job>>
              \/ ~LeaseFree /\ UNCHANGED <<email, lease, pc, job>>
<1>0. /\ email \in EmailType /\ lease \in LeaseType
      /\ pc \in [Workers -> Labels] /\ job \in [Workers -> Jobs]
  BY TypeParts
<1>1. CASE LeaseFree /\ email' = [email EXCEPT !.state = "pending"]
           /\ atts' = Reset(rows)
  <2>1. email' \in EmailType /\ email'.body = email.body /\ email'.state = "pending"
    BY <1>0, <1>1 DEF EmailType, States
  <2>2. /\ RowsTyped(atts')
        /\ \A a \in Attachments :
              /\ atts'[a].size = atts[a].size
              /\ atts[a].state # "absent" => atts'[a].state # "absent"
              /\ atts'[a].state = "stored" <=> atts[a].state = "stored"
    BY <1>1, ResetRows
  <2>3. CASE /\ lease' = [held |-> TRUE, owner |-> w, age |-> 0]
             /\ Goto(w, IF email.body = "none" THEN "body" ELSE "list",
                     [NoJob EXCEPT !.todo = Incomplete(rows)])
    <3>. DEFINE label == IF email.body = "none" THEN "body" ELSE "list"
                j == [NoJob EXCEPT !.todo = Incomplete(rows)]
    <3>1. /\ label \in Labels /\ label \notin OnAttachment
          /\ label # "record" /\ label # "mark"
      BY DEF Labels, Processing, OnAttachment
    <3>2. j \in Jobs /\ j.todo = Incomplete(rows) /\ j.age = 0
      BY NoJobType DEF Jobs, NoJob, Incomplete
    <3>3. lease' \in LeaseType
      BY <2>3, InboundAssumption DEF LeaseType
    <3>4. \A a \in Incomplete(rows) : a \in Attachments /\ atts'[a].state # "absent"
      BY <1>1, ResetRows DEF Incomplete
    <3>. HIDE DEF j, label
    <3>5. Goto(w, label, j)
      BY <2>3 DEF j, label
    <3>6. /\ pc' \in [Workers -> Labels] /\ job' \in [Workers -> Jobs]
          /\ \A v \in Workers \ {w} : pc'[v] = pc[v] /\ job'[v] = job[v]
          /\ pc'[w] = label /\ job'[w] = j
      BY <3>1, <3>2, <3>5, GotoGives
    <3>7. \A v \in Workers : JobFits(v)'
      BY <3>1, <3>2, <3>5, GotoFits
    <3>. QED  BY <1>1, <2>1, <2>2, <2>3, <3>2, <3>3, <3>4, <3>6, <3>7 DEF label
  <2>4. CASE /\ lease' = [held |-> TRUE, owner |-> NoOwner, age |-> 0]
             /\ UNCHANGED <<pc, job>>
    <3>1. lease' \in LeaseType
      BY <2>4, InboundAssumption DEF LeaseType
    <3>2. \A v \in Workers : JobFits(v)'
      BY <2>4 DEF JobFits
    <3>. QED  BY <1>0, <1>1, <2>1, <2>2, <2>4, <3>1, <3>2
  <2>. QED  BY <1>1, <2>3, <2>4 DEF claim_on
<1>2. CASE ~LeaseFree /\ atts' = rows /\ UNCHANGED <<email, lease, pc, job>>
  <2>1. \A v \in Workers : JobFits(v)'
    BY <1>2 DEF JobFits
  <2>. QED  BY <1>0, <1>2, <2>1
<1>. QED  BY <1>1, <1>2 DEF claim_on

\* A conditional PUT creates an object or leaves it as it is.
LEMMA CreatedGives ==
    ASSUME TypeOK, NEW k \in Keys, NEW c \in Contents
    PROVE  /\ Created(k, c) \in [Keys -> Sizes]
           /\ \A i \in Keys : objects[i] # NoContent => Created(k, c)[i] = objects[i]
           /\ Created(k, c)[k] # NoContent
<1>1. objects \in [Keys -> Sizes] /\ c # NoContent /\ c \in Sizes
  BY TypeParts, InboundAssumption DEF Sizes
<1>. QED  BY <1>1 DEF Created


\* What every step does to the objects: none changes, and what arrives is of
\* the right type.
StoreGrows ==
    /\ objects' \in [Keys -> Sizes] /\ flight' \subseteq Keys \X Contents
    /\ \A k \in Keys : objects[k] # NoContent => objects'[k] = objects[k]

LEMMA StoreKept ==
    ASSUME TypeOK, storeUnchanged  PROVE  StoreGrows
  BY TypeParts DEF storeUnchanged, StoreGrows

LEMMA PutGrows ==
    ASSUME TypeOK, NEW k \in Keys, NEW c \in Contents,
           \/ objects' = Created(k, c) /\ UNCHANGED flight
           \/ flight' = flight \cup {<<k, c>>} /\ UNCHANGED objects
    PROVE  StoreGrows
  BY TypeParts, CreatedGives DEF StoreGrows

-----------------------------------------------------------------------------
(* What a step keeps of the invariant for those that it is not about.      *)

\* Rows and bodies stay once they are there.
DataGrows ==
    /\ \A a \in Attachments : atts[a].state # "absent" => atts'[a].state # "absent"
    /\ email.body # "none" => email'.body # "none"

\* An invocation stays where it is; it may have got older.
Stays(v) ==
    /\ pc'[v] = pc[v]
    /\ job'[v].body = job[v].body /\ job'[v].todo = job[v].todo
    /\ job'[v].key = job[v].key /\ job'[v].got = job[v].got

LEMMA OthersKeep ==
    ASSUME IInv, NEW v \in Workers, Stays(v), StoreGrows, DataGrows,
           Owned(v)' => Owned(v) /\ email'.body = email.body
    PROVE  JobFits(v)' /\ RowsExist(v)' /\ PutBefore(v)' /\ BodyOnce(v)'
<1>1. /\ JobFits(v) /\ RowsExist(v) /\ PutBefore(v) /\ BodyOnce(v)
      /\ job[v] \in Jobs
  BY TypeParts DEF IInv
<1>2. JobFits(v)'
  BY <1>1 DEF JobFits, Stays
<1>3. RowsExist(v)'
  BY <1>1, JobTypes DEF RowsExist, Stays, DataGrows
<1>4. PutBefore(v)'
  <2>1. CASE pc[v] = "record" /\ job[v].body # "empty"
    <3>1. job[v].body \in Keys
      BY <1>1, <2>1 DEF JobFits, Keys
    <3>. QED  BY <1>1, <2>1, <3>1 DEF PutBefore, Stays, StoreGrows
  <2>2. CASE pc[v] = "mark"
    <3>1. job[v].key \in Keys /\ job[v].got # NoContent
      BY <1>1, <2>2, JobTypes, InboundAssumption DEF JobFits
    <3>. QED  BY <1>1, <2>2, <3>1 DEF PutBefore, Stays, StoreGrows
  <2>. QED  BY <2>1, <2>2 DEF PutBefore, Stays
<1>5. BodyOnce(v)'
  <2>1. pc'[v] = pc[v]
    BY DEF Stays
  <2>2. pc[v] \in AfterBody => email'.body # "none"
    BY <1>1 DEF BodyOnce, DataGrows
  <2>3. pc[v] \in {"body", "record"} /\ Owned(v)' => email'.body = "none"
    BY <1>1 DEF BodyOnce
  <2>. QED  BY <2>1, <2>2, <2>3 DEF BodyOnce
<1>. QED  BY <1>2, <1>3, <1>4, <1>5

\* An invocation that is not processing has nothing to keep.
LEMMA LeftKeeps ==
    ASSUME NEW w \in Workers, pc'[w] \in {"idle", "fail"}, job'[w] = NoJob
    PROVE  JobFits(w)' /\ RowsExist(w)' /\ PutBefore(w)' /\ BodyOnce(w)'
<1>1. /\ pc'[w] \notin AfterBody /\ pc'[w] \notin OnAttachment
      /\ pc'[w] \notin {"body", "record", "mark"}
  BY DEF AfterBody, OnAttachment
<1>2. job'[w].todo = {}
  BY DEF NoJob
<1>. QED  BY <1>1, <1>2 DEF JobFits, RowsExist, PutBefore, BodyOnce

\* Rows that point to what they pointed to, or to what has been put.
LEMMA RowsKeep ==
    ASSUME IInv, StoreGrows, RowsTyped(atts'), email' \in EmailType,
           \/ email'.body = email.body
           \/ email'.body \in BodyKeys => objects'[email'.body] # NoContent,
           \A a \in Attachments : atts'[a].state = "stored" =>
               \/ atts[a].state = "stored" /\ atts'[a].size = atts[a].size
               \/ atts'[a].size = objects'[a]
    PROVE  RowsMatchObjects'
<1>1. email'.body \in BodyKeys => objects'[email'.body] # NoContent
  <2>1. CASE email'.body = email.body
    BY <2>1 DEF IInv, RowsMatchObjects, StoreGrows, Keys
  <2>. QED  BY <2>1
<1>2. ASSUME NEW a \in Attachments, atts'[a].state = "stored"
      PROVE  atts'[a].size = objects'[a]
  <2>1. CASE atts[a].state = "stored" /\ atts'[a].size = atts[a].size
    <3>1. atts[a].size = objects[a] /\ atts[a].size \in Contents
      BY <2>1, TypeParts DEF IInv, RowsMatchObjects, RowsTyped
    <3>2. objects[a] # NoContent /\ a \in Keys
      BY <3>1, InboundAssumption DEF Keys
    <3>. QED  BY <2>1, <3>1, <3>2 DEF StoreGrows
  <2>. QED  BY <1>2, <2>1
<1>. QED  BY <1>1, <1>2 DEF RowsMatchObjects

LEMMA TypeNext ==
    ASSUME email' \in EmailType, RowsTyped(atts'), lease' \in LeaseType, StoreGrows,
           acked' \in BOOLEAN, outage' \in BOOLEAN,
           pc' \in [Workers -> Labels], job' \in [Workers -> Jobs]
    PROVE  TypeOK'
  BY DEF TypeOK, EmailType, RowsTyped, LeaseType, States, Labels, StoreGrows

\* A step that leaves the database alone and moves one invocation.
LEMMA StoreStep ==
    ASSUME IInv, dbUnchanged, StoreGrows, UNCHANGED <<acked, outage>>,
           NEW w \in Workers, NEW label \in Labels, NEW j \in Jobs, Goto(w, label, j),
           JobFits(w)' /\ RowsExist(w)' /\ PutBefore(w)' /\ BodyOnce(w)'
    PROVE  IInv'
<1>1. TypeOK
  BY DEF IInv
<1>2. /\ pc' \in [Workers -> Labels] /\ job' \in [Workers -> Jobs]
      /\ \A v \in Workers \ {w} : pc'[v] = pc[v] /\ job'[v] = job[v]
  BY <1>1, GotoGives
<1>3. email' = email /\ atts' = atts /\ lease' = lease /\ acked' = acked /\ outage' = outage
  BY DEF dbUnchanged
<1>4. TypeOK'
  BY <1>1, <1>2, <1>3, TypeParts, TypeNext
<1>5. ASSUME NEW v \in Workers
      PROVE  JobFits(v)' /\ RowsExist(v)' /\ PutBefore(v)' /\ BodyOnce(v)'
  <2>1. CASE v # w
    <3>1. Stays(v) /\ DataGrows /\ (Owned(v)' => Owned(v) /\ email'.body = email.body)
      BY <1>2, <1>3, <2>1 DEF Stays, DataGrows, Owned
    <3>. QED  BY <3>1, OthersKeep
  <2>. QED  BY <2>1
<1>6. RowsMatchObjects'
  BY <1>1, <1>3, TypeParts, RowsKeep
<1>7. LeaseMeansPending'
  BY <1>3 DEF IInv, LeaseMeansPending
<1>. QED  BY <1>4, <1>5, <1>6, <1>7 DEF IInv

\* A step that leaves the objects alone and ends the work of one invocation.
LEMMA EndStep ==
    ASSUME IInv, storeUnchanged, UNCHANGED <<atts, outage>>, acked' \in BOOLEAN,
           NEW w \in Workers, NEW label \in {"idle", "fail"}, Goto(w, label, NoJob),
           email' \in EmailType, email'.body = email.body, lease' \in LeaseType,
           \A v \in Workers \ {w} : Owned(v)' => Owned(v),
           LeaseMeansPending'
    PROVE  IInv'
<1>1. TypeOK /\ (\A v \in Workers : JobFits(v)) /\ label \in Labels
  BY DEF IInv, Labels
<1>2. /\ pc' \in [Workers -> Labels] /\ job' \in [Workers -> Jobs]
      /\ pc'[w] = label /\ job'[w] = NoJob
      /\ \A v \in Workers \ {w} : pc'[v] = pc[v] /\ job'[v] = job[v]
  BY <1>1, NoJobType, GotoGives
<1>3. StoreGrows
  BY <1>1, StoreKept
<1>4. TypeOK'
  BY <1>1, <1>2, <1>3, TypeParts, TypeNext
<1>5. ASSUME NEW v \in Workers
      PROVE  JobFits(v)' /\ RowsExist(v)' /\ PutBefore(v)' /\ BodyOnce(v)'
  <2>1. CASE v # w
    <3>1. Stays(v) /\ DataGrows /\ (Owned(v)' => Owned(v) /\ email'.body = email.body)
      BY <1>2, <2>1 DEF Stays, DataGrows
    <3>. QED  BY <1>3, <3>1, OthersKeep
  <2>2. CASE v = w
    BY <1>2, <2>2, LeftKeeps
  <2>. QED  BY <2>1, <2>2
<1>6. RowsMatchObjects'
  BY <1>1, <1>3, TypeParts, RowsKeep
<1>. QED  BY <1>4, <1>5, <1>6 DEF IInv

-----------------------------------------------------------------------------
(* The actions keep the invariant.                                         *)

LEMMA InitInv == Init => IInv
<1>. SUFFICES ASSUME Init  PROVE  IInv
  OBVIOUS
<1>1. TypeOK
  <2>1. email \in EmailType /\ RowsTyped(atts)
    BY InboundAssumption DEF Init, EmailType, RowsTyped, States, Sizes
  <2>2. lease \in LeaseType
    BY InboundAssumption DEF Init, LeaseType, NoLease
  <2>3. objects \in [Keys -> Sizes] /\ flight \subseteq Keys \X Contents
    BY DEF Init, Sizes
  <2>4. pc \in [Workers -> Labels] /\ job \in [Workers -> Jobs]
    BY NoJobType DEF Init, Labels
  <2>. QED  BY <2>1, <2>2, <2>3, <2>4, TypeParts DEF Init
<1>2. LeaseMeansPending /\ RowsMatchObjects
  BY DEF Init, NoLease, LeaseMeansPending, RowsMatchObjects, BodyKeys
<1>3. ASSUME NEW w \in Workers
      PROVE  JobFits(w) /\ RowsExist(w) /\ PutBefore(w) /\ BodyOnce(w)
  <2>1. pc[w] = "idle" /\ job[w].todo = {}
    BY DEF Init, NoJob
  <2>. QED  BY <2>1 DEF JobFits, RowsExist, PutBefore, BodyOnce, AfterBody, OnAttachment
<1>. QED  BY <1>1, <1>2, <1>3 DEF IInv

\* A claim, by a delivery or a retry.
LEMMA ClaimInv ==
    ASSUME IInv, NEW w \in Workers, NEW rows, RowsTyped(rows),
           \A a \in Attachments : /\ rows[a].size = atts[a].size
                                  /\ atts[a].state # "absent" => rows[a] = atts[a]
                                  /\ rows[a].state = "stored" <=> atts[a].state = "stored",
           claim_on(w, rows), storeUnchanged, UNCHANGED <<acked, outage>>
    PROVE  IInv'
<1>1. TypeOK /\ \A v \in Workers : JobFits(v)
  BY DEF IInv
<1>2. StoreGrows
  BY <1>1, StoreKept
<1>3. TypeOK'
  BY <1>1, <1>2, ClaimGives, TypeNext, TypeParts
<1>4. DataGrows /\ email'.body = email.body
  BY <1>1, ClaimGives DEF DataGrows
<1>5. RowsMatchObjects'
  BY <1>1, <1>2, ClaimGives, RowsKeep
<1>6. LeaseMeansPending'
  BY <1>1, ClaimGives DEF IInv, LeaseMeansPending
<1>7. ASSUME NEW v \in Workers
      PROVE  JobFits(v)' /\ RowsExist(v)' /\ PutBefore(v)' /\ BodyOnce(v)'
  <2>0. v # NoOwner /\ w # NoOwner
    BY InboundAssumption
  <2>1. CASE v = w /\ LeaseFree /\ lease'.owner = w
    <3>1. /\ pc'[w] = IF email.body = "none" THEN "body" ELSE "list"
          /\ \A a \in job'[w].todo : atts'[a].state # "absent"
          /\ JobFits(w)'
      BY <1>1, <2>0, <2>1, ClaimGives
    <3>2. PutBefore(w)' /\ BodyOnce(w)'
      BY <1>4, <3>1 DEF PutBefore, BodyOnce, AfterBody
    <3>. QED  BY <2>1, <3>1, <3>2 DEF RowsExist
  <2>2. CASE ~(v = w /\ LeaseFree /\ lease'.owner = w)
    <3>1. Stays(v)
      BY <1>1, <2>2, ClaimGives DEF Stays
    <3>2. Owned(v)' => Owned(v)
      BY <1>1, <2>0, <2>2, ClaimGives DEF Owned
    <3>. QED  BY <1>2, <1>4, <3>1, <3>2, OthersKeep
  <2>. QED  BY <2>1, <2>2
<1>. QED  BY <1>3, <1>5, <1>6, <1>7 DEF IInv

LEMMA DeliverInv ==
    ASSUME IInv, NEW w \in Workers, NEW ann \in Announcements, claim_webhook(w, ann)
    PROVE  IInv'
<1>1. TypeOK
  BY DEF IInv
<1>. DEFINE rows == upsert_attachment(ann)
<1>2. /\ RowsTyped(rows)
      /\ \A a \in Attachments : /\ rows[a].size = atts[a].size
                                /\ atts[a].state # "absent" => rows[a] = atts[a]
                                /\ rows[a].state = "stored" <=> atts[a].state = "stored"
  BY <1>1, UpsertRows
<1>. HIDE DEF rows
<1>3. CASE email.state = "stored"
  <2>1. /\ atts' = rows /\ acked' = TRUE /\ storeUnchanged /\ outage' = outage
        /\ email' = email /\ lease' = lease /\ pc' = pc /\ job' = job
    BY <1>3 DEF claim_webhook, rows
  <2>2. StoreGrows
    BY <1>1, <2>1, StoreKept
  <2>3. TypeOK'
    BY <1>1, <1>2, <2>1, <2>2, TypeParts, TypeNext
  <2>4. DataGrows
    BY <1>2, <2>1 DEF DataGrows
  <2>5. RowsMatchObjects'
    BY <1>1, <1>2, <2>1, <2>2, TypeParts, RowsKeep
  <2>6. LeaseMeansPending'
    BY <2>1 DEF IInv, LeaseMeansPending
  <2>7. ASSUME NEW v \in Workers
        PROVE  JobFits(v)' /\ RowsExist(v)' /\ PutBefore(v)' /\ BodyOnce(v)'
    <3>1. Stays(v) /\ (Owned(v)' => Owned(v) /\ email'.body = email.body)
      BY <2>1 DEF Stays, Owned
    <3>. QED  BY <2>2, <2>4, <3>1, OthersKeep
  <2>. QED  BY <2>3, <2>5, <2>6, <2>7 DEF IInv
<1>4. CASE email.state # "stored"
  <2>1. claim_on(w, rows) /\ storeUnchanged /\ UNCHANGED <<acked, outage>>
    BY <1>4 DEF claim_webhook, rows
  <2>. QED  BY <1>2, <2>1, ClaimInv
<1>. QED  BY <1>3, <1>4

LEMMA RetryInv ==
    ASSUME IInv, NEW w \in Workers, claim_retry(w)
    PROVE  IInv'
<1>1. RowsTyped(atts)
  BY TypeParts DEF IInv
<1>2. claim_on(w, atts) /\ storeUnchanged /\ UNCHANGED <<acked, outage>>
  BY DEF claim_retry
<1>. QED  BY <1>1, <1>2, ClaimInv

\* An invocation that gives up without touching the database.
LEMMA GiveUpInv ==
    ASSUME IInv, dbUnchanged, StoreGrows, UNCHANGED <<acked, outage>>,
           NEW w \in Workers, GotoFail(w)
    PROVE  IInv'
<1>1. TypeOK /\ "fail" \in Labels /\ Goto(w, "fail", NoJob)
  BY DEF IInv, Labels, GotoFail
<1>2. pc'[w] = "fail" /\ job'[w] = NoJob
  BY <1>1, NoJobType, GotoGives
<1>3. JobFits(w)' /\ RowsExist(w)' /\ PutBefore(w)' /\ BodyOnce(w)'
  BY <1>2, LeftKeeps
<1>. QED  BY <1>1, <1>3, NoJobType, StoreStep

\* An invocation that could not handle an attachment.
LEMMA MarkErrorInv ==
    ASSUME IInv, dbUnchanged, StoreGrows, UNCHANGED <<acked, outage>>,
           NEW w \in Workers, pc[w] \in OnAttachment, Goto(w, "markerror", job[w])
    PROVE  IInv'
<1>1. /\ TypeOK /\ "markerror" \in Labels /\ job[w] \in Jobs
      /\ JobFits(w) /\ RowsExist(w) /\ BodyOnce(w)
  BY TypeParts DEF IInv, Labels, Processing
<1>2. pc'[w] = "markerror" /\ job'[w] = job[w]
  BY <1>1, GotoGives
<1>3. job[w].key \in job[w].todo /\ email.body # "none"
  BY <1>1 DEF JobFits, BodyOnce, OnAttachment, AfterBody
<1>4. email' = email /\ atts' = atts
  BY DEF dbUnchanged
<1>5. JobFits(w)' /\ PutBefore(w)'
  BY <1>2, <1>3 DEF JobFits, PutBefore, OnAttachment
<1>6. RowsExist(w)'
  BY <1>1, <1>2, <1>4 DEF RowsExist
<1>7. BodyOnce(w)'
  BY <1>2, <1>3, <1>4 DEF BodyOnce
<1>. QED  BY <1>1, <1>5, <1>6, <1>7, StoreStep

LEMMA PutBodyInv ==
    ASSUME IInv, NEW w \in Workers, put_body(w)
    PROVE  IInv'
<1>1. PICK kind \in BodyKinds :
        \/ /\ kind = "empty" /\ storeUnchanged
           /\ Goto(w, "record", [job[w] EXCEPT !.body = kind])
        \/ /\ kind # "empty"
           /\ \E c \in Contents :
                 put_if_absent(w, kind, c, Goto(w, "record", [job[w] EXCEPT !.body = kind]),
                               GotoFail(w))
  BY DEF put_body
<1>2. /\ pc[w] = "body" /\ dbUnchanged /\ UNCHANGED <<acked, outage>>
      /\ email' = email /\ atts' = atts /\ lease' = lease
  BY DEF put_body, dbUnchanged
<1>3. /\ TypeOK /\ "record" \in Labels /\ job[w] \in Jobs
      /\ JobFits(w) /\ RowsExist(w) /\ BodyOnce(w)
      /\ kind \in BodyKeys \cup {"empty"}
  BY TypeParts, InboundAssumption DEF IInv, Labels, Processing
<1>. DEFINE j == [job[w] EXCEPT !.body = kind]
<1>4. j \in Jobs /\ j.body = kind /\ j.todo = job[w].todo
  BY <1>3 DEF Jobs
<1>. HIDE DEF j
<1>5. ASSUME Goto(w, "record", j), StoreGrows,
             kind # "empty" => objects'[kind] # NoContent
      PROVE  IInv'
  <2>1. pc'[w] = "record" /\ job'[w] = j
    BY <1>3, <1>4, <1>5, GotoGives
  <2>2. JobFits(w)' /\ PutBefore(w)'
    BY <1>3, <1>4, <1>5, <2>1 DEF JobFits, PutBefore, OnAttachment
  <2>3. RowsExist(w)'
    BY <1>2, <1>3, <1>4, <2>1 DEF RowsExist
  <2>4. BodyOnce(w)'
    BY <1>2, <1>3, <2>1 DEF BodyOnce, AfterBody, Owned
  <2>. QED  BY <1>2, <1>3, <1>4, <1>5, <2>2, <2>3, <2>4, StoreStep
<1>6. CASE kind = "empty" /\ storeUnchanged /\ Goto(w, "record", j)
  BY <1>3, <1>5, <1>6, StoreKept
<1>7. ASSUME NEW c \in Contents, kind # "empty",
             put_if_absent(w, kind, c, Goto(w, "record", j), GotoFail(w))
      PROVE  IInv'
  <2>1. kind \in Keys /\ c # NoContent
    BY <1>3, <1>7, InboundAssumption DEF Keys
  <2>2. StoreGrows
    BY <1>3, <1>7, <2>1, PutGrows DEF put_if_absent
  <2>3. CASE Goto(w, "record", j) /\ objects' = Created(kind, c)
    BY <1>3, <1>5, <2>1, <2>2, <2>3, CreatedGives
  <2>4. CASE GotoFail(w)
    BY <1>2, <2>2, <2>4, GiveUpInv
  <2>. QED  BY <1>7, <2>3, <2>4 DEF put_if_absent
<1>. QED  BY <1>1, <1>6, <1>7 DEF j

LEMMA RecordInv ==
    ASSUME IInv, NEW w \in Workers, record_body(w)
    PROVE  IInv'
<1>1. /\ pc[w] = "record" /\ storeUnchanged
      /\ atts' = atts /\ lease' = lease /\ acked' = acked /\ outage' = outage
  BY DEF record_body
<1>2. /\ TypeOK /\ job[w] \in Jobs /\ email \in EmailType
      /\ JobFits(w) /\ RowsExist(w) /\ PutBefore(w)
  BY TypeParts DEF IInv
<1>3. StoreGrows
  BY <1>1, <1>2, StoreKept
<1>4. CASE Owned(w) /\ email.state = "pending"
  <2>. DEFINE j == [job[w] EXCEPT !.body = "none"]
  <2>1. email' = [email EXCEPT !.body = job[w].body]
    BY <1>4 DEF record_body
  <2>2. job[w].body \in BodyKeys \cup {"empty"}
    BY <1>1, <1>2 DEF JobFits
  <2>3. /\ email' \in EmailType /\ email'.body = job[w].body
        /\ email'.state = email.state /\ email'.body # "none"
    BY <1>2, <2>1, <2>2 DEF EmailType, BodyKeys
  <2>4. PICK label \in {"list", "fail"}, i \in {j, NoJob} :
          Goto(w, label, i) /\ (label = "fail" => i = NoJob)
    BY <1>4 DEF record_body, GotoFail
  <2>5. j \in Jobs /\ j.todo = job[w].todo
    BY <1>2 DEF Jobs
  <2>. HIDE DEF j
  <2>6. label \in Labels /\ i \in Jobs /\ i.todo \in {job[w].todo, {}}
    BY <2>5, NoJobType DEF Labels, Processing, NoJob
  <2>7. /\ pc' \in [Workers -> Labels] /\ job' \in [Workers -> Jobs]
        /\ pc'[w] = label /\ job'[w] = i
        /\ \A v \in Workers \ {w} : pc'[v] = pc[v] /\ job'[v] = job[v]
    BY <1>2, <2>4, <2>6, GotoGives
  <2>8. TypeOK'
    BY <1>1, <1>2, <1>3, <2>3, <2>7, TypeParts, TypeNext
  <2>9. DataGrows
    BY <1>1, <2>3 DEF DataGrows
  <2>10. RowsMatchObjects'
    <3>1. email'.body \in BodyKeys => objects'[email'.body] # NoContent
      BY <1>1, <1>2, <1>3, <2>3 DEF PutBefore, StoreGrows, BodyKeys, Keys
    <3>. QED  BY <1>1, <1>2, <1>3, <2>3, <3>1, TypeParts, RowsKeep
  <2>11. LeaseMeansPending'
    BY <1>1, <1>4, <2>3 DEF LeaseMeansPending
  <2>12. ASSUME NEW v \in Workers
         PROVE  JobFits(v)' /\ RowsExist(v)' /\ PutBefore(v)' /\ BodyOnce(v)'
    <3>1. CASE v # w
      <4>1. Stays(v) /\ ~Owned(v)'
        BY <1>1, <1>4, <2>7, <3>1 DEF Stays, Owned
      <4>. QED  BY <1>3, <2>9, <4>1, OthersKeep
    <3>2. CASE v = w
      <4>1. pc'[w] \in {"list", "fail"}
        BY <2>7
      <4>2. JobFits(w)' /\ PutBefore(w)' /\ BodyOnce(w)'
        BY <2>3, <4>1 DEF JobFits, PutBefore, BodyOnce, OnAttachment
      <4>3. RowsExist(w)'
        BY <1>1, <1>2, <2>6, <2>7 DEF RowsExist
      <4>. QED  BY <3>2, <4>2, <4>3
    <3>. QED  BY <3>1, <3>2
  <2>. QED  BY <2>8, <2>10, <2>11, <2>12 DEF IInv
<1>5. CASE ~(Owned(w) /\ email.state = "pending")
  <2>1. GotoFail(w) /\ dbUnchanged
    BY <1>1, <1>5 DEF record_body, dbUnchanged
  <2>. QED  BY <1>1, <1>3, <2>1, GiveUpInv
<1>. QED  BY <1>4, <1>5

\* An invocation goes on with the next attachment, or to the end.
LEMMA NextKeeps ==
    ASSUME IInv, NEW w \in Workers, pc[w] \in AfterBody, StoreGrows, DataGrows,
           NEW todo \in SUBSET job[w].todo, NextAttachment(w, todo)
    PROVE  /\ pc' \in [Workers -> Labels] /\ job' \in [Workers -> Jobs]
           /\ \A v \in Workers \ {w} : Stays(v)
           /\ JobFits(w)' /\ RowsExist(w)' /\ PutBefore(w)' /\ BodyOnce(w)'
<1>1. /\ TypeOK /\ job[w] \in Jobs /\ (\A v \in Workers : JobFits(v))
      /\ RowsExist(w) /\ BodyOnce(w)
  BY TypeParts DEF IInv
<1>2. todo \in SUBSET Attachments
  BY <1>1, JobTypes
<1>3. /\ pc' \in [Workers -> Labels] /\ job' \in [Workers -> Jobs]
      /\ \A v \in Workers : JobFits(v)'
      /\ pc'[w] \in {"complete", "store"} /\ job'[w].todo = todo
      /\ \A v \in Workers \ {w} : pc'[v] = pc[v] /\ job'[v] = job[v]
  BY <1>1, <1>2, NextFits
<1>4. RowsExist(w)'
  BY <1>1, <1>2, <1>3 DEF RowsExist, DataGrows
<1>5. PutBefore(w)' /\ BodyOnce(w)'
  BY <1>1, <1>3 DEF PutBefore, BodyOnce, DataGrows
<1>. QED  BY <1>3, <1>4, <1>5 DEF Stays

LEMMA ListInv ==
    ASSUME IInv, NEW w \in Workers, list_attachments(w)
    PROVE  IInv'
<1>1. /\ pc[w] = "list" /\ NextAttachment(w, job[w].todo) /\ storeUnchanged
      /\ email' = email /\ atts' = atts /\ lease' = lease
      /\ acked' = acked /\ outage' = outage
  BY DEF list_attachments, dbUnchanged
<1>2. TypeOK
  BY DEF IInv
<1>3. StoreGrows /\ DataGrows
  BY <1>1, <1>2, StoreKept DEF DataGrows
<1>4. pc[w] \in AfterBody
  BY <1>1 DEF AfterBody
<1>5. /\ pc' \in [Workers -> Labels] /\ job' \in [Workers -> Jobs]
      /\ \A v \in Workers \ {w} : Stays(v)
      /\ JobFits(w)' /\ RowsExist(w)' /\ PutBefore(w)' /\ BodyOnce(w)'
  BY <1>1, <1>3, <1>4, NextKeeps
<1>6. TypeOK'
  BY <1>1, <1>2, <1>3, <1>5, TypeParts, TypeNext
<1>7. \A v \in Workers : JobFits(v)' /\ RowsExist(v)' /\ PutBefore(v)' /\ BodyOnce(v)'
  BY <1>1, <1>3, <1>5, OthersKeep DEF Owned
<1>8. RowsMatchObjects'
  BY <1>1, <1>2, <1>3, TypeParts, RowsKeep
<1>9. LeaseMeansPending'
  BY <1>1 DEF IInv, LeaseMeansPending
<1>. QED  BY <1>6, <1>7, <1>8, <1>9 DEF IInv

LEMMA StoreInv ==
    ASSUME IInv, NEW w \in Workers, store_attachment(w)
    PROVE  IInv'
<1>1. /\ TypeOK /\ job[w] \in Jobs /\ "mark" \in Labels
      /\ JobFits(w) /\ RowsExist(w) /\ BodyOnce(w)
  BY TypeParts DEF IInv, Labels, Processing
<1>2. /\ pc[w] = "store" /\ dbUnchanged /\ UNCHANGED <<acked, outage>>
      /\ email' = email /\ atts' = atts /\ lease' = lease
  BY DEF store_attachment, dbUnchanged
<1>3. PICK c \in Contents :
        put_if_absent(w, job[w].key, c, Goto(w, "mark", [job[w] EXCEPT !.got = c]),
                      Goto(w, "markerror", job[w]))
  BY DEF store_attachment
<1>4. job[w].key \in Keys /\ job[w].key \in job[w].todo /\ email.body # "none"
  BY <1>1, <1>2, JobTypes DEF JobFits, BodyOnce, OnAttachment, AfterBody
<1>5. StoreGrows
  BY <1>1, <1>3, <1>4, PutGrows DEF put_if_absent
<1>. DEFINE j == [job[w] EXCEPT !.got = c]
<1>6. j \in Jobs /\ j.todo = job[w].todo /\ j.key = job[w].key /\ j.got = c
  BY <1>1 DEF Jobs, Sizes
<1>. HIDE DEF j
<1>7. CASE Goto(w, "mark", j) /\ objects'[job[w].key] = c
  <2>1. pc'[w] = "mark" /\ job'[w] = j
    BY <1>1, <1>6, <1>7, GotoGives
  <2>2. JobFits(w)' /\ PutBefore(w)'
    BY <1>4, <1>6, <1>7, <2>1 DEF JobFits, PutBefore
  <2>3. RowsExist(w)'
    BY <1>1, <1>2, <1>6, <2>1 DEF RowsExist
  <2>4. BodyOnce(w)'
    BY <1>2, <1>4, <2>1 DEF BodyOnce
  <2>. QED  BY <1>1, <1>2, <1>5, <1>6, <1>7, <2>2, <2>3, <2>4, StoreStep
<1>8. CASE Goto(w, "markerror", job[w])
  BY <1>2, <1>5, <1>8, MarkErrorInv DEF OnAttachment
<1>. QED  BY <1>3, <1>7, <1>8 DEF put_if_absent, j

LEMMA MarkInv ==
    ASSUME IInv, NEW w \in Workers, mark_attachment_stored(w)
    PROVE  IInv'
<1>. DEFINE a == job[w].key
            c == job[w].got
<1>1. /\ pc[w] = "mark" /\ storeUnchanged
      /\ email' = email /\ lease' = lease /\ acked' = acked /\ outage' = outage
  BY DEF mark_attachment_stored
<1>2. /\ TypeOK /\ job[w] \in Jobs /\ "markerror" \in Labels /\ RowsTyped(atts)
      /\ JobFits(w) /\ RowsExist(w) /\ PutBefore(w) /\ BodyOnce(w)
  BY TypeParts DEF IInv, Labels, Processing
<1>3. /\ a \in Attachments /\ a \in job[w].todo /\ c \in Contents /\ objects[a] = c
      /\ pc[w] \in AfterBody /\ email.body # "none"
  BY <1>1, <1>2, JobTypes DEF JobFits, PutBefore, BodyOnce, OnAttachment, AfterBody
<1>4. StoreGrows
  BY <1>1, <1>2, StoreKept
<1>5. CASE Owned(w) /\ (atts[a].state # "stored" \/ atts[a].size = c)
  <2>1. /\ atts' = [atts EXCEPT ![a] = [state |-> "stored", size |-> c]]
        /\ \/ NextAttachment(w, job[w].todo \ {a})
           \/ Goto(w, "markerror", job[w])
    BY <1>5 DEF mark_attachment_stored
  <2>. HIDE DEF a, c
  <2>2. RowsTyped(atts')
    BY <1>2, <1>3, <2>1 DEF RowsTyped, States, Sizes
  <2>3. /\ \A b \in Attachments \ {a} : atts'[b] = atts[b]
        /\ atts'[a].state = "stored" /\ atts'[a].size = c
    BY <1>2, <1>3, <2>1 DEF RowsTyped
  <2>4. DataGrows
    BY <1>1, <2>3 DEF DataGrows
  <2>5. RowsMatchObjects'
    BY <1>1, <1>2, <1>3, <1>4, <2>2, <2>3, TypeParts, RowsKeep DEF storeUnchanged
  <2>6. LeaseMeansPending'
    BY <1>1 DEF IInv, LeaseMeansPending
  <2>7. /\ pc' \in [Workers -> Labels] /\ job' \in [Workers -> Jobs]
        /\ \A v \in Workers \ {w} : Stays(v)
        /\ JobFits(w)' /\ RowsExist(w)' /\ PutBefore(w)' /\ BodyOnce(w)'
    <3>1. CASE NextAttachment(w, job[w].todo \ {a})
      BY <1>3, <1>4, <2>4, <3>1, NextKeeps
    <3>2. CASE Goto(w, "markerror", job[w])
      <4>1. /\ pc' \in [Workers -> Labels] /\ job' \in [Workers -> Jobs]
            /\ pc'[w] = "markerror" /\ job'[w] = job[w]
            /\ \A v \in Workers \ {w} : pc'[v] = pc[v] /\ job'[v] = job[v]
        BY <1>2, <3>2, GotoGives
      <4>2. JobFits(w)' /\ PutBefore(w)' /\ BodyOnce(w)'
        BY <1>1, <1>3, <4>1 DEF JobFits, PutBefore, BodyOnce, a
      <4>3. RowsExist(w)'
        BY <1>2, <2>4, <4>1, JobTypes DEF RowsExist, DataGrows
      <4>. QED  BY <4>1, <4>2, <4>3 DEF Stays
    <3>. QED  BY <2>1, <3>1, <3>2
  <2>8. TypeOK'
    BY <1>1, <1>2, <1>4, <2>2, <2>7, TypeParts, TypeNext
  <2>9. \A v \in Workers : JobFits(v)' /\ RowsExist(v)' /\ PutBefore(v)' /\ BodyOnce(v)'
    BY <1>1, <1>4, <2>4, <2>7, OthersKeep DEF Owned
  <2>. QED  BY <2>5, <2>6, <2>8, <2>9 DEF IInv
<1>6. CASE ~(Owned(w) /\ (atts[a].state # "stored" \/ atts[a].size = c))
  <2>1. dbUnchanged /\ Goto(w, "markerror", job[w])
    BY <1>1, <1>6 DEF mark_attachment_stored, dbUnchanged
  <2>. QED  BY <1>1, <1>4, <2>1, MarkErrorInv DEF OnAttachment
<1>. QED  BY <1>5, <1>6

LEMMA ErrorInv ==
    ASSUME IInv, NEW w \in Workers, mark_attachment_error(w)
    PROVE  IInv'
<1>. DEFINE a == job[w].key
<1>1. /\ pc[w] = "markerror" /\ storeUnchanged /\ Goto(w, "fail", NoJob)
      /\ email' = email /\ lease' = lease /\ acked' = acked /\ outage' = outage
      /\ atts' = atts \/ /\ atts[a].state = "pending"
                         /\ atts' = [atts EXCEPT ![a] = [@ EXCEPT !.state = "error"]]
  BY DEF mark_attachment_error, GotoFail
<1>2. /\ TypeOK /\ job[w] \in Jobs /\ "fail" \in Labels /\ RowsTyped(atts) /\ JobFits(w)
  BY TypeParts DEF IInv, Labels
<1>3. a \in Attachments
  BY <1>1, <1>2, JobTypes DEF JobFits, OnAttachment
<1>. HIDE DEF a
<1>4. /\ RowsTyped(atts')
      /\ \A b \in Attachments :
            /\ atts[b].state # "absent" => atts'[b].state # "absent"
            /\ atts'[b].state = "stored" => atts'[b] = atts[b]
  BY <1>1, <1>2, <1>3 DEF RowsTyped, States
<1>5. StoreGrows /\ DataGrows
  BY <1>1, <1>2, <1>4, StoreKept DEF DataGrows
<1>6. /\ pc' \in [Workers -> Labels] /\ job' \in [Workers -> Jobs]
      /\ pc'[w] = "fail" /\ job'[w] = NoJob
      /\ \A v \in Workers \ {w} : pc'[v] = pc[v] /\ job'[v] = job[v]
  BY <1>1, <1>2, NoJobType, GotoGives
<1>7. TypeOK'
  BY <1>1, <1>2, <1>4, <1>5, <1>6, TypeParts, TypeNext
<1>8. ASSUME NEW v \in Workers
      PROVE  JobFits(v)' /\ RowsExist(v)' /\ PutBefore(v)' /\ BodyOnce(v)'
  <2>1. CASE v # w
    BY <1>1, <1>5, <1>6, <2>1, OthersKeep DEF Owned, Stays
  <2>2. CASE v = w
    BY <1>6, <2>2, LeftKeeps
  <2>. QED  BY <2>1, <2>2
<1>9. RowsMatchObjects'
  BY <1>1, <1>2, <1>4, <1>5, TypeParts, RowsKeep
<1>10. LeaseMeansPending'
  BY <1>1 DEF IInv, LeaseMeansPending
<1>. QED  BY <1>7, <1>8, <1>9, <1>10 DEF IInv

LEMMA CompleteInv ==
    ASSUME IInv, NEW w \in Workers, complete(w)
    PROVE  IInv'
<1>1. TypeOK /\ email \in EmailType /\ acked \in BOOLEAN
  BY TypeParts DEF IInv
<1>2. CASE Owned(w) /\ Incomplete(atts) = {} /\ email.state = "pending"
  <2>1. /\ email' = [email EXCEPT !.state = "stored"] /\ lease' = NoLease
        /\ storeUnchanged /\ UNCHANGED <<atts, outage>>
        /\ acked' \in BOOLEAN
    BY <1>1, <1>2 DEF complete
  <2>2. PICK label \in {"idle", "fail"} : Goto(w, label, NoJob)
    BY <1>2 DEF complete, Leave, GotoFail
  <2>3. email' \in EmailType /\ email'.body = email.body
    BY <1>1, <2>1 DEF EmailType, States
  <2>4. lease' \in LeaseType /\ ~lease'.held
    BY <2>1, InboundAssumption DEF LeaseType, NoLease
  <2>5. LeaseMeansPending' /\ \A v \in Workers \ {w} : Owned(v)' => Owned(v)
    BY <2>4 DEF LeaseMeansPending, Owned
  <2>. QED  BY <2>1, <2>2, <2>3, <2>4, <2>5, EndStep
<1>3. CASE ~(Owned(w) /\ Incomplete(atts) = {} /\ email.state = "pending")
  <2>1. GotoFail(w) /\ dbUnchanged /\ storeUnchanged /\ UNCHANGED <<acked, outage>>
    BY <1>3 DEF complete, dbUnchanged
  <2>. QED  BY <1>1, <2>1, StoreKept, GiveUpInv
<1>. QED  BY <1>2, <1>3

LEMMA StepFailsInv ==
    ASSUME IInv, NEW w \in Workers, StepFails(w)
    PROVE  IInv'
<1>1. /\ TypeOK /\ dbUnchanged /\ storeUnchanged /\ UNCHANGED <<acked, outage>>
      /\ \/ GotoFail(w)
         \/ pc[w] \in {"store", "mark"} /\ Goto(w, "markerror", job[w])
  BY DEF IInv, StepFails
<1>2. StoreGrows
  BY <1>1, StoreKept
<1>. QED  BY <1>1, <1>2, GiveUpInv, MarkErrorInv DEF OnAttachment

LEMMA TimeoutInv ==
    ASSUME IInv, NEW w \in Workers, Timeout(w)
    PROVE  IInv'
<1>1. /\ TypeOK /\ dbUnchanged /\ GotoFail(w) /\ UNCHANGED <<objects, acked, outage>>
      /\ job[w].key \in Keys
  BY TypeParts, JobTypes DEF IInv, Timeout
<1>2. \/ UNCHANGED flight
      \/ \E k \in Keys, c \in Contents : flight' = flight \cup {<<k, c>>}
  BY <1>1, InboundAssumption DEF Timeout, Keys
<1>3. StoreGrows
  <2>1. CASE UNCHANGED flight
    BY <1>1, <2>1, StoreKept DEF storeUnchanged
  <2>. QED  BY <1>1, <1>2, <2>1, PutGrows
<1>. QED  BY <1>1, <1>3, GiveUpInv

\* The lease of an invocation that is gone.
LEMMA OrphanedGives ==
    ASSUME TypeOK, NEW w \in Workers, lease' = Orphaned(lease, w)
    PROVE  /\ lease' \in LeaseType /\ lease'.held = lease.held /\ lease'.age = lease.age
           /\ lease'.owner = IF lease.owner = w THEN NoOwner ELSE lease.owner
  BY TypeParts DEF Orphaned, LeaseType

LEMMA FailInv ==
    ASSUME IInv, NEW w \in Workers, fail(w)
    PROVE  IInv'
<1>1. /\ TypeOK /\ email \in EmailType /\ acked' \in BOOLEAN
      /\ storeUnchanged /\ UNCHANGED <<atts, outage>> /\ Goto(w, "idle", NoJob)
  BY TypeParts DEF IInv, fail, Leave
<1>2. CASE email' = [email EXCEPT !.state = "error"] /\ lease' = NoLease
  <2>1. email' \in EmailType /\ email'.body = email.body
    BY <1>1, <1>2 DEF EmailType, States
  <2>2. lease' \in LeaseType /\ ~lease'.held
    BY <1>2, InboundAssumption DEF LeaseType, NoLease
  <2>3. LeaseMeansPending' /\ \A v \in Workers \ {w} : Owned(v)' => Owned(v)
    BY <2>2 DEF LeaseMeansPending, Owned
  <2>. QED  BY <1>1, <2>1, <2>2, <2>3, EndStep
<1>3. CASE email' = email /\ lease' = Orphaned(lease, w)
  <2>1. LeaseMeansPending'
    BY <1>1, <1>3, OrphanedGives DEF IInv, LeaseMeansPending
  <2>2. \A v \in Workers \ {w} : Owned(v)' => Owned(v)
    BY <1>1, <1>3, OrphanedGives, InboundAssumption DEF Owned
  <2>. QED  BY <1>1, <1>3, <2>1, <2>2, OrphanedGives, EndStep
<1>. QED  BY <1>2, <1>3 DEF fail

LEMMA KillInv ==
    ASSUME IInv, NEW w \in Workers, Kill(w)
    PROVE  IInv'
<1>1. /\ TypeOK /\ email \in EmailType /\ acked' \in BOOLEAN /\ email' = email
      /\ storeUnchanged /\ UNCHANGED <<atts, outage>> /\ Goto(w, "idle", NoJob)
      /\ lease' = Orphaned(lease, w)
  BY TypeParts DEF IInv, Kill, Leave
<1>2. LeaseMeansPending'
  BY <1>1, OrphanedGives DEF IInv, LeaseMeansPending
<1>3. \A v \in Workers \ {w} : Owned(v)' => Owned(v)
  BY <1>1, OrphanedGives, InboundAssumption DEF Owned
<1>. QED  BY <1>1, <1>2, <1>3, OrphanedGives, EndStep

\* A step of the environment: the rows stay, and every invocation stays where
\* it is.
LEMMA EnvironmentStep ==
    ASSUME IInv, StoreGrows, UNCHANGED <<email, atts, acked>>, outage' \in BOOLEAN,
           lease' \in LeaseType, lease'.held = lease.held, lease'.owner = lease.owner,
           pc' \in [Workers -> Labels], job' \in [Workers -> Jobs],
           \A v \in Workers : Stays(v)
    PROVE  IInv'
<1>1. TypeOK /\ LeaseMeansPending
  BY DEF IInv
<1>2. TypeOK'
  BY <1>1, TypeParts, TypeNext
<1>3. \A v \in Workers : Owned(v)' => Owned(v)
  BY DEF Owned
<1>4. DataGrows /\ LeaseMeansPending'
  BY <1>1 DEF DataGrows, LeaseMeansPending
<1>5. \A v \in Workers : JobFits(v)' /\ RowsExist(v)' /\ PutBefore(v)' /\ BodyOnce(v)'
  BY <1>3, <1>4, OthersKeep
<1>6. RowsMatchObjects'
  BY <1>1, TypeParts, RowsKeep
<1>. QED  BY <1>2, <1>4, <1>5, <1>6 DEF IInv

LEMMA LandInv == ASSUME IInv, Land  PROVE  IInv'
<1>1. TypeOK
  BY DEF IInv
<1>2. PICK p \in flight : /\ flight' = flight \ {p}
                          /\ objects' = Created(p[1], p[2]) \/ UNCHANGED objects
  BY DEF Land
<1>3. /\ p[1] \in Keys /\ p[2] \in Contents /\ flight' \subseteq Keys \X Contents
      /\ objects \in [Keys -> Sizes]
  BY <1>1, <1>2, TypeParts
<1>4. StoreGrows
  BY <1>1, <1>2, <1>3, CreatedGives DEF StoreGrows
<1>5. /\ UNCHANGED <<email, atts, lease, acked, outage, pc, job>>
      /\ \A v \in Workers : Stays(v)
  BY DEF Land, dbUnchanged, Stays
<1>. QED  BY <1>1, <1>4, <1>5, TypeParts, EnvironmentStep

LEMMA HealInv == ASSUME IInv, Heal  PROVE  IInv'
<1>1. /\ TypeOK /\ UNCHANGED <<email, atts, lease, acked, pc, job>> /\ storeUnchanged
      /\ outage' = FALSE /\ \A v \in Workers : Stays(v)
  BY DEF IInv, Heal, dbUnchanged, Stays
<1>. QED  BY <1>1, StoreKept, TypeParts, EnvironmentStep

\* What time does to the lease and to the claims that are worked on.
LEMMA TickGives ==
    ASSUME TypeOK, Tick
    PROVE  /\ lease' \in LeaseType /\ lease'.held = lease.held /\ lease'.owner = lease.owner
           /\ lease'.age <= lease.age + 1
           /\ job' \in [Workers -> Jobs]
           /\ \A v \in Workers :
                 /\ Stays(v)
                 /\ pc[v] \in Processing => job'[v].age = job[v].age + 1
<1>1. lease \in LeaseType /\ job \in [Workers -> Jobs] /\ LeaseStale \in Nat /\ MaxProcessing \in Nat
  BY TypeParts, InboundAssumption
<1>2. /\ lease' \in LeaseType /\ lease'.held = lease.held /\ lease'.owner = lease.owner
      /\ lease'.age <= lease.age + 1
  BY <1>1 DEF Tick, Older, LeaseType
<1>3. ASSUME NEW v \in Workers
      PROVE  /\ job'[v] \in Jobs /\ Stays(v)
             /\ pc[v] \in Processing => job'[v].age = job[v].age + 1
  <2>1. /\ job[v] \in Jobs /\ job[v].age \in 0..MaxProcessing /\ pc' = pc
        /\ job'[v] = IF pc[v] \in Processing
                     THEN [job[v] EXCEPT !.age = Older(@, MaxProcessing)] ELSE job[v]
        /\ pc[v] \in Processing => job[v].age < MaxProcessing
    BY <1>1, JobTypes DEF Tick
  <2>2. Older(job[v].age, MaxProcessing) \in 0..MaxProcessing
    BY <1>1, <2>1 DEF Older
  <2>3. pc[v] \in Processing => Older(job[v].age, MaxProcessing) = job[v].age + 1
    BY <2>1 DEF Older
  <2>. QED  BY <2>1, <2>2, <2>3 DEF Jobs, Stays
<1>4. job' \in [Workers -> Jobs]
  BY <1>3 DEF Tick
<1>. QED  BY <1>2, <1>3, <1>4

LEMMA TickInv == ASSUME IInv, Tick  PROVE  IInv'
<1>1. /\ TypeOK /\ storeUnchanged /\ UNCHANGED <<email, atts, acked, outage, pc>>
  BY DEF IInv, Tick
<1>. QED  BY <1>1, StoreKept, TypeParts, TickGives, EnvironmentStep

LEMMA IdleInv == ASSUME IInv, UNCHANGED vars  PROVE  IInv'
<1>1. /\ TypeOK /\ UNCHANGED <<email, atts, lease, acked, pc, job, outage>> /\ storeUnchanged
      /\ \A v \in Workers : Stays(v)
  BY DEF IInv, vars, storeUnchanged, Stays
<1>. QED  BY <1>1, StoreKept, TypeParts, EnvironmentStep

LEMMA NextInv == IInv /\ [Next]_vars => IInv'
<1>. SUFFICES ASSUME IInv, [Next]_vars  PROVE  IInv'
  OBVIOUS
<1>1. ASSUME NEW w \in Workers, Deliver(w) \/ claim_retry(w)  PROVE  IInv'
  BY <1>1, DeliverInv, RetryInv DEF Deliver
<1>2. ASSUME NEW w \in Workers, Work(w)  PROVE  IInv'
  BY <1>2, PutBodyInv, RecordInv, ListInv, StoreInv, MarkInv, ErrorInv, CompleteInv,
     FailInv DEF Work
<1>3. ASSUME NEW w \in Workers, Trouble(w)  PROVE  IInv'
  BY <1>3, StepFailsInv, TimeoutInv, KillInv DEF Trouble
<1>. QED  BY <1>1, <1>2, <1>3, LandInv, HealInv, TickInv, IdleInv DEF Next

\* The inductive invariant of the lease protocol: rows and objects agree, what an
\* invocation is about to record has been put, and an owner that comes to record
\* the body is the first one.
THEOREM InboundInvariant == Spec => []IInv
  BY InitInv, NextInv, PTL DEF Spec

\* Columns, objects, requests on their way and invocations keep their types, and
\* size_bytes is set exactly on stored attachments, however many invocations
\* handle however many deliveries.
THEOREM InboundTypes == Spec => []TypeOK
<1>1. IInv => TypeOK
  BY DEF IInv
<1>. QED  BY <1>1, InboundInvariant, PTL

\* Whatever a row of the email or of an attachment points to is in the object
\* store with the recorded size (record_body, mark_attachment_stored): a PUT
\* without a lease, from an owner that lost it or from a request that arrives
\* after its sender gave up, never makes a row wrong.
THEOREM RowsAlwaysMatch == Spec => []RowsMatchObjects
<1>1. IInv => RowsMatchObjects
  BY DEF IInv
<1>. QED  BY <1>1, InboundInvariant, PTL

-----------------------------------------------------------------------------
(* The steps of the lease protocol are steps of Inbox, or none.            *)

\* The abstract email.
Stage == IF email.state \in {"pending", "error"} THEN "announced" ELSE email.state
Announced == {a \in Attachments : atts[a].state # "absent"}
Recorded == [p \in {"body"} \cup Attachments |->
               IF p \in Attachments THEN atts[p].size
               ELSE IF email.body = "none" THEN NoContent ELSE email.body]

LEMMA MapStutters ==
    ASSUME email'.body = email.body, Stage' = Stage, acked' = acked,
           \A a \in Attachments :
              /\ atts'[a].size = atts[a].size
              /\ atts'[a].state = "absent" <=> atts[a].state = "absent"
    PROVE  UNCHANGED Promise!vars
<1>1. Announced' = Announced
  BY DEF Announced
<1>2. Recorded' = Recorded
  BY DEF Recorded
<1>. QED  BY <1>1, <1>2 DEF Promise!vars, Stage, Announced, Recorded

\* More is announced, of an email that may have been stored.
LEMMA MapAnnounces ==
    ASSUME email'.body = email.body,
           \A a \in Attachments :
              /\ atts'[a].size = atts[a].size
              /\ atts[a].state # "absent" => atts'[a].state # "absent",
           \/ Stage # "stored" /\ Stage' = "announced" /\ acked' = acked
           \/ Stage = "stored" /\ Stage' = Stage /\ acked' = TRUE
    PROVE  Promise!Next
<1>1. Announced \subseteq Announced' /\ Announced' \subseteq Attachments
  BY DEF Announced
<1>2. Recorded' = Recorded
  BY DEF Recorded
<1>3. CASE Stage # "stored" /\ Stage' = "announced" /\ acked' = acked
  <2>1. Promise!Announce
    BY <1>1, <1>2, <1>3 DEF Promise!Announce, Stage, Announced, Recorded
  <2>. QED  BY <2>1 DEF Promise!Next
<1>4. CASE Stage = "stored" /\ Stage' = Stage /\ acked' = TRUE
  <2>1. Promise!Acknowledge
    BY <1>1, <1>2, <1>4 DEF Promise!Acknowledge, Stage, Announced, Recorded
  <2>. QED  BY <2>1 DEF Promise!Next
<1>. QED  BY <1>3, <1>4

\* A part is recorded.
LEMMA MapRecords ==
    ASSUME NEW p \in {"body"} \cup Announced, Recorded[p] = NoContent, Recorded'[p] # NoContent,
           Recorded' = [Recorded EXCEPT ![p] = Recorded'[p]],
           Stage = "announced", Stage' = Stage, Announced' = Announced, acked' = acked
    PROVE  Promise!Next
<1>1. Promise!Record
  BY DEF Promise!Record, Promise!IsRecorded, Stage, Announced, Recorded
<1>. QED  BY <1>1 DEF Promise!Next

LEMMA MapStores ==
    ASSUME \A p \in {"body"} \cup Announced : Recorded[p] # NoContent,
           Stage = "announced", Stage' = "stored", acked' \in {acked, TRUE},
           email'.body = email.body, atts' = atts
    PROVE  Promise!Next
<1>1. Announced' = Announced /\ Recorded' = Recorded
  BY DEF Announced, Recorded
<1>2. Promise!Store
  BY <1>1 DEF Promise!Store, Promise!IsRecorded, Stage, Announced, Recorded
<1>. QED  BY <1>2 DEF Promise!Next

LEMMA ClaimMaps ==
    ASSUME IInv, NEW w \in Workers, NEW rows, RowsTyped(rows),
           \A a \in Attachments : /\ rows[a].size = atts[a].size
                                  /\ atts[a].state # "absent" => rows[a] = atts[a]
                                  /\ rows[a].state = "stored" <=> atts[a].state = "stored",
           claim_on(w, rows), email.state # "stored", acked' = acked
    PROVE  Promise!Next
<1>1. /\ TypeOK /\ LeaseMeansPending /\ email \in EmailType
      /\ \A v \in Workers : JobFits(v)
  BY TypeParts DEF IInv
<1>2. /\ email'.body = email.body
      /\ \A a \in Attachments :
            /\ atts'[a].size = atts[a].size
            /\ atts[a].state # "absent" => atts'[a].state # "absent"
      /\ email'.state = "pending" \/ (~LeaseFree /\ email' = email)
  BY <1>1, ClaimGives
<1>3. ~LeaseFree => email.state = "pending"
  BY <1>1 DEF LeaseFree, LeaseMeansPending
<1>4. Stage # "stored" /\ Stage' = "announced"
  BY <1>1, <1>2, <1>3 DEF Stage
<1>. QED  BY <1>2, <1>4, MapAnnounces

LEMMA DeliverMaps ==
    ASSUME IInv, NEW w \in Workers, NEW ann \in Announcements, claim_webhook(w, ann)
    PROVE  Promise!Next
<1>1. TypeOK
  BY DEF IInv
<1>. DEFINE rows == upsert_attachment(ann)
<1>2. /\ RowsTyped(rows)
      /\ \A a \in Attachments : /\ rows[a].size = atts[a].size
                                /\ atts[a].state # "absent" => rows[a] = atts[a]
                                /\ rows[a].state = "stored" <=> atts[a].state = "stored"
  BY <1>1, UpsertRows
<1>. HIDE DEF rows
<1>3. CASE email.state = "stored"
  <2>1. atts' = rows /\ acked' = TRUE /\ email' = email
    BY <1>3 DEF claim_webhook, rows
  <2>2. Stage = "stored" /\ Stage' = Stage
    BY <1>3, <2>1 DEF Stage
  <2>. QED  BY <1>2, <2>1, <2>2, MapAnnounces
<1>4. CASE email.state # "stored"
  <2>1. claim_on(w, rows) /\ acked' = acked
    BY <1>4 DEF claim_webhook, rows
  <2>. QED  BY <1>2, <1>4, <2>1, ClaimMaps
<1>. QED  BY <1>3, <1>4

LEMMA RetryMaps ==
    ASSUME IInv, NEW w \in Workers, claim_retry(w)
    PROVE  Promise!Next
<1>1. RowsTyped(atts)
  BY TypeParts DEF IInv
<1>2. claim_on(w, atts) /\ email.state # "stored" /\ acked' = acked
  BY DEF claim_retry
<1>. QED  BY <1>1, <1>2, ClaimMaps

LEMMA RecordMaps ==
    ASSUME IInv, NEW w \in Workers, record_body(w)
    PROVE  Promise!Next \/ UNCHANGED Promise!vars
<1>1. /\ pc[w] = "record" /\ atts' = atts /\ acked' = acked
      /\ email \in EmailType /\ JobFits(w) /\ BodyOnce(w)
  BY TypeParts DEF IInv, record_body
<1>2. CASE Owned(w) /\ email.state = "pending"
  <2>1. email' = [email EXCEPT !.body = job[w].body]
    BY <1>2 DEF record_body
  <2>2. email.body = "none" /\ job[w].body \in BodyKeys \cup {"empty"}
    BY <1>1, <1>2 DEF JobFits, BodyOnce
  <2>3. email'.body = job[w].body /\ email'.state = email.state
    BY <1>1, <2>1 DEF EmailType
  <2>4. "body" \notin Attachments /\ job[w].body # NoContent /\ job[w].body # "none"
    BY <2>2, InboundAssumption DEF BodyKeys
  <2>5. Recorded["body"] = NoContent /\ Recorded'["body"] = job[w].body
    BY <2>2, <2>3, <2>4 DEF Recorded
  <2>6. Recorded' = [Recorded EXCEPT !["body"] = Recorded'["body"]]
    BY <1>1, <2>2, <2>3, <2>4 DEF Recorded
  <2>7. Stage = "announced" /\ Stage' = Stage /\ Announced' = Announced
    BY <1>1, <1>2, <2>3 DEF Stage, Announced
  <2>. QED  BY <1>1, <2>4, <2>5, <2>6, <2>7, MapRecords
<1>3. CASE ~(Owned(w) /\ email.state = "pending")
  <2>1. email' = email
    BY <1>3 DEF record_body
  <2>2. Stage' = Stage
    BY <2>1 DEF Stage
  <2>. QED  BY <1>1, <2>1, <2>2, MapStutters
<1>. QED  BY <1>2, <1>3

LEMMA MarkMaps ==
    ASSUME IInv, NEW w \in Workers, mark_attachment_stored(w)
    PROVE  Promise!Next \/ UNCHANGED Promise!vars
<1>. DEFINE a == job[w].key
            c == job[w].got
<1>1. /\ pc[w] = "mark" /\ email' = email /\ acked' = acked
      /\ job[w] \in Jobs /\ RowsTyped(atts) /\ JobFits(w) /\ RowsExist(w)
      /\ LeaseMeansPending
  BY TypeParts DEF IInv, mark_attachment_stored
<1>2. /\ a \in Attachments /\ atts[a].state # "absent" /\ c \in Contents /\ c # NoContent
  BY <1>1, JobTypes, InboundAssumption DEF JobFits, RowsExist, OnAttachment
<1>3. Stage' = Stage
  BY <1>1 DEF Stage
<1>4. CASE Owned(w) /\ atts[a].state # "stored"
  <2>1. atts' = [atts EXCEPT ![a] = [state |-> "stored", size |-> c]]
    BY <1>4 DEF mark_attachment_stored
  <2>2. atts[a].size = NoContent
    BY <1>1, <1>2, <1>4 DEF RowsTyped, Sizes
  <2>3. Stage = "announced"
    BY <1>1, <1>4 DEF Owned, LeaseMeansPending, Stage
  <2>. HIDE DEF a, c
  <2>4. /\ \A b \in Attachments \ {a} : atts'[b] = atts[b]
        /\ atts'[a].state = "stored" /\ atts'[a].size = c
    BY <1>1, <1>2, <2>1 DEF RowsTyped
  <2>5. a \in Announced /\ Announced' = Announced
    BY <1>2, <2>4 DEF Announced
  <2>6. Recorded[a] = NoContent /\ Recorded'[a] = c
    BY <1>2, <2>2, <2>4 DEF Recorded
  <2>7. Recorded' = [Recorded EXCEPT ![a] = Recorded'[a]]
    BY <1>1, <1>2, <2>4 DEF Recorded
  <2>. QED  BY <1>1, <1>2, <1>3, <2>3, <2>5, <2>6, <2>7, MapRecords
<1>5. CASE ~(Owned(w) /\ atts[a].state # "stored")
  <2>1. atts' = atts \/ /\ atts' = [atts EXCEPT ![a] = [state |-> "stored", size |-> c]]
                        /\ atts[a].state = "stored" /\ atts[a].size = c
    BY <1>5 DEF mark_attachment_stored
  <2>. HIDE DEF a, c
  <2>2. \A b \in Attachments : /\ atts'[b].size = atts[b].size
                               /\ atts'[b].state = atts[b].state
    BY <1>1, <1>2, <2>1 DEF RowsTyped
  <2>. QED  BY <1>1, <1>3, <2>2, MapStutters
<1>. QED  BY <1>4, <1>5

LEMMA ErrorMaps ==
    ASSUME IInv, NEW w \in Workers, mark_attachment_error(w)
    PROVE  UNCHANGED Promise!vars
<1>. DEFINE a == job[w].key
<1>1. /\ email' = email /\ acked' = acked /\ RowsTyped(atts)
      /\ atts' = atts \/ /\ atts[a].state = "pending"
                         /\ atts' = [atts EXCEPT ![a] = [@ EXCEPT !.state = "error"]]
  BY TypeParts DEF mark_attachment_error, IInv
<1>. HIDE DEF a
<1>2. \A b \in Attachments : /\ atts'[b].size = atts[b].size
                             /\ atts'[b].state = "absent" <=> atts[b].state = "absent"
  BY <1>1 DEF RowsTyped
<1>3. Stage' = Stage
  BY <1>1 DEF Stage
<1>. QED  BY <1>1, <1>2, <1>3, MapStutters

LEMMA CompleteMaps ==
    ASSUME IInv, NEW w \in Workers, complete(w)
    PROVE  Promise!Next \/ UNCHANGED Promise!vars
<1>1. /\ pc[w] = "complete" /\ atts' = atts
      /\ email \in EmailType /\ RowsTyped(atts) /\ BodyOnce(w)
  BY TypeParts DEF IInv, complete
<1>2. CASE Owned(w) /\ Incomplete(atts) = {} /\ email.state = "pending"
  <2>1. /\ email' = [email EXCEPT !.state = "stored"]
        /\ acked' \in {acked, TRUE}
    BY <1>2 DEF complete
  <2>2. email'.state = "stored" /\ email'.body = email.body
    BY <1>1, <2>1 DEF EmailType
  <2>3. Stage = "announced" /\ Stage' = "stored"
    BY <1>2, <2>2 DEF Stage
  <2>4. email.body # "none" /\ email.body # NoContent /\ "body" \notin Attachments
    BY <1>1, InboundAssumption DEF BodyOnce, AfterBody, EmailType
  <2>5. \A a \in Announced : a \in Attachments /\ atts[a].size # NoContent
    <3>. SUFFICES ASSUME NEW a \in Announced  PROVE  a \in Attachments /\ atts[a].size # NoContent
      OBVIOUS
    <3>1. a \in Attachments /\ atts[a].state # "absent"
      BY DEF Announced
    <3>2. atts[a].state = "stored"
      BY <1>1, <1>2, <3>1 DEF Incomplete, RowsTyped, States
    <3>. QED  BY <1>1, <3>1, <3>2, InboundAssumption DEF RowsTyped
  <2>6. \A p \in {"body"} \cup Announced : Recorded[p] # NoContent
    BY <2>4, <2>5 DEF Recorded
  <2>. QED  BY <1>1, <2>1, <2>2, <2>3, <2>6, MapStores
<1>3. CASE ~(Owned(w) /\ Incomplete(atts) = {} /\ email.state = "pending")
  <2>1. email' = email /\ acked' = acked
    BY <1>3 DEF complete
  <2>2. Stage' = Stage
    BY <2>1 DEF Stage
  <2>. QED  BY <1>1, <2>1, <2>2, MapStutters
<1>. QED  BY <1>2, <1>3

LEMMA FailMaps ==
    ASSUME IInv, NEW w \in Workers, fail(w)
    PROVE  UNCHANGED Promise!vars
<1>1. /\ atts' = atts /\ acked' = acked /\ email \in EmailType
      /\ \/ email' = email
         \/ email.state = "pending" /\ email' = [email EXCEPT !.state = "error"]
  BY TypeParts DEF IInv, fail
<1>2. email'.body = email.body
  BY <1>1 DEF EmailType
<1>3. Stage' = Stage
  BY <1>1 DEF Stage, EmailType
<1>. QED  BY <1>1, <1>2, <1>3, MapStutters

\* Steps that leave the rows and the acknowledgement alone.
LEMMA RowsStutter ==
    ASSUME UNCHANGED <<email, atts, acked>>
    PROVE  UNCHANGED Promise!vars
<1>1. Stage' = Stage
  BY DEF Stage
<1>. QED  BY <1>1, MapStutters

LEMMA NextMaps == IInv /\ [Next]_vars => [Promise!Next]_(Promise!vars)
<1>. SUFFICES ASSUME IInv, [Next]_vars
              PROVE  Promise!Next \/ UNCHANGED Promise!vars
  OBVIOUS
<1>1. ASSUME NEW w \in Workers, Deliver(w) \/ claim_retry(w)
      PROVE  Promise!Next
  BY <1>1, DeliverMaps, RetryMaps DEF Deliver
<1>2. ASSUME NEW w \in Workers, Work(w)
      PROVE  Promise!Next \/ UNCHANGED Promise!vars
  <2>1. CASE put_body(w) \/ list_attachments(w) \/ store_attachment(w)
    <3>1. UNCHANGED <<email, atts, acked>>
      BY <2>1 DEF put_body, list_attachments, store_attachment, dbUnchanged
    <3>. QED  BY <3>1, RowsStutter
  <2>. QED  BY <1>2, <2>1, RecordMaps, MarkMaps, ErrorMaps, CompleteMaps, FailMaps DEF Work
<1>3. ASSUME NEW w \in Workers, Trouble(w)
      PROVE  UNCHANGED Promise!vars
  <2>1. UNCHANGED <<email, atts, acked>>
    BY <1>3 DEF Trouble, StepFails, Timeout, Kill, dbUnchanged
  <2>. QED  BY <2>1, RowsStutter
<1>4. CASE Land \/ Heal \/ Tick \/ UNCHANGED vars
  <2>1. UNCHANGED <<email, atts, acked>>
    BY <1>4 DEF Land, Heal, Tick, dbUnchanged, vars
  <2>. QED  BY <2>1, RowsStutter
<1>. QED  BY <1>1, <1>2, <1>3, <1>4 DEF Next

LEMMA InitMaps == Init => Promise!Init
  BY DEF Init, Promise!Init, Promise!Parts

\* The lease protocol implements Inbox: whatever is delivered again, retried,
\* suspended, killed or late, parts are recorded once and never replaced, the email
\* is stored only when nothing announced is missing (complete), and only a stored
\* email is acknowledged.  Every step of every invocation is a step of Inbox or
\* changes nothing that Inbox shows.
THEOREM InboundImplementsInbox == Spec => ImplementsInbox
  BY InitMaps, NextMaps, InboundInvariant, PTL DEF Spec, ImplementsInbox, Promise!Spec

-----------------------------------------------------------------------------
(* A lease that outlives the processing of its claim.                      *)

\* While an invocation processes, no other one does and nobody can claim.
LEMMA ProcessorAlone ==
    ASSUME TypeOK, ProcessorOwns, MaxProcessing < LeaseStale,
           NEW w \in Workers, pc[w] \in Processing
    PROVE  ~LeaseFree /\ \A v \in Workers : pc[v] \in Processing \/ Owned(v) => v = w
<1>1. /\ Owned(w) /\ lease.age <= job[w].age /\ job[w].age \in 0..MaxProcessing
      /\ lease.age \in Nat /\ LeaseStale \in Nat /\ MaxProcessing \in Nat
  BY TypeParts, JobTypes, InboundAssumption DEF ProcessorOwns, LeaseType
<1>2. ~(lease.age >= LeaseStale)
  BY <1>1
<1>. QED  BY <1>1, <1>2 DEF LeaseFree, ProcessorOwns, Owned

\* Who goes on processes the same claim; the lease stays as it is.
LEMMA SameLease ==
    ASSUME ProcessorOwns, lease' = lease, NEW w \in Workers,
           \A v \in Workers \ {w} : pc'[v] = pc[v] /\ job'[v] = job[v],
           pc'[w] \in Processing => pc[w] \in Processing /\ job'[w].age = job[w].age
    PROVE  ProcessorOwns'
  BY DEF ProcessorOwns, Owned

\* The work of one invocation ends, and nobody else's lease with it.
LEMMA LeaseEnds ==
    ASSUME ProcessorOwns, NEW w \in Workers, pc'[w] \in {"idle", "fail"},
           \A v \in Workers \ {w} : pc'[v] = pc[v] /\ job'[v] = job[v],
           \A v \in Workers \ {w} : Owned(v) => Owned(v)' /\ lease'.age = lease.age
    PROVE  ProcessorOwns'
<1>. SUFFICES ASSUME NEW v \in Workers, pc'[v] \in Processing
              PROVE  Owned(v)' /\ lease'.age <= job'[v].age
  BY DEF ProcessorOwns
<1>1. v # w
  BY DEF Processing
<1>. QED  BY <1>1 DEF ProcessorOwns

LEMMA ClaimOwns ==
    ASSUME IInv, ProcessorOwns, MaxProcessing < LeaseStale,
           NEW w \in Workers, pc[w] = "idle", NEW rows, RowsTyped(rows),
           \A a \in Attachments : /\ rows[a].size = atts[a].size
                                  /\ atts[a].state # "absent" => rows[a] = atts[a]
                                  /\ rows[a].state = "stored" <=> atts[a].state = "stored",
           claim_on(w, rows)
    PROVE  ProcessorOwns'
<1>1. TypeOK /\ \A v \in Workers : JobFits(v)
  BY DEF IInv
<1>2. CASE ~LeaseFree /\ UNCHANGED <<lease, pc, job>>
  BY <1>2 DEF ProcessorOwns, Owned
<1>3. CASE LeaseFree
  <2>1. \A v \in Workers : pc[v] \notin Processing
    BY <1>1, <1>3, ProcessorAlone
  <2>2. \A v \in Workers \ {w} : pc'[v] \notin Processing
    BY <1>1, <2>1, ClaimGives
  <2>3. \/ lease' = [held |-> TRUE, owner |-> w, age |-> 0] /\ job'[w].age = 0
        \/ pc' = pc
    BY <1>1, <1>3, ClaimGives
  <2>. QED  BY <2>1, <2>2, <2>3 DEF ProcessorOwns, Owned
<1>. QED  BY <1>1, <1>2, <1>3, ClaimGives

LEMMA DeliverOwns ==
    ASSUME IInv, ProcessorOwns, MaxProcessing < LeaseStale,
           NEW w \in Workers, NEW ann \in Announcements, claim_webhook(w, ann)
    PROVE  ProcessorOwns'
<1>1. TypeOK /\ pc[w] = "idle"
  BY DEF IInv, claim_webhook
<1>. DEFINE rows == upsert_attachment(ann)
<1>2. /\ RowsTyped(rows)
      /\ \A a \in Attachments : /\ rows[a].size = atts[a].size
                                /\ atts[a].state # "absent" => rows[a] = atts[a]
                                /\ rows[a].state = "stored" <=> atts[a].state = "stored"
  BY <1>1, UpsertRows
<1>. HIDE DEF rows
<1>3. CASE email.state = "stored"
  <2>1. lease' = lease /\ pc' = pc /\ job' = job
    BY <1>3 DEF claim_webhook
  <2>. QED  BY <2>1 DEF ProcessorOwns, Owned
<1>4. CASE email.state # "stored"
  <2>1. claim_on(w, rows)
    BY <1>4 DEF claim_webhook, rows
  <2>. QED  BY <1>1, <1>2, <2>1, ClaimOwns
<1>. QED  BY <1>3, <1>4

LEMMA RetryOwns ==
    ASSUME IInv, ProcessorOwns, MaxProcessing < LeaseStale, NEW w \in Workers, claim_retry(w)
    PROVE  ProcessorOwns'
<1>1. RowsTyped(atts) /\ pc[w] = "idle" /\ claim_on(w, atts)
  BY TypeParts DEF IInv, claim_retry
<1>. QED  BY <1>1, ClaimOwns

\* An invocation goes to another point, with the age of its claim.
LEMMA GoOnOwns ==
    ASSUME IInv, ProcessorOwns, lease' = lease, NEW w \in Workers, pc[w] \in Processing,
           NEW label \in Labels, NEW j \in Jobs, Goto(w, label, j),
           label = "fail" \/ j.age = job[w].age
    PROVE  ProcessorOwns'
<1>1. TypeOK
  BY DEF IInv
<1>2. /\ pc'[w] = label /\ job'[w] = j
      /\ \A v \in Workers \ {w} : pc'[v] = pc[v] /\ job'[v] = job[v]
  BY <1>1, GotoGives
<1>. QED  BY <1>2, SameLease DEF Processing

LEMMA NextOwns ==
    ASSUME IInv, ProcessorOwns, lease' = lease, NEW w \in Workers, pc[w] \in Processing,
           NEW todo \in SUBSET job[w].todo, NextAttachment(w, todo)
    PROVE  ProcessorOwns'
<1>1. TypeOK /\ (\A v \in Workers : JobFits(v)) /\ job[w] \in Jobs
  BY TypeParts DEF IInv
<1>2. todo \in SUBSET Attachments
  BY <1>1, JobTypes
<1>. QED  BY <1>1, <1>2, NextFits, SameLease

\* The steps of process_claim that leave the lease alone.
LEMMA WorkOwns ==
    ASSUME IInv, ProcessorOwns, NEW w \in Workers,
           \/ put_body(w) \/ record_body(w) \/ list_attachments(w) \/ store_attachment(w)
           \/ mark_attachment_stored(w) \/ mark_attachment_error(w)
           \/ StepFails(w) \/ Timeout(w)
    PROVE  ProcessorOwns'
<1>1. lease' = lease /\ pc[w] \in Processing
  BY DEF put_body, record_body, list_attachments, store_attachment, mark_attachment_stored,
         mark_attachment_error, StepFails, Timeout, dbUnchanged, Processing
<1>2. job[w] \in Jobs
  BY TypeParts DEF IInv
<1>3. "fail" \in Labels /\ \A l \in Processing : l \in Labels
  BY DEF Labels
<1>4. CASE GotoFail(w)
  BY <1>1, <1>3, <1>4, NoJobType, GoOnOwns DEF GotoFail
<1>5. CASE Goto(w, "markerror", job[w])
  BY <1>1, <1>2, <1>3, <1>5, GoOnOwns DEF Processing
<1>6. ASSUME NEW kind \in BodyKeys \cup {"none", "empty"}, NEW label \in {"record", "list"},
             Goto(w, label, [job[w] EXCEPT !.body = kind])
      PROVE  ProcessorOwns'
  <2>. DEFINE j == [job[w] EXCEPT !.body = kind]
  <2>1. j \in Jobs /\ j.age = job[w].age
    BY <1>2 DEF Jobs
  <2>. HIDE DEF j
  <2>2. Goto(w, label, j)
    BY <1>6 DEF j
  <2>. QED  BY <1>1, <1>3, <2>1, <2>2, GoOnOwns DEF Processing
<1>7. ASSUME NEW c \in Contents, Goto(w, "mark", [job[w] EXCEPT !.got = c])
      PROVE  ProcessorOwns'
  <2>. DEFINE j == [job[w] EXCEPT !.got = c]
  <2>1. j \in Jobs /\ j.age = job[w].age
    BY <1>2 DEF Jobs, Sizes
  <2>. HIDE DEF j
  <2>2. Goto(w, "mark", j)
    BY <1>7 DEF j
  <2>. QED  BY <1>1, <1>3, <2>1, <2>2, GoOnOwns DEF Processing
<1>8. ASSUME NEW todo \in SUBSET job[w].todo, NextAttachment(w, todo)  PROVE  ProcessorOwns'
  BY <1>1, <1>8, NextOwns
<1>9. CASE put_body(w)
  <2>1. \/ \E kind \in BodyKinds : Goto(w, "record", [job[w] EXCEPT !.body = kind])
        \/ GotoFail(w)
    BY <1>9 DEF put_body, put_if_absent
  <2>. QED  BY <1>4, <1>6, <2>1, InboundAssumption
<1>10. CASE record_body(w)
  <2>1. Goto(w, "list", [job[w] EXCEPT !.body = "none"]) \/ GotoFail(w)
    BY <1>10 DEF record_body
  <2>. QED  BY <1>4, <1>6, <2>1
<1>11. CASE list_attachments(w)
  BY <1>8, <1>11 DEF list_attachments
<1>12. CASE store_attachment(w)
  <2>1. \/ \E c \in Contents : Goto(w, "mark", [job[w] EXCEPT !.got = c])
        \/ Goto(w, "markerror", job[w])
    BY <1>12 DEF store_attachment, put_if_absent
  <2>. QED  BY <1>5, <1>7, <2>1
<1>13. CASE mark_attachment_stored(w)
  BY <1>5, <1>8, <1>13 DEF mark_attachment_stored
<1>14. CASE mark_attachment_error(w) \/ StepFails(w) \/ Timeout(w)
  BY <1>4, <1>5, <1>14 DEF mark_attachment_error, StepFails, Timeout
<1>. QED  BY <1>9, <1>10, <1>11, <1>12, <1>13, <1>14

\* The steps that end a claim.
LEMMA EndOwns ==
    ASSUME IInv, ProcessorOwns, NEW w \in Workers, complete(w) \/ fail(w) \/ Kill(w)
    PROVE  ProcessorOwns'
<1>1. TypeOK /\ "idle" \in Labels /\ "fail" \in Labels
  BY DEF IInv, Labels
<1>2. PICK label \in {"idle", "fail"} : Goto(w, label, NoJob)
  BY DEF complete, fail, Kill, Leave, GotoFail
<1>3. /\ pc'[w] \in {"idle", "fail"}
      /\ \A v \in Workers \ {w} : pc'[v] = pc[v] /\ job'[v] = job[v]
  BY <1>1, <1>2, NoJobType, GotoGives
<1>4. lease' = lease \/ lease' = Orphaned(lease, w) \/ Owned(w)
  BY DEF complete, fail, Kill
<1>5. ASSUME NEW v \in Workers \ {w}, Owned(v)
      PROVE  Owned(v)' /\ lease'.age = lease.age
  <2>1. ~Owned(w)
    BY <1>5 DEF Owned
  <2>2. CASE lease' = Orphaned(lease, w)
    BY <1>1, <1>5, <2>2, OrphanedGives DEF Owned
  <2>3. CASE lease' = lease
    BY <1>5, <2>3 DEF Owned
  <2>. QED  BY <1>4, <2>1, <2>2, <2>3
<1>. QED  BY <1>3, <1>5, LeaseEnds

LEMMA TickOwns ==
    ASSUME IInv, ProcessorOwns, Tick
    PROVE  ProcessorOwns'
<1>. SUFFICES ASSUME NEW w \in Workers, pc'[w] \in Processing
              PROVE  Owned(w)' /\ lease'.age <= job'[w].age
  BY DEF ProcessorOwns
<1>1. TypeOK /\ pc[w] \in Processing
  BY DEF IInv, Tick
<1>2. Owned(w) /\ lease.age <= job[w].age
  BY <1>1 DEF ProcessorOwns
<1>3. /\ lease'.held = lease.held /\ lease'.owner = lease.owner /\ lease'.age <= lease.age + 1
      /\ lease' \in LeaseType /\ job'[w].age = job[w].age + 1
  BY <1>1, TickGives
<1>4. lease.age \in Nat /\ lease'.age \in Nat /\ job[w].age \in Nat
  BY <1>1, <1>3, TypeParts, JobTypes, InboundAssumption DEF LeaseType
<1>. QED  BY <1>2, <1>3, <1>4 DEF Owned

\* Only one invocation at a time fetches the email, where the processing timeout
\* ends an owner (MaxProcessing) before its lease can be taken (LeaseStale), as
\* PROCESSING_TIMEOUT and LEASE_STALE_SQL do for an instance that is not suspended.
THEOREM OnlyOneProcessor ==
    ASSUME MaxProcessing < LeaseStale
    PROVE  Spec => []OneProcessor
<1>1. Init => ProcessorOwns
  BY DEF Init, ProcessorOwns, Processing
<1>2. IInv /\ ProcessorOwns /\ [Next]_vars => ProcessorOwns'
  <2>. SUFFICES ASSUME IInv, ProcessorOwns, [Next]_vars  PROVE  ProcessorOwns'
    OBVIOUS
  <2>1. ASSUME NEW w \in Workers, Deliver(w) \/ claim_retry(w)  PROVE  ProcessorOwns'
    BY <2>1, DeliverOwns, RetryOwns DEF Deliver
  <2>2. ASSUME NEW w \in Workers, Work(w) \/ Trouble(w)  PROVE  ProcessorOwns'
    BY <2>2, WorkOwns, EndOwns DEF Work, Trouble
  <2>3. CASE Land \/ Heal \/ UNCHANGED vars
    <3>1. lease' = lease /\ pc' = pc /\ job' = job
      BY <2>3 DEF Land, Heal, dbUnchanged, vars
    <3>. QED  BY <3>1 DEF ProcessorOwns, Owned
  <2>. QED  BY <2>1, <2>2, <2>3, TickOwns DEF Next
<1>3. IInv /\ ProcessorOwns => OneProcessor
  BY DEF ProcessorOwns, Owned, OneProcessor
<1>. QED  BY <1>1, <1>2, <1>3, InboundInvariant, PTL DEF Spec
=============================================================================
