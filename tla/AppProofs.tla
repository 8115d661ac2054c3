------------------------------ MODULE AppProofs ------------------------------
(***************************************************************************)
(* Proofs about the parts that serve a signed-in browser (SessionStore and *)
(* LoanWorkspace) for every number of requests, instances, sessions, loans *)
(* and photos and for all lifetimes: a bound in time on what a revoked     *)
(* session or a removed photo can still be used for, and that the photos'  *)
(* rows never outlive their bytes.  And, in the second half, about the     *)
(* transfer that first fills their object store (ObjectCutover), for every *)
(* legacy corpus and any number of runs that overlap, fail and are run     *)
(* again: a valid manifest means that nothing was lost on the way.         *)
(***************************************************************************)
EXTENDS LoanWorkspace, SessionStore, ObjectCutover, FiniteSetTheorems,
        WellFoundedInduction, SequenceTheorems, TLAPS

Time == Nat \cup {None}

\* A request is ended by the platform before it outlives RequestLife.
Alive(q) == request[q] # None =>
                /\ request[q].since \in Nat
                /\ request[q].since <= now /\ now <= request[q].since + RequestLife

-----------------------------------------------------------------------------
(* Sessions.                                                               *)

SessionRequest ==
    [pc : {"load", "cache", "auth", "note", "run", "revoke", "evict", "cycle",
           "create", "keep"},
     at : Instances, sid : Sessions \cup {None}, since : Nat]

SessionTypes ==
    /\ now \in Nat
    /\ active \in BOOLEAN /\ deactivated \in Time
    /\ expires \in [Sessions -> Time] /\ revoked \in [Sessions -> Time]
    /\ cached_expiry \in [Sessions -> Time]
    /\ cache \in [Instances -> [Sessions -> Time]]
    /\ active_user_cache \in [Instances -> Time]
    /\ request \in [Requests -> SessionRequest \cup {None}]

\* The session's row was there at t, or later; the user was active then.
ThereAt(s, t) == expires[s] # None \/ (revoked[s] # None /\ t <= revoked[s])
ActiveAt(t) == active \/ (deactivated # None /\ t <= deactivated)

\* The row of a session has the expiry that its record was created with.
OneExpiry(s) == expires[s] # None => cached_expiry[s] = expires[s]

\* A cached record was read by a request that was still under way when it cached
\* it, and so was the user.
RecordCached(i, s) ==
    cache[i][s] # None => /\ cache[i][s] <= now
                          /\ cached_expiry[s] # None
                          /\ ThereAt(s, cache[i][s] - RequestLife)
UserCached(i) ==
    active_user_cache[i] # None =>
        /\ active_user_cache[i] <= now
        /\ ActiveAt(active_user_cache[i] - RequestLife)

\* How long ago a record that is used may have been read.
Lag == RequestLife + CACHE_TTL

\* What a request has found out.
Unexpired(q) ==
    LET s == request[q].sid
    IN  /\ s \in Sessions
        /\ cached_expiry[s] # None /\ request[q].since < cached_expiry[s]
Checked(q) ==
    /\ request[q].pc \in {"load", "revoke", "evict", "keep"} => request[q].sid \in Sessions
    /\ request[q].pc = "cache" =>
          Unexpired(q) /\ ThereAt(request[q].sid, request[q].since)
    /\ request[q].pc \in {"auth", "note", "run"} =>
          Unexpired(q) /\ ThereAt(request[q].sid, request[q].since - Lag)
    /\ request[q].pc = "note" => ActiveAt(request[q].since)
    /\ request[q].pc = "run" => ActiveAt(request[q].since - Lag)

SessionInv ==
    /\ SessionTypes
    /\ \A s \in Sessions : OneExpiry(s)
    /\ \A i \in Instances : UserCached(i) /\ \A s \in Sessions : RecordCached(i, s)
    /\ \A q \in Requests : Alive(q) /\ (request[q] # None => Checked(q))

\* The rows of sessions only go with a note of the time, an expiry is never
\* changed, and a user is deactivated once.
TablesGo ==
    /\ \A s \in Sessions :
          /\ expires'[s] # None
                \/ revoked'[s] = (IF expires[s] # None THEN now ELSE revoked[s])
          /\ cached_expiry[s] # None => cached_expiry'[s] = cached_expiry[s]
          /\ OneExpiry(s)'
    /\ \/ active' = active /\ deactivated' = deactivated
       \/ ~active' /\ deactivated' = now

\* ThereAt and ActiveAt after a step, for a time that is known before it.
ThereNext(s, t) == expires'[s] # None \/ (revoked'[s] # None /\ t <= revoked'[s])
ActiveNext(t) == active' \/ (deactivated' # None /\ t <= deactivated')

LEMMA ThereKeeps ==
    ASSUME SessionTypes, TablesGo, NEW s \in Sessions, NEW t \in Int, t <= now, ThereAt(s, t)
    PROVE  ThereNext(s, t)
  BY NoneAssumption DEF SessionTypes, Time, TablesGo, ThereAt, ThereNext

LEMMA ActiveKeeps ==
    ASSUME SessionTypes, TablesGo, NEW t \in Int, t <= now, ActiveAt(t)
    PROVE  ActiveNext(t)
<1>1. now # None
  BY NoneAssumption DEF SessionTypes
<1>. QED  BY <1>1 DEF TablesGo, ActiveAt, ActiveNext

\* What is known of a request that stays as it is remains true.
LEMMA CheckedKeeps ==
    ASSUME SessionInv, TablesGo, NEW q \in Requests,
           request[q] # None, request'[q] = request[q]
    PROVE  Checked(q)'
<1>. DEFINE s == request[q].sid
            t == request[q].since
<1>1. /\ SessionTypes /\ Checked(q) /\ t \in Nat /\ t <= now /\ now \in Nat
      /\ Lag \in Nat
  BY LifeAssumption DEF SessionInv, Alive, SessionTypes, Lag
<1>2. t - Lag \in Int /\ t - Lag <= now
  BY <1>1
<1>3. Unexpired(q) => Unexpired(q)'
  BY DEF Unexpired, TablesGo
<1>4. s \in Sessions /\ ThereAt(s, t) => ThereAt(s, t)'
  BY <1>1, ThereKeeps DEF ThereAt, ThereNext
<1>5. s \in Sessions /\ ThereAt(s, t - Lag) => ThereAt(s, t - Lag)'
  <2>1. s \in Sessions /\ ThereAt(s, t - Lag) => ThereNext(s, t - Lag)
    BY <1>1, <1>2, ThereKeeps
  <2>. QED  BY <2>1 DEF ThereAt, ThereNext, Lag
<1>6. ActiveAt(t) => ActiveAt(t)'
  BY <1>1, ActiveKeeps DEF ActiveAt, ActiveNext
<1>7. ActiveAt(t - Lag) => ActiveAt(t - Lag)'
  <2>1. ActiveAt(t - Lag) => ActiveNext(t - Lag)
    BY <1>1, <1>2, ActiveKeeps
  <2>. QED  BY <2>1 DEF ActiveAt, ActiveNext, Lag
<1>8. Unexpired(q) => s \in Sessions
  BY DEF Unexpired
<1>. QED  BY <1>1, <1>3, <1>4, <1>5, <1>6, <1>7, <1>8 DEF Checked

LEMMA RecordKeeps ==
    ASSUME SessionInv, TablesGo, now' \in Nat, now <= now',
           NEW i \in Instances, NEW s \in Sessions, cache'[i][s] \in {cache[i][s], None}
    PROVE  RecordCached(i, s)'
<1>. DEFINE c == cache[i][s]
<1>. SUFFICES ASSUME cache'[i][s] # None, c # None, cache'[i][s] = c
              PROVE  RecordCached(i, s)'
  BY DEF RecordCached
<1>1. /\ SessionTypes /\ RecordCached(i, s) /\ c \in Nat /\ now \in Nat /\ RequestLife \in Nat
  BY LifeAssumption DEF SessionInv, SessionTypes, Time
<1>2. c - RequestLife \in Int /\ c - RequestLife <= now /\ c <= now' /\ c <= now
      /\ ThereAt(s, c - RequestLife) /\ cached_expiry[s] # None
  BY <1>1 DEF RecordCached
<1>3. ThereNext(s, c - RequestLife)
  BY <1>1, <1>2, ThereKeeps
<1>4. cached_expiry'[s] # None
  BY <1>2 DEF TablesGo
<1>. QED  BY <1>2, <1>3, <1>4 DEF RecordCached, ThereAt, ThereNext

LEMMA UserKeeps ==
    ASSUME SessionInv, TablesGo, now' \in Nat, now <= now',
           NEW i \in Instances, active_user_cache'[i] \in {active_user_cache[i], None}
    PROVE  UserCached(i)'
<1>. DEFINE c == active_user_cache[i]
<1>. SUFFICES ASSUME active_user_cache'[i] # None, c # None, active_user_cache'[i] = c
              PROVE  UserCached(i)'
  BY DEF UserCached
<1>1. /\ SessionTypes /\ UserCached(i) /\ c \in Nat /\ now \in Nat /\ RequestLife \in Nat
  BY LifeAssumption DEF SessionInv, SessionTypes, Time
<1>2. c - RequestLife \in Int /\ c - RequestLife <= now /\ c <= now' /\ c <= now
      /\ ActiveAt(c - RequestLife)
  BY <1>1 DEF UserCached
<1>3. ActiveNext(c - RequestLife)
  BY <1>1, <1>2, ActiveKeeps
<1>. QED  BY <1>2, <1>3 DEF UserCached, ActiveAt, ActiveNext

LEMMA TablesStay ==
    ASSUME SessionInv, UNCHANGED tables
    PROVE  /\ TablesGo /\ active' \in BOOLEAN /\ deactivated' \in Time
           /\ expires' \in [Sessions -> Time] /\ revoked' \in [Sessions -> Time]
           /\ cached_expiry' \in [Sessions -> Time]
<1>1. /\ UNCHANGED <<active, deactivated, expires, revoked, cached_expiry>>
      /\ SessionTypes /\ \A s \in Sessions : OneExpiry(s)
  BY DEF SessionInv, tables
<1>2. \A s \in Sessions : OneExpiry(s)'
  BY <1>1 DEF OneExpiry
<1>. QED  BY <1>1, <1>2 DEF TablesGo, SessionTypes

\* A step of one request.
LEMMA RequestStep ==
    ASSUME SessionInv, SessionTypes', TablesGo, now' = now, NEW q \in Requests,
           \A p \in Requests \ {q} : request'[p] = request[p],
           request'[q] # None => Checked(q)' /\ \/ request'[q].since = now
                                                \/ /\ request[q] # None
                                                   /\ request'[q].since = request[q].since,
           \A i \in Instances : UserCached(i)' /\ \A s \in Sessions : RecordCached(i, s)'
    PROVE  SessionInv'
<1>1. ASSUME NEW p \in Requests
      PROVE  Alive(p)' /\ (request'[p] # None => Checked(p)')
  <2>0. now \in Nat /\ RequestLife \in Nat /\ Alive(p)
    BY LifeAssumption DEF SessionInv, SessionTypes
  <2>1. CASE p # q
    BY <2>0, <2>1, CheckedKeeps DEF Alive
  <2>2. CASE p = q
    BY <2>0, <2>2 DEF Alive
  <2>. QED  BY <2>1, <2>2
<1>. QED  BY <1>1 DEF SessionInv, TablesGo

\* It goes on to another point or ends.
LEMMA GotoMoves ==
    ASSUME SessionTypes, NEW q \in Requests, request[q] # None,
           NEW label \in {"load", "cache", "auth", "note", "run", "revoke", "evict",
                          "cycle", "create", "keep"},
           Goto(q, label)
    PROVE  /\ request' \in [Requests -> SessionRequest \cup {None}]
           /\ \A p \in Requests \ {q} : request'[p] = request[p]
           /\ request'[q].pc = label /\ request'[q].at = request[q].at
           /\ request'[q].sid = request[q].sid /\ request'[q].since = request[q].since
<1>1. request[q] \in SessionRequest
  BY DEF SessionTypes
<1>. QED  BY <1>1 DEF SessionTypes, SessionRequest, Goto

LEMMA AnswerEnds ==
    ASSUME SessionTypes, NEW q \in Requests, Answer(q)
    PROVE  /\ request' \in [Requests -> SessionRequest \cup {None}]
           /\ \A p \in Requests \ {q} : request'[p] = request[p]
           /\ request'[q] = None
  BY DEF SessionTypes, Answer

\* Caches that nobody touches.
LEMMA CachesStay ==
    ASSUME SessionInv, TablesGo, now' = now, UNCHANGED <<cache, active_user_cache>>
    PROVE  /\ \A i \in Instances : UserCached(i)' /\ \A s \in Sessions : RecordCached(i, s)'
           /\ cache' \in [Instances -> [Sessions -> Time]]
           /\ active_user_cache' \in [Instances -> Time]
<1>1. now \in Nat /\ now <= now' /\ SessionTypes
  BY DEF SessionInv, SessionTypes
<1>2. \A i \in Instances : UserCached(i)'
  BY <1>1, UserKeeps
<1>3. \A i \in Instances, s \in Sessions : RecordCached(i, s)'
  BY <1>1, RecordKeeps
<1>. QED  BY <1>1, <1>2, <1>3 DEF SessionTypes

LEMMA RequireAuthInv ==
    ASSUME SessionInv, NEW q \in Requests, NEW i \in Instances, NEW s \in Sessions,
           require_auth(q, i, s)
    PROVE  SessionInv'
<1>1. /\ SessionTypes /\ now \in Nat /\ now' = now
      /\ UNCHANGED <<tables, active_user_cache>>
      /\ RequestLife \in Nat /\ CACHE_TTL \in Nat /\ cache' = CachedAfterRead(i, s)
  BY LifeAssumption DEF SessionInv, SessionTypes, require_auth
<1>2. /\ TablesGo /\ active' \in BOOLEAN /\ deactivated' \in Time
      /\ expires' \in [Sessions -> Time] /\ revoked' \in [Sessions -> Time]
      /\ cached_expiry' \in [Sessions -> Time]
  BY <1>1, TablesStay
<1>. DEFINE r == [pc |-> IF cached(i, s) THEN "auth" ELSE "load",
                  at |-> i, sid |-> s, since |-> now]
<1>3. request' = [request EXCEPT ![q] = r]
  BY DEF require_auth
<1>4. r \in SessionRequest /\ r.since = now /\ r.sid = s /\ r.at = i
      /\ r.pc = (IF cached(i, s) THEN "auth" ELSE "load")
  BY <1>1 DEF SessionRequest
<1>. HIDE DEF r
<1>5. /\ request' \in [Requests -> SessionRequest \cup {None}] /\ request'[q] = r
      /\ \A p \in Requests \ {q} : request'[p] = request[p]
  BY <1>1, <1>3, <1>4 DEF SessionTypes
<1>6. /\ cache' \in [Instances -> [Sessions -> Time]]
      /\ \A j \in Instances, u \in Sessions : cache'[j][u] \in {cache[j][u], None}
  BY <1>1 DEF SessionTypes, CachedAfterRead, Time
<1>7. \A j \in Instances : UserCached(j)' /\ \A u \in Sessions : RecordCached(j, u)'
  BY <1>1, <1>2, <1>6, UserKeeps, RecordKeeps
<1>8. SessionTypes'
  BY <1>1, <1>2, <1>5, <1>6 DEF SessionTypes
<1>9. Checked(q)'
  <2>1. CASE cached(i, s)
    <3>. DEFINE c == cache[i][s]
    <3>1. /\ c # None /\ c \in Nat /\ now - c <= CACHE_TTL /\ cached_expiry[s] > now
          /\ RecordCached(i, s) /\ cached_expiry' = cached_expiry
          /\ cached_expiry[s] \in Time
      BY <1>1, <2>1 DEF cached, Fresh, FreshAt, SessionInv, SessionTypes, Time, tables
    <3>2. /\ ThereAt(s, c - RequestLife) /\ cached_expiry[s] # None
      BY <3>1 DEF RecordCached
    <3>3. now - Lag <= c - RequestLife /\ now - Lag \in Int /\ now - Lag <= now
          /\ c - RequestLife \in Int
      BY <1>1, <3>1 DEF Lag
    <3>4. ThereAt(s, now - Lag)
      BY <1>1, <3>2, <3>3 DEF ThereAt, SessionTypes, Time
    <3>5. ThereNext(s, now - Lag)
      BY <1>1, <1>2, <3>3, <3>4, ThereKeeps
    <3>6. now < cached_expiry[s]
      BY <1>1, <3>1, <3>2 DEF Time
    <3>7. Unexpired(q)' /\ ThereAt(request[q].sid, request[q].since - Lag)'
      BY <1>4, <1>5, <3>1, <3>2, <3>5, <3>6 DEF Unexpired, ThereAt, ThereNext, Lag
    <3>. QED  BY <1>4, <1>5, <2>1, <3>7 DEF Checked
  <2>2. CASE ~cached(i, s)
    BY <1>4, <1>5, <2>2 DEF Checked
  <2>. QED  BY <2>1, <2>2
<1>. QED  BY <1>1, <1>2, <1>4, <1>5, <1>7, <1>8, <1>9, RequestStep

\* A request that reads, and goes on.
LEMMA GoInv ==
    ASSUME SessionInv, UNCHANGED <<now, tables>>, NEW q \in Requests, request[q] # None,
           NEW label \in {"load", "cache", "auth", "note", "run", "revoke", "evict",
                          "cycle", "create", "keep"},
           Goto(q, label), Checked(q)',
           cache' \in [Instances -> [Sessions -> Time]],
           active_user_cache' \in [Instances -> Time],
           \A i \in Instances : UserCached(i)' /\ \A s \in Sessions : RecordCached(i, s)'
    PROVE  SessionInv'
<1>1. SessionTypes /\ now' = now
  BY DEF SessionInv
<1>2. SessionTypes'
  BY <1>1, TablesStay, GotoMoves DEF SessionTypes
<1>. QED  BY <1>1, <1>2, TablesStay, GotoMoves, RequestStep

\* A request that ends, and drops what it likes from the caches.
LEMMA AnswerInv ==
    ASSUME SessionInv, UNCHANGED <<now, tables>>, NEW q \in Requests, Answer(q),
           cache' \in [Instances -> [Sessions -> Time]],
           active_user_cache' \in [Instances -> Time],
           \A i \in Instances : UserCached(i)' /\ \A s \in Sessions : RecordCached(i, s)'
    PROVE  SessionInv'
<1>1. SessionTypes /\ now' = now
  BY DEF SessionInv
<1>2. SessionTypes'
  BY <1>1, TablesStay, AnswerEnds DEF SessionTypes
<1>. QED  BY <1>1, <1>2, TablesStay, AnswerEnds, RequestStep

LEMMA LoadInv ==
    ASSUME SessionInv, NEW q \in Requests, load(q)
    PROVE  SessionInv'
<1>. DEFINE s == request[q].sid
            t == request[q].since
<1>1. /\ SessionTypes /\ request[q] # None /\ request[q].pc = "load"
      /\ UNCHANGED <<now, tables>> /\ UNCHANGED <<cache, active_user_cache>>
      /\ s \in Sessions /\ OneExpiry(s)
      /\ t \in Nat /\ t <= now /\ now \in Nat
  BY DEF SessionInv, SessionTypes, load, At, Checked, Alive
<1>2. /\ \A i \in Instances : UserCached(i)' /\ \A u \in Sessions : RecordCached(i, u)'
      /\ cache' \in [Instances -> [Sessions -> Time]]
      /\ active_user_cache' \in [Instances -> Time]
  BY <1>1, TablesStay, CachesStay
<1>3. CASE expires[s] # None /\ expires[s] > now /\ Goto(q, "cache")
  <2>1. /\ request'[q].pc = "cache" /\ request'[q].sid = s /\ request'[q].since = t
    BY <1>1, <1>3, GotoMoves
  <2>2. expires[s] \in Nat /\ cached_expiry[s] = expires[s] /\ t < cached_expiry[s]
    BY <1>1, <1>3 DEF OneExpiry, SessionTypes, Time
  <2>3. expires' = expires /\ revoked' = revoked /\ cached_expiry' = cached_expiry
    BY <1>1 DEF tables
  <2>4. Unexpired(q)'
    BY <1>1, <1>3, <2>1, <2>2, <2>3 DEF Unexpired
  <2>5. ThereAt(request[q].sid, request[q].since)'
    BY <1>3, <2>1, <2>3 DEF ThereAt
  <2>6. Checked(q)'
    BY <2>1, <2>4, <2>5 DEF Checked
  <2>. QED  BY <1>1, <1>2, <1>3, <2>6, GoInv
<1>4. CASE Answer(q)
  BY <1>1, <1>2, <1>4, AnswerInv
<1>. QED  BY <1>3, <1>4 DEF load

LEMMA CacheRecordInv ==
    ASSUME SessionInv, NEW q \in Requests, cache_record(q)
    PROVE  SessionInv'
<1>0. PICK i, s, t : i = request[q].at /\ s = request[q].sid /\ t = request[q].since
  OBVIOUS
<1>1. /\ SessionTypes /\ request[q] # None /\ request[q].pc = "cache" /\ request[q] \in SessionRequest
      /\ UNCHANGED <<now, tables>> /\ UNCHANGED active_user_cache /\ Goto(q, "auth")
      /\ cache' = [cache EXCEPT ![i][s] = now]
      /\ Unexpired(q) /\ ThereAt(s, t) /\ s \in Sessions
      /\ t \in Nat /\ t <= now /\ now \in Nat /\ now <= t + RequestLife
  BY <1>0 DEF SessionInv, SessionTypes, cache_record, At, Checked, Alive, Unexpired
<1>2. /\ request'[q].pc = "auth" /\ request'[q].sid = s /\ request'[q].since = t /\ i \in Instances
  BY <1>0, <1>1, GotoMoves DEF SessionRequest
<1>3. /\ expires' = expires /\ revoked' = revoked /\ cached_expiry' = cached_expiry
      /\ TablesGo /\ now' = now
  BY <1>1, TablesStay DEF tables
<1>4. RequestLife \in Nat /\ CACHE_TTL \in Nat /\ Lag \in Nat
  BY LifeAssumption DEF Lag
<1>5. t - Lag <= t /\ now - RequestLife <= t /\ t - Lag \in Int /\ now - RequestLife \in Int
  BY <1>1, <1>4
<1>6. /\ cache' \in [Instances -> [Sessions -> Time]] /\ cache'[i][s] = now
      /\ \A j \in Instances, u \in Sessions : <<j, u>> # <<i, s>> => cache'[j][u] = cache[j][u]
  BY <1>1, <1>2 DEF SessionTypes, Time
<1>7. ThereAt(s, t - Lag) /\ ThereAt(s, now - RequestLife)
  BY <1>1, <1>5 DEF ThereAt, SessionTypes, Time
<1>8. RecordCached(i, s)'
  <2>1. cached_expiry[s] # None
    BY <1>0, <1>1 DEF Unexpired
  <2>. QED  BY <1>1, <1>3, <1>6, <1>7, <2>1 DEF RecordCached, ThereAt
<1>9. ASSUME NEW j \in Instances
      PROVE  UserCached(j)' /\ \A u \in Sessions : RecordCached(j, u)'
  <2>1. UserCached(j)'
    BY <1>1, <1>3, UserKeeps
  <2>2. ASSUME NEW u \in Sessions  PROVE  RecordCached(j, u)'
    <3>1. CASE <<j, u>> # <<i, s>>
      BY <1>1, <1>3, <1>6, <3>1, RecordKeeps
    <3>2. CASE j = i /\ u = s
      BY <1>8, <3>2
    <3>. QED  BY <3>1, <3>2
  <2>. QED  BY <2>1, <2>2
<1>10. Checked(q)'
  <2>1. Unexpired(q)'
    BY <1>0, <1>1, <1>2, <1>3 DEF Unexpired
  <2>2. ThereAt(request[q].sid, request[q].since - Lag)'
    BY <1>2, <1>3, <1>7 DEF ThereAt, Lag
  <2>. QED  BY <1>2, <2>1, <2>2 DEF Checked
<1>. QED  BY <1>1, <1>6, <1>9, <1>10, GoInv DEF SessionTypes

LEMMA UserIsActiveInv ==
    ASSUME SessionInv, NEW q \in Requests, user_is_active(q)
    PROVE  SessionInv'
<1>0. PICK i, s, t : i = request[q].at /\ s = request[q].sid /\ t = request[q].since
  OBVIOUS
<1>1. /\ SessionTypes /\ request[q] # None /\ request[q].pc = "auth" /\ request[q] \in SessionRequest
      /\ UNCHANGED <<now, tables>> /\ now' = now /\ UNCHANGED cache
      /\ Unexpired(q) /\ ThereAt(s, t - Lag) /\ s \in Sessions
      /\ t \in Nat /\ t <= now /\ now \in Nat /\ now <= t + RequestLife
  BY <1>0 DEF SessionInv, SessionTypes, user_is_active, At, Checked, Alive, Unexpired
<1>2. /\ UNCHANGED <<active, deactivated, expires, revoked, cached_expiry>> /\ TablesGo
  BY <1>1, TablesStay DEF tables
<1>3. i \in Instances /\ RequestLife \in Nat /\ CACHE_TTL \in Nat
  BY <1>0, <1>1, LifeAssumption DEF SessionRequest
<1>4. /\ active_user_cache' \in [Instances -> Time] /\ cache' \in [Instances -> [Sessions -> Time]]
      /\ \A j \in Instances : active_user_cache'[j] \in {active_user_cache[j], None}
  BY <1>0, <1>1, <1>3 DEF user_is_active, SessionTypes, Time
<1>5. \A j \in Instances : UserCached(j)' /\ \A u \in Sessions : RecordCached(j, u)'
  BY <1>1, <1>2, <1>4, UserKeeps, RecordKeeps
<1>6. ASSUME NEW label \in {"run", "note", "revoke"}, Goto(q, label),
             label = "note" => ActiveAt(t), label = "run" => ActiveAt(t - Lag)
      PROVE  SessionInv'
  <2>1. /\ request'[q].pc = label /\ request'[q].sid = s /\ request'[q].since = t
    BY <1>0, <1>1, <1>6, GotoMoves
  <2>2. Unexpired(q)' /\ ThereAt(request[q].sid, request[q].since - Lag)'
    BY <1>0, <1>1, <1>2, <2>1 DEF Unexpired, ThereAt, Lag
  <2>3. label = "note" => ActiveAt(request[q].since)'
    BY <1>2, <1>6, <2>1 DEF ActiveAt
  <2>4. label = "run" => ActiveAt(request[q].since - Lag)'
    BY <1>2, <1>6, <2>1 DEF ActiveAt, Lag
  <2>5. Checked(q)'
    BY <1>1, <2>1, <2>2, <2>3, <2>4 DEF Checked
  <2>. QED  BY <1>1, <1>4, <1>5, <1>6, <2>5, GoInv
<1>7. CASE Fresh(active_user_cache[i]) /\ Goto(q, "run")
  <2>. DEFINE c == active_user_cache[i]
  <2>1. c # None /\ c \in Nat /\ now - c <= CACHE_TTL /\ UserCached(i)
    BY <1>1, <1>3, <1>7 DEF Fresh, FreshAt, SessionInv, SessionTypes, Time
  <2>2. ActiveAt(c - RequestLife)
    BY <2>1 DEF UserCached
  <2>3. t - Lag <= c - RequestLife /\ t - Lag \in Int /\ c - RequestLife \in Int
    BY <1>1, <1>3, <2>1 DEF Lag
  <2>4. deactivated # None => deactivated \in Int
    BY <1>1 DEF SessionTypes, Time
  <2>5. deactivated # None /\ c - RequestLife <= deactivated => t - Lag <= deactivated
    BY <2>3, <2>4
  <2>6. ActiveAt(t - Lag)
    BY <2>2, <2>5 DEF ActiveAt
  <2>. QED  BY <1>6, <1>7, <2>6
<1>8. CASE active /\ Goto(q, "note")
  BY <1>6, <1>8 DEF ActiveAt
<1>9. CASE Goto(q, "revoke")
  BY <1>6, <1>9
<1>. QED  BY <1>0, <1>7, <1>8, <1>9 DEF user_is_active

LEMMA NoteActiveInv ==
    ASSUME SessionInv, NEW q \in Requests, note_active(q)
    PROVE  SessionInv'
<1>0. PICK i, s, t : i = request[q].at /\ s = request[q].sid /\ t = request[q].since
  OBVIOUS
<1>1. /\ SessionTypes /\ request[q] # None /\ request[q].pc = "note" /\ request[q] \in SessionRequest
      /\ UNCHANGED <<now, tables>> /\ now' = now /\ UNCHANGED cache /\ Goto(q, "run")
      /\ active_user_cache' = [active_user_cache EXCEPT ![i] = now]
      /\ Unexpired(q) /\ ThereAt(s, t - Lag) /\ s \in Sessions /\ ActiveAt(t)
      /\ t \in Nat /\ t <= now /\ now \in Nat /\ now <= t + RequestLife
  BY <1>0 DEF SessionInv, SessionTypes, note_active, At, Checked, Alive, Unexpired
<1>2. /\ UNCHANGED <<active, deactivated, expires, revoked, cached_expiry>> /\ TablesGo
  BY <1>1, TablesStay DEF tables
<1>3. i \in Instances /\ RequestLife \in Nat /\ CACHE_TTL \in Nat
  BY <1>0, <1>1, LifeAssumption DEF SessionRequest
<1>4. t - Lag <= t /\ now - RequestLife <= t /\ t - Lag \in Int /\ now - RequestLife \in Int
  BY <1>1, <1>3 DEF Lag
<1>5. deactivated # None => deactivated \in Int
  BY <1>1 DEF SessionTypes, Time
<1>6. deactivated # None /\ t <= deactivated =>
          t - Lag <= deactivated /\ now - RequestLife <= deactivated
  BY <1>1, <1>4, <1>5
<1>7. ActiveAt(t - Lag) /\ ActiveAt(now - RequestLife)
  BY <1>1, <1>6 DEF ActiveAt
<1>8. /\ active_user_cache' \in [Instances -> Time] /\ active_user_cache'[i] = now
      /\ \A j \in Instances \ {i} : active_user_cache'[j] = active_user_cache[j]
      /\ cache' \in [Instances -> [Sessions -> Time]]
  BY <1>1, <1>3 DEF SessionTypes, Time
<1>9. UserCached(i)'
  BY <1>1, <1>2, <1>7, <1>8 DEF UserCached, ActiveAt
<1>10. \A j \in Instances : UserCached(j)' /\ \A u \in Sessions : RecordCached(j, u)'
  BY <1>1, <1>2, <1>8, <1>9, UserKeeps, RecordKeeps
<1>11. /\ request'[q].pc = "run" /\ request'[q].sid = s /\ request'[q].since = t
  BY <1>0, <1>1, GotoMoves
<1>12. Unexpired(q)' /\ ThereAt(request[q].sid, request[q].since - Lag)'
  BY <1>0, <1>1, <1>2, <1>11 DEF Unexpired, ThereAt, Lag
<1>13. ActiveAt(request[q].since - Lag)'
  BY <1>2, <1>7, <1>11 DEF ActiveAt, Lag
<1>14. Checked(q)'
  BY <1>11, <1>12, <1>13 DEF Checked
<1>. QED  BY <1>1, <1>8, <1>10, <1>14, GoInv

LEMMA HandleInv ==
    ASSUME SessionInv, NEW q \in Requests, handle(q)
    PROVE  SessionInv'
<1>1. /\ SessionTypes /\ request[q] # None /\ request[q].pc = "run"
      /\ UNCHANGED <<now, tables>> /\ UNCHANGED <<cache, active_user_cache>>
      /\ request[q].sid \in Sessions
  BY DEF SessionInv, handle, At, Checked, Unexpired
<1>2. /\ \A i \in Instances : UserCached(i)' /\ \A u \in Sessions : RecordCached(i, u)'
      /\ cache' \in [Instances -> [Sessions -> Time]]
      /\ active_user_cache' \in [Instances -> Time]
  BY <1>1, TablesStay, CachesStay
<1>3. CASE Goto(q, "revoke")
  <2>1. Checked(q)'
    BY <1>1, <1>3, GotoMoves DEF Checked
  <2>. QED  BY <1>1, <1>2, <1>3, <2>1, GoInv
<1>4. CASE Answer(q)
  BY <1>1, <1>2, <1>4, AnswerInv
<1>. QED  BY <1>3, <1>4 DEF handle

\* A deletion of a session's row.
LEMMA DeleteRowGoes ==
    ASSUME SessionInv, NEW s, DeleteRow(s), UNCHANGED <<active, deactivated, cached_expiry>>
    PROVE  /\ TablesGo /\ active' \in BOOLEAN /\ deactivated' \in Time
           /\ expires' \in [Sessions -> Time] /\ revoked' \in [Sessions -> Time]
           /\ cached_expiry' \in [Sessions -> Time]
<1>1. SessionTypes /\ now \in Time /\ \A u \in Sessions : OneExpiry(u)
  BY DEF SessionInv, SessionTypes, Time
<1>2. expires' \in [Sessions -> Time] /\ revoked' \in [Sessions -> Time]
  BY <1>1 DEF SessionTypes, DeleteRow, Time
<1>3. ASSUME NEW u \in Sessions
      PROVE  /\ expires'[u] = (IF u = s THEN None ELSE expires[u])
             /\ revoked'[u] = (IF u = s /\ expires[u] # None THEN now ELSE revoked[u])
  BY <1>1 DEF SessionTypes, DeleteRow
<1>4. \A u \in Sessions : OneExpiry(u)'
  BY <1>1, <1>3 DEF OneExpiry
<1>5. \A u \in Sessions : expires'[u] # None
                \/ revoked'[u] = (IF expires[u] # None THEN now ELSE revoked[u])
  BY <1>3
<1>6. TablesGo
  BY <1>4, <1>5 DEF TablesGo
<1>. QED  BY <1>1, <1>2, <1>6 DEF SessionTypes

LEMMA DeleteInv ==
    ASSUME SessionInv, NEW q \in Requests, delete(q)
    PROVE  SessionInv'
<1>1. /\ SessionTypes /\ request[q] # None /\ request[q].pc = "revoke"
      /\ now' = now /\ UNCHANGED <<active, deactivated, cached_expiry>>
      /\ UNCHANGED <<cache, active_user_cache>> /\ Goto(q, "evict")
      /\ DeleteRow(request[q].sid) /\ request[q].sid \in Sessions
  BY DEF SessionInv, delete, At, Checked
<1>2. /\ TablesGo /\ active' \in BOOLEAN /\ deactivated' \in Time
      /\ expires' \in [Sessions -> Time] /\ revoked' \in [Sessions -> Time]
      /\ cached_expiry' \in [Sessions -> Time]
  BY <1>1, DeleteRowGoes
<1>3. /\ \A i \in Instances : UserCached(i)' /\ \A u \in Sessions : RecordCached(i, u)'
      /\ cache' \in [Instances -> [Sessions -> Time]]
      /\ active_user_cache' \in [Instances -> Time]
  BY <1>1, <1>2, CachesStay
<1>4. Checked(q)'
  BY <1>1, GotoMoves DEF Checked
<1>5. SessionTypes'
  BY <1>1, <1>2, <1>3, GotoMoves DEF SessionTypes
<1>. QED  BY <1>1, <1>2, <1>3, <1>4, <1>5, GotoMoves, RequestStep

\* One record is dropped from a cache.
LEMMA EvictKeeps ==
    ASSUME SessionInv, TablesGo, now' = now, NEW i, NEW s,
           cache' = [cache EXCEPT ![i][s] = None], UNCHANGED active_user_cache
    PROVE  /\ \A j \in Instances : UserCached(j)' /\ \A u \in Sessions : RecordCached(j, u)'
           /\ cache' \in [Instances -> [Sessions -> Time]]
           /\ active_user_cache' \in [Instances -> Time]
<1>1. now \in Nat /\ now <= now' /\ SessionTypes
  BY DEF SessionInv, SessionTypes
<1>2. /\ cache' \in [Instances -> [Sessions -> Time]]
      /\ \A j \in Instances, u \in Sessions : cache'[j][u] \in {cache[j][u], None}
  BY <1>1 DEF SessionTypes, Time
<1>. QED  BY <1>1, <1>2, UserKeeps, RecordKeeps DEF SessionTypes

LEMMA EvictInv ==
    ASSUME SessionInv, NEW q \in Requests, evict(q)
    PROVE  SessionInv'
<1>0. PICK i, s : i = request[q].at /\ s = request[q].sid
  OBVIOUS
<1>1. /\ UNCHANGED <<now, tables>> /\ UNCHANGED active_user_cache /\ Answer(q)
      /\ cache' = [cache EXCEPT ![i][s] = None]
  BY <1>0 DEF evict
<1>2. TablesGo
  BY <1>1, TablesStay
<1>. QED  BY <1>1, <1>2, EvictKeeps, AnswerInv

LEMMA LoginInv ==
    ASSUME SessionInv, NEW q \in Requests, NEW i \in Instances,
           NEW old \in Sessions \cup {None}, login(q, i, old)
    PROVE  SessionInv'
<1>1. /\ SessionTypes /\ now \in Nat /\ now' = now
      /\ UNCHANGED tables /\ UNCHANGED <<cache, active_user_cache>>
  BY DEF SessionInv, SessionTypes, login
<1>2. /\ TablesGo /\ active' \in BOOLEAN /\ deactivated' \in Time
      /\ expires' \in [Sessions -> Time] /\ revoked' \in [Sessions -> Time]
      /\ cached_expiry' \in [Sessions -> Time]
  BY <1>1, TablesStay
<1>3. /\ \A j \in Instances : UserCached(j)' /\ \A u \in Sessions : RecordCached(j, u)'
      /\ cache' \in [Instances -> [Sessions -> Time]]
      /\ active_user_cache' \in [Instances -> Time]
  BY <1>1, <1>2, CachesStay
<1>. DEFINE r == [pc |-> "cycle", at |-> i, sid |-> old, since |-> now]
<1>4. request' = [request EXCEPT ![q] = r]
  BY DEF login
<1>5. r \in SessionRequest /\ r.since = now /\ r.pc = "cycle"
  BY <1>1 DEF SessionRequest
<1>. HIDE DEF r
<1>6. /\ request' \in [Requests -> SessionRequest \cup {None}] /\ request'[q] = r
      /\ \A p \in Requests \ {q} : request'[p] = request[p]
  BY <1>1, <1>4, <1>5 DEF SessionTypes
<1>7. Checked(q)'
  BY <1>5, <1>6 DEF Checked
<1>8. SessionTypes'
  BY <1>1, <1>2, <1>3, <1>6 DEF SessionTypes
<1>. QED  BY <1>1, <1>2, <1>3, <1>5, <1>6, <1>7, <1>8, RequestStep

LEMMA CycleIdInv ==
    ASSUME SessionInv, NEW q \in Requests, cycle_id(q)
    PROVE  SessionInv'
<1>0. PICK i, s : i = request[q].at /\ s = request[q].sid
  OBVIOUS
<1>1. /\ SessionTypes /\ request[q] # None /\ Goto(q, "create") /\ now' = now
      /\ UNCHANGED <<active, deactivated, cached_expiry>> /\ UNCHANGED active_user_cache
      /\ \/ UNCHANGED <<expires, revoked, cache>>
         \/ DeleteRow(s) /\ cache' = [cache EXCEPT ![i][s] = None]
  BY <1>0 DEF SessionInv, cycle_id, At
<1>2. /\ TablesGo /\ active' \in BOOLEAN /\ deactivated' \in Time
      /\ expires' \in [Sessions -> Time] /\ revoked' \in [Sessions -> Time]
      /\ cached_expiry' \in [Sessions -> Time]
  <2>1. CASE UNCHANGED <<expires, revoked>>
    BY <1>1, <2>1, TablesStay DEF tables
  <2>2. CASE DeleteRow(s)
    BY <1>1, <2>2, DeleteRowGoes
  <2>. QED  BY <1>1, <2>1, <2>2
<1>3. /\ \A j \in Instances : UserCached(j)' /\ \A u \in Sessions : RecordCached(j, u)'
      /\ cache' \in [Instances -> [Sessions -> Time]]
      /\ active_user_cache' \in [Instances -> Time]
  <2>1. CASE cache' = cache
    BY <1>1, <1>2, <2>1, CachesStay
  <2>2. CASE cache' = [cache EXCEPT ![i][s] = None]
    BY <1>1, <1>2, <2>2, EvictKeeps
  <2>. QED  BY <1>1, <2>1, <2>2
<1>4. Checked(q)'
  BY <1>1, GotoMoves DEF Checked
<1>5. SessionTypes'
  BY <1>1, <1>2, <1>3, GotoMoves DEF SessionTypes
<1>. QED  BY <1>1, <1>2, <1>3, <1>4, <1>5, GotoMoves, RequestStep

LEMMA CreateInv ==
    ASSUME SessionInv, NEW q \in Requests, NEW s \in Sessions, create(q, s)
    PROVE  SessionInv'
<1>1. /\ SessionTypes /\ request[q] # None /\ request[q] \in SessionRequest
      /\ cached_expiry[s] = None /\ now' = now
      /\ expires' = [expires EXCEPT ![s] = now + SESSION_LIFE]
      /\ cached_expiry' = [cached_expiry EXCEPT ![s] = now + SESSION_LIFE]
      /\ request' = [request EXCEPT ![q].pc = "keep", ![q].sid = s]
      /\ UNCHANGED <<active, deactivated, revoked, cache, active_user_cache>>
      /\ now \in Nat /\ now + SESSION_LIFE \in Nat
      /\ \A u \in Sessions : OneExpiry(u)
  BY LifeAssumption DEF SessionInv, SessionTypes, create, At
<1>2. now + SESSION_LIFE # None /\ now + SESSION_LIFE \in Time
  BY <1>1, NoneAssumption DEF Time
<1>3. /\ expires' \in [Sessions -> Time] /\ cached_expiry' \in [Sessions -> Time]
      /\ expires'[s] = now + SESSION_LIFE /\ cached_expiry'[s] = now + SESSION_LIFE
      /\ \A u \in Sessions \ {s} : expires'[u] = expires[u] /\ cached_expiry'[u] = cached_expiry[u]
  BY <1>1, <1>2 DEF SessionTypes
<1>4. \A u \in Sessions : OneExpiry(u)'
  BY <1>1, <1>3 DEF OneExpiry
<1>5. \A u \in Sessions :
          /\ expires'[u] # None
                \/ revoked'[u] = (IF expires[u] # None THEN now ELSE revoked[u])
          /\ cached_expiry[u] # None => cached_expiry'[u] = cached_expiry[u]
  BY <1>1, <1>2, <1>3
<1>6. TablesGo
  BY <1>1, <1>4, <1>5 DEF TablesGo
<1>7. /\ \A i \in Instances : UserCached(i)' /\ \A u \in Sessions : RecordCached(i, u)'
      /\ cache' \in [Instances -> [Sessions -> Time]]
      /\ active_user_cache' \in [Instances -> Time]
  BY <1>1, <1>6, CachesStay
<1>8. /\ request' \in [Requests -> SessionRequest \cup {None}]
      /\ \A p \in Requests \ {q} : request'[p] = request[p]
      /\ request'[q].pc = "keep" /\ request'[q].sid = s
      /\ request'[q].since = request[q].since
  BY <1>1 DEF SessionTypes, SessionRequest
<1>9. Checked(q)'
  BY <1>8 DEF Checked
<1>10. SessionTypes'
  BY <1>1, <1>3, <1>7, <1>8 DEF SessionTypes
<1>. QED  BY <1>1, <1>6, <1>7, <1>8, <1>9, <1>10, RequestStep

LEMMA SaveInv ==
    ASSUME SessionInv, NEW q \in Requests, save(q)
    PROVE  SessionInv'
<1>0. PICK i, s : i = request[q].at /\ s = request[q].sid
  OBVIOUS
<1>1. /\ SessionTypes /\ request[q] # None /\ request[q] \in SessionRequest
      /\ UNCHANGED <<now, tables>> /\ now' = now /\ UNCHANGED active_user_cache /\ Answer(q)
      /\ cache' = [cache EXCEPT ![i][s] = IF expires[s] = None THEN None ELSE now]
      /\ s \in Sessions /\ OneExpiry(s) /\ now \in Nat
  BY <1>0 DEF SessionInv, SessionTypes, save, At, Checked
<1>2. TablesGo /\ expires' = expires /\ revoked' = revoked /\ cached_expiry' = cached_expiry
  BY <1>1, TablesStay DEF tables
<1>3. CASE expires[s] = None
  <2>1. cache' = [cache EXCEPT ![i][s] = None]
    BY <1>1, <1>3
  <2>. QED  BY <1>1, <1>2, <2>1, EvictKeeps, AnswerInv
<1>4. CASE expires[s] # None
  <2>1. i \in Instances
    BY <1>0, <1>1 DEF SessionRequest
  <2>2. /\ cache' \in [Instances -> [Sessions -> Time]] /\ cache'[i][s] = now
        /\ \A j \in Instances, u \in Sessions : <<j, u>> # <<i, s>> => cache'[j][u] = cache[j][u]
    BY <1>1, <1>4, <2>1 DEF SessionTypes, Time
  <2>3. RecordCached(i, s)'
    BY <1>1, <1>2, <1>4, <2>2 DEF RecordCached, ThereAt, OneExpiry
  <2>4. ASSUME NEW j \in Instances
        PROVE  UserCached(j)' /\ \A u \in Sessions : RecordCached(j, u)'
    <3>1. UserCached(j)'
      BY <1>1, <1>2, UserKeeps
    <3>2. ASSUME NEW u \in Sessions  PROVE  RecordCached(j, u)'
      <4>1. CASE <<j, u>> # <<i, s>>
        BY <1>1, <1>2, <2>2, <4>1, RecordKeeps
      <4>2. CASE j = i /\ u = s
        BY <2>3, <4>2
      <4>. QED  BY <4>1, <4>2
    <3>. QED  BY <3>1, <3>2
  <2>. QED  BY <1>1, <2>2, <2>4, AnswerInv DEF SessionTypes
<1>. QED  BY <1>3, <1>4

LEMMA LostInv ==
    ASSUME SessionInv, NEW q \in Requests, session_request_lost(q)
    PROVE  SessionInv'
<1>1. /\ UNCHANGED <<now, tables>> /\ UNCHANGED <<cache, active_user_cache>> /\ Answer(q)
  BY DEF session_request_lost, Lost
<1>. QED  BY <1>1, TablesStay, CachesStay, AnswerInv

\* Requests stay or end.
LEMMA RequestsStay ==
    ASSUME SessionInv, SessionTypes', TablesGo,
           \A q \in Requests : request'[q] \in {request[q], None},
           \A q \in Requests : request'[q] # None => now' <= request[q].since + RequestLife,
           now <= now',
           \A i \in Instances : UserCached(i)' /\ \A s \in Sessions : RecordCached(i, s)'
    PROVE  SessionInv'
<1>1. ASSUME NEW p \in Requests
      PROVE  Alive(p)' /\ (request'[p] # None => Checked(p)')
  <2>0. now \in Nat /\ now' \in Nat /\ Alive(p)
    BY DEF SessionInv, SessionTypes
  <2>1. CASE request'[p] # None
    BY <2>0, <2>1, CheckedKeeps DEF Alive
  <2>2. CASE request'[p] = None
    BY <2>2 DEF Alive
  <2>. QED  BY <2>1, <2>2
<1>. QED  BY <1>1 DEF SessionInv, TablesGo

LEMMA DeactivateInv == ASSUME SessionInv, deactivate  PROVE  SessionInv'
<1>1. /\ SessionTypes /\ now \in Nat /\ now' = now /\ request' = request
      /\ active' = FALSE /\ deactivated' = now
      /\ UNCHANGED <<expires, revoked, cached_expiry, cache, active_user_cache>>
      /\ \A s \in Sessions : OneExpiry(s)
  BY DEF SessionInv, SessionTypes, deactivate
<1>2. \A s \in Sessions : OneExpiry(s)'
  BY <1>1 DEF OneExpiry
<1>3. TablesGo
  BY <1>1, <1>2 DEF TablesGo
<1>4. \A i \in Instances : UserCached(i)' /\ \A s \in Sessions : RecordCached(i, s)'
  BY <1>1, <1>3, CachesStay
<1>5. SessionTypes'
  BY <1>1 DEF SessionTypes, Time
<1>6. \A q \in Requests : request'[q] # None => now' <= request[q].since + RequestLife
  BY <1>1 DEF SessionInv, Alive
<1>. QED  BY <1>1, <1>3, <1>4, <1>5, <1>6, RequestsStay

LEMMA RestartInv ==
    ASSUME SessionInv, NEW i \in Instances, restart(i)
    PROVE  SessionInv'
<1>1. /\ SessionTypes /\ now \in Nat /\ now' = now /\ UNCHANGED tables
      /\ cache' = [cache EXCEPT ![i] = [s \in Sessions |-> None]]
      /\ active_user_cache' = [active_user_cache EXCEPT ![i] = None]
      /\ request' = [q \in Requests |->
                        IF request[q] # None /\ request[q].at = i THEN None
                        ELSE request[q]]
  BY DEF SessionInv, SessionTypes, restart
<1>2. /\ TablesGo /\ active' \in BOOLEAN /\ deactivated' \in Time
      /\ expires' \in [Sessions -> Time] /\ revoked' \in [Sessions -> Time]
      /\ cached_expiry' \in [Sessions -> Time]
  BY <1>1, TablesStay
<1>3. /\ cache' \in [Instances -> [Sessions -> Time]]
      /\ \A j \in Instances, s \in Sessions : cache'[j][s] \in {cache[j][s], None}
  BY <1>1 DEF SessionTypes, Time
<1>4. /\ active_user_cache' \in [Instances -> Time]
      /\ \A j \in Instances : active_user_cache'[j] \in {active_user_cache[j], None}
  BY <1>1 DEF SessionTypes, Time
<1>5. /\ request' \in [Requests -> SessionRequest \cup {None}]
      /\ \A q \in Requests : request'[q] \in {request[q], None}
  BY <1>1 DEF SessionTypes
<1>6. \A j \in Instances : UserCached(j)' /\ \A s \in Sessions : RecordCached(j, s)'
  BY <1>1, <1>2, <1>3, <1>4, UserKeeps, RecordKeeps
<1>7. SessionTypes'
  BY <1>1, <1>2, <1>3, <1>4, <1>5 DEF SessionTypes
<1>8. \A q \in Requests : request'[q] # None => now' <= request[q].since + RequestLife
  BY <1>1, <1>5 DEF SessionInv, Alive
<1>. QED  BY <1>1, <1>2, <1>5, <1>6, <1>7, <1>8, RequestsStay

LEMMA TickInv == ASSUME SessionInv, session_tick  PROVE  SessionInv'
<1>1. /\ SessionTypes /\ now \in Nat /\ now' = now + 1 /\ UNCHANGED tables
      /\ request' = request
      /\ cache' = [i \in Instances |-> [s \in Sessions |-> Kept(cache[i][s])]]
      /\ active_user_cache' = [i \in Instances |-> Kept(active_user_cache[i])]
      /\ \A q \in Requests : request[q] # None => now < request[q].since + RequestLife
  BY DEF SessionInv, SessionTypes, session_tick, Tick
<1>2. /\ TablesGo /\ active' \in BOOLEAN /\ deactivated' \in Time
      /\ expires' \in [Sessions -> Time] /\ revoked' \in [Sessions -> Time]
      /\ cached_expiry' \in [Sessions -> Time]
  BY <1>1, TablesStay
<1>3. /\ cache' \in [Instances -> [Sessions -> Time]]
      /\ \A j \in Instances, s \in Sessions : cache'[j][s] \in {cache[j][s], None}
  BY <1>1 DEF SessionTypes, Time, Kept
<1>4. /\ active_user_cache' \in [Instances -> Time]
      /\ \A j \in Instances : active_user_cache'[j] \in {active_user_cache[j], None}
  BY <1>1 DEF SessionTypes, Time, Kept
<1>5. now' \in Nat /\ now <= now'
  BY <1>1
<1>6. \A j \in Instances : UserCached(j)' /\ \A s \in Sessions : RecordCached(j, s)'
  BY <1>2, <1>3, <1>4, <1>5, UserKeeps, RecordKeeps
<1>7. SessionTypes'
  BY <1>1, <1>2, <1>3, <1>4, <1>5 DEF SessionTypes
<1>8. \A q \in Requests : request'[q] # None => now' <= request[q].since + RequestLife
  <2>. SUFFICES ASSUME NEW q \in Requests, request[q] # None
                PROVE  now + 1 <= request[q].since + RequestLife
    BY <1>1
  <2>1. request[q].since \in Nat /\ RequestLife \in Nat
    BY LifeAssumption DEF SessionInv, Alive
  <2>. QED  BY <1>1, <2>1
<1>. QED  BY <1>1, <1>2, <1>5, <1>6, <1>7, <1>8, RequestsStay

LEMMA SessionInitInv == SessionInit => SessionInv
<1>. SUFFICES ASSUME SessionInit  PROVE  SessionInv
  OBVIOUS
<1>1. SessionTypes
  BY DEF SessionInit, SessionTypes, Time
<1>2. /\ \A s \in Sessions : OneExpiry(s)
      /\ \A i \in Instances : UserCached(i) /\ \A s \in Sessions : RecordCached(i, s)
      /\ \A q \in Requests : Alive(q) /\ request[q] = None
  BY DEF SessionInit, OneExpiry, UserCached, RecordCached, Alive
<1>. QED  BY <1>1, <1>2 DEF SessionInv

LEMMA SessionIdle == ASSUME SessionInv, UNCHANGED sessionVars  PROVE  SessionInv'
<1>1. /\ UNCHANGED tables /\ now' = now /\ request' = request
      /\ UNCHANGED <<cache, active_user_cache>> /\ now \in Nat
      /\ SessionTypes
  BY DEF SessionInv, SessionTypes, sessionVars, tables
<1>2. SessionTypes' /\ TablesGo
  BY <1>1, TablesStay DEF SessionTypes
<1>3. \A q \in Requests : request'[q] # None => now' <= request[q].since + RequestLife
  BY <1>1 DEF SessionInv, Alive
<1>. QED  BY <1>1, <1>2, <1>3, CachesStay, RequestsStay

LEMMA SessionNextInv == SessionInv /\ [SessionNext]_sessionVars => SessionInv'
<1>. SUFFICES ASSUME SessionInv, [SessionNext]_sessionVars  PROVE  SessionInv'
  OBVIOUS
<1>1. ASSUME NEW q \in Requests,
             \/ \E i \in Instances, s \in Sessions : require_auth(q, i, s)
             \/ load(q) \/ cache_record(q) \/ user_is_active(q) \/ note_active(q)
             \/ handle(q) \/ delete(q) \/ evict(q)
      PROVE  SessionInv'
  BY <1>1, RequireAuthInv, LoadInv, CacheRecordInv, UserIsActiveInv, NoteActiveInv,
     HandleInv, DeleteInv, EvictInv
<1>2. ASSUME NEW q \in Requests,
             \/ \E i \in Instances, s \in Sessions \cup {None} : login(q, i, s)
             \/ cycle_id(q) \/ (\E s \in Sessions : create(q, s)) \/ save(q)
             \/ session_request_lost(q)
      PROVE  SessionInv'
  BY <1>2, LoginInv, CycleIdInv, CreateInv, SaveInv, LostInv
<1>. QED  BY <1>1, <1>2, RestartInv, DeactivateInv, TickInv, SessionIdle DEF SessionNext

\* The inductive invariant of sessions: a cached record, or a cached user, was read
\* by a request that was under way when it cached it, and a request that goes on
\* has read a row, or a record that is at most CACHE_TTL older.
THEOREM SessionInvariant == SessionSpec => []SessionInv
  BY SessionInitInv, SessionNextInv, PTL DEF SessionSpec

\* A request passes require_auth only if its session had not been deleted, nor its
\* user deactivated, more than RequestLife + CACHE_TTL before it arrived, and never
\* after the session's expiry, however many instances cache what they read in
\* load() and user_is_active, whatever is evicted and whichever of them restart.
THEOREM RevocationAlwaysTakesEffect == SessionSpec => []RevocationTakesEffect
<1>1. SessionInv => RevocationTakesEffect
  <2>. SUFFICES ASSUME SessionInv, NEW q \in Requests, At(q, "run")
                PROVE  LET s == request[q].sid
                           since == request[q].since
                       IN  /\ since < cached_expiry[s]
                           /\ expires[s] # None \/ since <= Grace(revoked[s])
                           /\ active \/ since <= Grace(deactivated)
    BY DEF RevocationTakesEffect
  <2>. DEFINE s == request[q].sid
              since == request[q].since
  <2>1. /\ since < cached_expiry[s] /\ since \in Nat /\ s \in Sessions
        /\ ThereAt(s, since - Lag) /\ ActiveAt(since - Lag)
    BY DEF SessionInv, At, Checked, Unexpired, Alive
  <2>2. /\ revoked[s] # None => revoked[s] \in Nat
        /\ deactivated # None => deactivated \in Nat
        /\ RequestLife \in Nat /\ CACHE_TTL \in Nat
    BY <2>1, LifeAssumption DEF SessionInv, SessionTypes, Time
  <2>. HIDE DEF s, since
  <2>3. revoked[s] # None /\ since - Lag <= revoked[s] => since <= Grace(revoked[s])
    BY <2>1, <2>2 DEF Lag, Grace
  <2>4. deactivated # None /\ since - Lag <= deactivated => since <= Grace(deactivated)
    BY <2>1, <2>2 DEF Lag, Grace
  <2>. QED  BY <2>1, <2>3, <2>4 DEF ThereAt, ActiveAt, s, since
<1>. QED  BY <1>1, SessionInvariant, PTL

-----------------------------------------------------------------------------
(* Photos.                                                                 *)

PhotoRequest == [pc : {"head", "record", "sign"}, loan : Loans \cup {None},
                 key : Keys, since : Nat]
Intent == [loan : Loans, issued : Nat]

IsPhoto(r) ==
    /\ r = [id |-> r.id, loan |-> r.loan, key |-> r.key, sort |-> r.sort,
            featured |-> r.featured]
    /\ r.key \in Keys

PhotoTypes ==
    /\ now \in Nat
    /\ intent \in [Keys -> Intent \cup {None}]
    /\ object \subseteq Keys /\ orphan \in [Keys -> Nat]
    /\ \A r \in rows : IsPhoto(r)
    /\ request \in [Requests -> PhotoRequest \cup {None}]
    /\ downloads \in [Keys -> Time] /\ removed \in [Keys -> Time]

\* An object under the key of an intent was put there by its URL, and no row has
\* referred to it since at some time after the intent was issued.
Uploaded(k) ==
    /\ intent[k] # None => intent[k].issued <= now
    /\ k \in object \cap Intents =>
          /\ intent[k] # None
          /\ Referenced(k) \/ orphan[k] >= intent[k].issued

\* A URL is as young as its request, which found a row.
Signed(k) ==
    downloads[k] # None =>
        /\ downloads[k] <= now + DOWNLOAD_EXPIRY
        /\ \/ Referenced(k)
           \/ /\ removed[k] # None
              /\ downloads[k] <= removed[k] + RequestLife + DOWNLOAD_EXPIRY

\* What a request has found out.
Found(q) ==
    LET k == request[q].key
        since == request[q].since
    IN  /\ request[q].pc \in {"head", "record"} =>
              /\ k \in Intents /\ intent[k] # None
              /\ since <= intent[k].issued + UPLOAD_EXPIRY
        /\ request[q].pc = "record" => k \in object
        /\ request[q].pc = "sign" =>
              Referenced(k) \/ (removed[k] # None /\ since <= removed[k])

PhotoInv ==
    /\ PhotoTypes
    /\ RowHasBytes
    /\ \A k \in Keys : Uploaded(k) /\ Signed(k)
    /\ \A q \in Requests : Alive(q) /\ (request[q] # None => Found(q))

\* Intents stay; a key loses its rows only with a note of the time.
KeysGo ==
    \A k \in Keys :
        /\ intent[k] # None => intent'[k] = intent[k]
        /\ \/ Referenced(k)'
           \/ removed'[k] = now
           \/ ~Referenced(k) /\ removed'[k] = removed[k]

LEMMA LifeTypes ==
    /\ UPLOAD_EXPIRY \in Nat /\ DOWNLOAD_EXPIRY \in Nat /\ RequestLife \in Nat /\ Window \in Nat
    /\ Window > UPLOAD_EXPIRY + RequestLife
  BY WindowAssumption

\* What is known of a request that stays as it is remains true.
LEMMA FoundKeeps ==
    ASSUME PhotoInv, KeysGo, NEW q \in Requests, request[q] # None, request'[q] = request[q],
           request[q].pc = "record" => request[q].key \in object'
    PROVE  Found(q)'
<1>. DEFINE k == request[q].key
            since == request[q].since
<1>1. /\ Found(q) /\ k \in Keys /\ since \in Nat /\ since <= now /\ now \in Nat /\ now # None
      /\ removed[k] # None => removed[k] \in Nat
  BY NoneAssumption DEF PhotoInv, PhotoTypes, PhotoRequest, Alive, Time
<1>2. request[q].pc \in {"head", "record"} => intent'[k] = intent[k] /\ intent[k] # None
  BY <1>1 DEF Found, KeysGo
<1>3. request[q].pc = "sign" => Referenced(k)' \/ (removed'[k] # None /\ since <= removed'[k])
  BY <1>1 DEF Found, KeysGo
<1>4. Referenced(k)' => Referenced(request[q].key)'
  BY DEF Referenced
<1>. QED  BY <1>1, <1>2, <1>3, <1>4 DEF Found

\* URLs that nobody signs anew.
LEMMA SignedKeeps ==
    ASSUME PhotoInv, KeysGo, now' \in Nat, now <= now', NEW k \in Keys,
           downloads'[k] \in {downloads[k], None}
    PROVE  Signed(k)'
<1>. SUFFICES ASSUME downloads'[k] # None, downloads[k] # None, downloads'[k] = downloads[k]
              PROVE  Signed(k)'
  BY DEF Signed
<1>1. /\ Signed(k) /\ now \in Nat /\ now # None /\ downloads[k] \in Nat
      /\ removed[k] # None => removed[k] \in Nat
  BY NoneAssumption DEF PhotoInv, PhotoTypes, Time
<1>2. downloads[k] <= now + DOWNLOAD_EXPIRY
  BY <1>1 DEF Signed
<1>3. downloads[k] <= now' + DOWNLOAD_EXPIRY
  BY <1>1, <1>2, LifeTypes
<1>4. downloads[k] <= now + RequestLife + DOWNLOAD_EXPIRY
  BY <1>1, <1>2, LifeTypes
<1>5. \/ Referenced(k)'
      \/ /\ removed'[k] # None
         /\ downloads[k] <= removed'[k] + RequestLife + DOWNLOAD_EXPIRY
  <2>1. CASE removed'[k] = now
    BY <1>1, <1>4, <2>1
  <2>2. CASE ~Referenced(k) /\ removed'[k] = removed[k]
    BY <1>1, <2>2 DEF Signed
  <2>. QED  BY <2>1, <2>2 DEF KeysGo
<1>. QED  BY <1>3, <1>5 DEF Signed

\* A step of one request, or of none.
LEMMA PhotoRequestStep ==
    ASSUME PhotoInv, PhotoTypes', KeysGo, now' = now, NEW q \in Requests,
           \A p \in Requests \ {q} : request'[p] = request[p],
           request'[q] # None => Found(q)' /\ \/ request'[q].since = now
                                              \/ /\ request[q] # None
                                                 /\ request'[q].since = request[q].since,
           \A p \in Requests : request[p] # None /\ request[p].pc = "record"
                                  => request[p].key \in object',
           RowHasBytes', \A k \in Keys : Uploaded(k)' /\ Signed(k)'
    PROVE  PhotoInv'
<1>1. ASSUME NEW p \in Requests
      PROVE  Alive(p)' /\ (request'[p] # None => Found(p)')
  <2>0. now \in Nat /\ RequestLife \in Nat /\ Alive(p)
    BY LifeTypes DEF PhotoInv, PhotoTypes
  <2>1. CASE p # q
    BY <2>0, <2>1, FoundKeeps DEF Alive
  <2>2. CASE p = q
    BY <2>0, <2>2 DEF Alive
  <2>. QED  BY <2>1, <2>2
<1>. QED  BY <1>1 DEF PhotoInv

LEMMA PhotoRequestsStay ==
    ASSUME PhotoInv, PhotoTypes', KeysGo, request' = request, now <= now',
           \A p \in Requests : request[p] # None =>
               /\ request[p].pc = "record" => request[p].key \in object'
               /\ now' <= request[p].since + RequestLife,
           RowHasBytes', \A k \in Keys : Uploaded(k)' /\ Signed(k)'
    PROVE  PhotoInv'
<1>1. ASSUME NEW p \in Requests
      PROVE  Alive(p)' /\ (request'[p] # None => Found(p)')
  <2>0. now \in Nat /\ now' \in Nat /\ RequestLife \in Nat /\ Alive(p)
    BY LifeTypes DEF PhotoInv, PhotoTypes
  <2>. QED  BY <2>0, FoundKeeps DEF Alive
<1>. QED  BY <1>1 DEF PhotoInv

\* Rows, objects and intents that nobody touches.
LEMMA RowsStay ==
    ASSUME PhotoInv, UNCHANGED <<intent, object, orphan, rows, removed>>, now <= now', now' \in Nat
    PROVE  /\ KeysGo /\ RowHasBytes' /\ \A k \in Keys : Uploaded(k)'
           /\ intent' \in [Keys -> Intent \cup {None}]
           /\ object' \subseteq Keys /\ orphan' \in [Keys -> Nat]
           /\ \A r \in rows' : IsPhoto(r)
           /\ removed' \in [Keys -> Time]
           /\ \A p \in Requests : request[p] # None /\ request[p].pc = "record"
                                     => request[p].key \in object'
<1>1. /\ PhotoTypes /\ RowHasBytes /\ now \in Nat
      /\ \A k \in Keys : Uploaded(k)
      /\ \A p \in Requests : request[p] # None => Found(p)
  BY DEF PhotoInv, PhotoTypes
<1>2. KeysGo
  BY DEF KeysGo, Referenced
<1>3. RowHasBytes'
  BY <1>1 DEF RowHasBytes
<1>4. ASSUME NEW k \in Keys  PROVE  Uploaded(k)'
  <2>1. intent[k] # None => intent[k].issued \in Nat
    BY <1>1 DEF PhotoTypes, Intent
  <2>. QED  BY <1>1, <2>1 DEF Uploaded, Referenced
<1>5. \A p \in Requests : request[p] # None /\ request[p].pc = "record"
                             => request[p].key \in object'
  BY <1>1 DEF Found
<1>. QED  BY <1>1, <1>2, <1>3, <1>4, <1>5 DEF PhotoTypes

LEMMA IntentInv ==
    ASSUME PhotoInv, NEW l \in Loans, NEW i \in Intents, create_photo_upload_intent(l, i)
    PROVE  PhotoInv'
<1>. DEFINE new == [loan |-> l, issued |-> now]
<1>1. /\ PhotoTypes /\ intent[i] = None /\ intent' = [intent EXCEPT ![i] = new]
      /\ UNCHANGED <<object, orphan, rows, request, downloads, removed, now>>
      /\ now \in Nat /\ RowHasBytes
      /\ \A k \in Keys : Uploaded(k)
  BY DEF PhotoInv, PhotoTypes, create_photo_upload_intent, PhotoStep
<1>2. new \in Intent /\ new.issued = now
  BY <1>1 DEF Intent
<1>. HIDE DEF new
<1>3. /\ intent' \in [Keys -> Intent \cup {None}]
      /\ \A k \in Keys \ {i} : intent'[k] = intent[k]
      /\ i \in Keys => intent'[i] = new
  BY <1>1, <1>2 DEF PhotoTypes
<1>4. KeysGo
  BY <1>1, <1>3 DEF KeysGo, Referenced
<1>5. ASSUME NEW k \in Keys  PROVE  Uploaded(k)'
  <2>1. CASE k = i
    <3>1. k \notin object \cap Intents
      BY <1>1, <2>1 DEF Uploaded
    <3>. QED  BY <1>1, <1>2, <1>3, <2>1, <3>1 DEF Uploaded
  <2>2. CASE k # i
    BY <1>1, <1>3, <2>2 DEF Uploaded, Referenced
  <2>. QED  BY <2>1, <2>2
<1>6. \A k \in Keys : Signed(k)'
  BY <1>1, <1>4, SignedKeeps
<1>7. \A p \in Requests : request[p] # None =>
          /\ request[p].pc = "record" => request[p].key \in object'
          /\ now' <= request[p].since + RequestLife
  BY <1>1 DEF PhotoInv, Found, Alive
<1>8. PhotoTypes' /\ RowHasBytes'
  BY <1>1, <1>3 DEF PhotoTypes, RowHasBytes
<1>. QED  BY <1>1, <1>4, <1>5, <1>6, <1>7, <1>8, PhotoRequestsStay

LEMMA UploadInv ==
    ASSUME PhotoInv, NEW i \in Intents, upload(i)
    PROVE  PhotoInv'
<1>1. /\ PhotoTypes /\ intent[i] # None /\ object' = object \cup {i} /\ i \in Keys
      /\ orphan' = [orphan EXCEPT ![i] = IF Referenced(i) THEN 0 ELSE now]
      /\ UNCHANGED <<intent, rows, request, downloads, removed, now>>
      /\ now \in Nat /\ RowHasBytes
      /\ \A k \in Keys : Uploaded(k)
  BY DEF PhotoInv, PhotoTypes, upload, PhotoStep, Keys
<1>2. /\ orphan' \in [Keys -> Nat]
      /\ \A k \in Keys \ {i} : orphan'[k] = orphan[k]
      /\ ~Referenced(i) => orphan'[i] = now
  BY <1>1 DEF PhotoTypes
<1>3. KeysGo
  BY <1>1 DEF KeysGo, Referenced
<1>4. ASSUME NEW k \in Keys  PROVE  Uploaded(k)'
  <2>1. CASE k = i
    BY <1>1, <1>2, <2>1 DEF Uploaded, Referenced
  <2>2. CASE k # i
    BY <1>1, <1>2, <2>2 DEF Uploaded, Referenced
  <2>. QED  BY <2>1, <2>2
<1>5. \A k \in Keys : Signed(k)'
  BY <1>1, <1>3, SignedKeeps
<1>6. \A p \in Requests : request[p] # None =>
          /\ request[p].pc = "record" => request[p].key \in object'
          /\ now' <= request[p].since + RequestLife
  BY <1>1 DEF PhotoInv, Found, Alive
<1>7. PhotoTypes' /\ RowHasBytes'
  BY <1>1, <1>2 DEF PhotoTypes, RowHasBytes
<1>. QED  BY <1>1, <1>3, <1>4, <1>5, <1>6, <1>7, PhotoRequestsStay

\* A request begins.
LEMMA BeginInv ==
    ASSUME PhotoInv, NEW q \in Requests, NEW label \in {"head", "sign"},
           NEW l \in Loans \cup {None}, NEW k \in Keys, Begin(q, label, l, k),
           UNCHANGED <<intent, object, orphan, rows, downloads, removed, now>>,
           label = "head" => /\ k \in Intents /\ intent[k] # None
                             /\ now <= intent[k].issued + UPLOAD_EXPIRY,
           label = "sign" => Referenced(k)
    PROVE  PhotoInv'
<1>. DEFINE r == [pc |-> label, loan |-> l, key |-> k, since |-> now]
<1>1. PhotoTypes /\ now \in Nat /\ request' = [request EXCEPT ![q] = r]
  BY DEF PhotoInv, PhotoTypes, Begin
<1>2. r \in PhotoRequest /\ r.pc = label /\ r.key = k /\ r.since = now
  BY <1>1 DEF PhotoRequest
<1>. HIDE DEF r
<1>3. /\ request' \in [Requests -> PhotoRequest \cup {None}] /\ request'[q] = r
      /\ \A p \in Requests \ {q} : request'[p] = request[p]
  BY <1>1, <1>2 DEF PhotoTypes
<1>4. Found(q)'
  <2>1. label = "sign" => Referenced(request[q].key)'
    BY <1>2, <1>3 DEF Referenced
  <2>. QED  BY <1>2, <1>3, <2>1 DEF Found
<1>5. KeysGo /\ now <= now' /\ \A j \in Keys : Signed(j)'
  BY <1>1, RowsStay, SignedKeeps
<1>6. PhotoTypes'
  BY <1>1, <1>3, RowsStay DEF PhotoTypes
<1>. QED  BY <1>1, <1>2, <1>3, <1>4, <1>5, <1>6, RowsStay, PhotoRequestStep

LEMMA FinalizeInv ==
    ASSUME PhotoInv, NEW q \in Requests, NEW l \in Loans, NEW k \in Intents,
           finalize_photo_upload(q, l, k)
    PROVE  PhotoInv'
<1>1. /\ intent[k] # None /\ ~(intent[k].issued + UPLOAD_EXPIRY < now)
      /\ Begin(q, "head", l, k) /\ k \in Keys
      /\ UNCHANGED <<intent, object, orphan, rows, downloads, removed, now>>
  BY DEF finalize_photo_upload, verify_claims, PhotoStep, Keys
<1>2. now <= intent[k].issued + UPLOAD_EXPIRY
  BY <1>1, LifeTypes DEF PhotoInv, PhotoTypes, Intent
<1>. QED  BY <1>1, <1>2, BeginInv

LEMMA ServeInv ==
    ASSUME PhotoInv, NEW q \in Requests, NEW k \in Keys, serve_loan_photo(q, k)
    PROVE  PhotoInv'
<1>1. /\ Referenced(k) /\ Begin(q, "sign", None, k)
      /\ UNCHANGED <<intent, object, orphan, rows, downloads, removed, now>>
  BY DEF serve_loan_photo, PhotoStep
<1>. QED  BY <1>1, BeginInv

\* A request ends without a trace.
LEMMA PhotoAnswerInv ==
    ASSUME PhotoInv, NEW q \in Requests, Answer(q),
           UNCHANGED <<intent, object, orphan, rows, removed, now>>,
           downloads' \in [Keys -> Time], \A k \in Keys : Signed(k)'
    PROVE  PhotoInv'
<1>1. /\ PhotoTypes /\ now \in Nat /\ request' = [request EXCEPT ![q] = None]
  BY DEF PhotoInv, PhotoTypes, Answer
<1>2. /\ request' \in [Requests -> PhotoRequest \cup {None}] /\ request'[q] = None
      /\ \A p \in Requests \ {q} : request'[p] = request[p]
  BY <1>1 DEF PhotoTypes
<1>3. PhotoTypes'
  BY <1>1, <1>2, RowsStay DEF PhotoTypes
<1>. QED  BY <1>1, <1>2, <1>3, RowsStay, PhotoRequestStep

LEMMA PhotoLostInv ==
    ASSUME PhotoInv, NEW q \in Requests, photo_request_lost(q)
    PROVE  PhotoInv'
<1>1. /\ Answer(q) /\ UNCHANGED <<intent, object, orphan, rows, downloads, removed, now>>
      /\ now \in Nat /\ downloads' \in [Keys -> Time]
  BY DEF photo_request_lost, Lost, PhotoStep, PhotoInv, PhotoTypes
<1>2. KeysGo /\ now <= now'
  BY <1>1, RowsStay
<1>. QED  BY <1>1, <1>2, SignedKeeps, PhotoAnswerInv

LEMMA VerifyInv ==
    ASSUME PhotoInv, NEW q \in Requests, verify_uploaded_intent(q)
    PROVE  PhotoInv'
<1>1. /\ PhotoTypes /\ request[q] # None /\ request[q].pc = "head" /\ Found(q)
      /\ request[q] \in PhotoRequest
      /\ UNCHANGED <<intent, object, orphan, rows, downloads, removed, now>>
      /\ now \in Nat /\ downloads' \in [Keys -> Time]
  BY DEF verify_uploaded_intent, At, PhotoStep, PhotoInv, PhotoTypes
<1>2. KeysGo /\ now <= now'
  BY <1>1, RowsStay
<1>3. \A k \in Keys : Signed(k)'
  BY <1>1, <1>2, SignedKeeps
<1>4. CASE request[q].key \in object /\ Goto(q, "record")
  <2>1. /\ request' \in [Requests -> PhotoRequest \cup {None}]
        /\ \A p \in Requests \ {q} : request'[p] = request[p]
        /\ request'[q].pc = "record" /\ request'[q].key = request[q].key
        /\ request'[q].since = request[q].since
    BY <1>1, <1>4 DEF PhotoTypes, PhotoRequest, Goto
  <2>2. Found(q)'
    BY <1>1, <1>4, <2>1 DEF Found
  <2>3. PhotoTypes'
    BY <1>1, <2>1, RowsStay DEF PhotoTypes
  <2>. QED  BY <1>1, <1>2, <1>3, <2>1, <2>2, <2>3, RowsStay, PhotoRequestStep
<1>5. CASE Answer(q)
  BY <1>1, <1>3, <1>5, PhotoAnswerInv
<1>. QED  BY <1>4, <1>5 DEF verify_uploaded_intent

LEMMA RecordPhotoInv ==
    ASSUME PhotoInv, NEW q \in Requests, create_manual_photo_metadata(q)
    PROVE  PhotoInv'
<1>0. PICK l, k : l = request[q].loan /\ k = request[q].key
  OBVIOUS
<1>1. /\ PhotoTypes /\ request[q] # None /\ Found(q) /\ Answer(q) /\ now \in Nat /\ RowHasBytes
      /\ UNCHANGED <<intent, object, downloads, now>> /\ downloads' \in [Keys -> Time]
      /\ k \in Keys /\ k \in object
      /\ \A j \in Keys : Uploaded(j)
  BY <1>0 DEF create_manual_photo_metadata, At, PhotoStep, PhotoInv, PhotoTypes, PhotoRequest,
             Found
<1>2. CASE UNCHANGED <<rows, orphan, removed>>
  <2>1. KeysGo /\ now <= now'
    BY <1>1, <1>2, RowsStay
  <2>. QED  BY <1>1, <1>2, <2>1, SignedKeeps, PhotoAnswerInv
<1>3. ASSUME NEW id, NEW sort,
             rows' = rows \cup {[id |-> id, loan |-> l, key |-> k, sort |-> sort,
                                 featured |-> FALSE]},
             orphan' = [orphan EXCEPT ![k] = 0], removed' = [removed EXCEPT ![k] = None]
      PROVE  PhotoInv'
  <2>. DEFINE r == [id |-> id, loan |-> l, key |-> k, sort |-> sort, featured |-> FALSE]
  <2>1. IsPhoto(r) /\ r.key = k
    BY <1>1 DEF IsPhoto
  <2>2. rows' = rows \cup {r}
    BY <1>3
  <2>. HIDE DEF r
  <2>3. /\ (\A p \in rows' : IsPhoto(p)) /\ RowHasBytes' /\ Referenced(k)'
        /\ \A j \in Keys : Referenced(j) => Referenced(j)'
    BY <1>1, <2>1, <2>2 DEF PhotoTypes, RowHasBytes, Referenced
  <2>4. /\ orphan' \in [Keys -> Nat] /\ removed' \in [Keys -> Time]
        /\ \A j \in Keys \ {k} : orphan'[j] = orphan[j] /\ removed'[j] = removed[j]
    BY <1>1, <1>3 DEF PhotoTypes, Time
  <2>5. KeysGo
    <3>. SUFFICES ASSUME NEW j \in Keys
                  PROVE  /\ intent[j] # None => intent'[j] = intent[j]
                         /\ \/ Referenced(j)'
                            \/ removed'[j] = now
                            \/ ~Referenced(j) /\ removed'[j] = removed[j]
      BY DEF KeysGo
    <3>1. CASE j = k
      BY <1>1, <2>3, <3>1
    <3>2. CASE j # k
      BY <1>1, <2>3, <2>4, <3>2
    <3>. QED  BY <3>1, <3>2
  <2>6. ASSUME NEW j \in Keys  PROVE  Uploaded(j)' /\ Signed(j)'
    <3>1. Signed(j)'
      BY <1>1, <2>5, SignedKeeps
    <3>2. CASE j = k
      BY <1>1, <2>3, <3>1, <3>2 DEF Uploaded
    <3>3. CASE j # k
      BY <1>1, <2>3, <2>4, <3>1, <3>3 DEF Uploaded
    <3>. QED  BY <3>2, <3>3
  <2>7. /\ request' \in [Requests -> PhotoRequest \cup {None}] /\ request'[q] = None
        /\ \A p \in Requests \ {q} : request'[p] = request[p]
    BY <1>1 DEF PhotoTypes, Answer
  <2>8. PhotoTypes'
    BY <1>1, <2>3, <2>4, <2>7 DEF PhotoTypes
  <2>9. \A p \in Requests : request[p] # None /\ request[p].pc = "record"
                               => request[p].key \in object'
    BY <1>1 DEF PhotoInv, Found
  <2>. QED  BY <1>1, <2>3, <2>5, <2>6, <2>7, <2>8, <2>9, PhotoRequestStep
<1>. QED  BY <1>0, <1>2, <1>3 DEF create_manual_photo_metadata

\* Only rows change, and the keys that they refer to do not.
LEMMA SameKeysInv ==
    ASSUME PhotoInv, UNCHANGED <<intent, object, orphan, request, downloads, removed, now>>,
           \A r \in rows' : IsPhoto(r) /\ \E p \in rows : p.key = r.key,
           \A p \in rows : \E r \in rows' : r.key = p.key
    PROVE  PhotoInv'
<1>1. /\ PhotoTypes /\ now \in Nat /\ RowHasBytes
      /\ \A k \in Keys : Uploaded(k)
  BY DEF PhotoInv, PhotoTypes
<1>2. \A k \in Keys : Referenced(k)' <=> Referenced(k)
  BY DEF Referenced
<1>3. KeysGo
  BY <1>2 DEF KeysGo
<1>4. \A k \in Keys : Uploaded(k)' /\ Signed(k)'
  BY <1>1, <1>2, <1>3, SignedKeeps DEF Uploaded
<1>5. RowHasBytes' /\ PhotoTypes'
  BY <1>1 DEF RowHasBytes, PhotoTypes
<1>6. \A p \in Requests : request[p] # None =>
          /\ request[p].pc = "record" => request[p].key \in object'
          /\ now' <= request[p].since + RequestLife
  BY <1>1 DEF PhotoInv, Found, Alive
<1>. QED  BY <1>1, <1>3, <1>4, <1>5, <1>6, PhotoRequestsStay

LEMMA FeaturedInv ==
    ASSUME PhotoInv, NEW l \in Loans, NEW r \in rows, set_featured_photo(l, r)
    PROVE  PhotoInv'
<1>. DEFINE Turned(p) == [p EXCEPT !.featured = (p.id = r.id)]
<1>1. /\ rows' = (rows \ photos_of(l)) \cup {Turned(p) : p \in photos_of(l)}
      /\ UNCHANGED <<intent, object, orphan, request, downloads, removed, now>>
      /\ \A p \in rows : IsPhoto(p)
  BY DEF set_featured_photo, PhotoStep, PhotoInv, PhotoTypes
<1>2. ASSUME NEW p \in rows  PROVE  IsPhoto(Turned(p)) /\ Turned(p).key = p.key
  <2>1. PICK i, m, k, s, f :
          /\ p = [id |-> i, loan |-> m, key |-> k, sort |-> s, featured |-> f]
          /\ k \in Keys
    BY <1>1 DEF IsPhoto
  <2>2. Turned(p) = [id |-> i, loan |-> m, key |-> k, sort |-> s, featured |-> (p.id = r.id)]
    BY <2>1
  <2>. QED  BY <2>1, <2>2 DEF IsPhoto
<1>. HIDE DEF Turned
<1>3. photos_of(l) \subseteq rows
  BY DEF photos_of
<1>4. \A s \in rows' : IsPhoto(s) /\ \E p \in rows : p.key = s.key
  BY <1>1, <1>2, <1>3
<1>5. ASSUME NEW p \in rows  PROVE  \E s \in rows' : s.key = p.key
  <2>1. CASE p \in photos_of(l)
    BY <1>1, <1>2, <2>1
  <2>2. CASE p \notin photos_of(l)
    BY <1>1, <2>2
  <2>. QED  BY <2>1, <2>2
<1>. QED  BY <1>1, <1>4, <1>5, SameKeysInv

LEMMA RemoveInv ==
    ASSUME PhotoInv, NEW l \in Loans, NEW r \in rows, delete_photo_metadata(l, r)
    PROVE  PhotoInv'
<1>1. /\ PhotoTypes /\ now \in Nat /\ RowHasBytes /\ IsPhoto(r)
      /\ rows' = rows \ {r}
      /\ orphan' = [orphan EXCEPT ![r.key] = now]
      /\ removed' = [removed EXCEPT ![r.key] = now]
      /\ UNCHANGED <<intent, object, request, downloads, now>>
      /\ \A k \in Keys : Uploaded(k)
  BY DEF delete_photo_metadata, PhotoStep, PhotoInv, PhotoTypes
<1>2. PICK d \in Keys : d = r.key
  BY <1>1 DEF IsPhoto
<1>3. /\ orphan' \in [Keys -> Nat] /\ removed' \in [Keys -> Time]
      /\ orphan'[d] = now /\ removed'[d] = now
      /\ \A j \in Keys \ {d} : orphan'[j] = orphan[j] /\ removed'[j] = removed[j]
  BY <1>1, <1>2 DEF PhotoTypes, Time
<1>4. /\ \A j \in Keys \ {d} : Referenced(j)' <=> Referenced(j)
      /\ RowHasBytes' /\ \A p \in rows' : IsPhoto(p)
  BY <1>1, <1>2 DEF Referenced, RowHasBytes, PhotoTypes
<1>5. KeysGo
  BY <1>1, <1>3, <1>4 DEF KeysGo
<1>6. ASSUME NEW k \in Keys  PROVE  Uploaded(k)' /\ Signed(k)'
  <2>1. Signed(k)'
    BY <1>1, <1>5, SignedKeeps
  <2>2. intent[k] # None => intent[k].issued \in Nat
    BY <1>1 DEF PhotoTypes, Intent
  <2>3. CASE k = d
    BY <1>1, <1>3, <2>1, <2>2, <2>3 DEF Uploaded
  <2>4. CASE k # d
    BY <1>1, <1>3, <1>4, <2>1, <2>4 DEF Uploaded
  <2>. QED  BY <2>3, <2>4
<1>7. PhotoTypes'
  BY <1>1, <1>3, <1>4 DEF PhotoTypes
<1>8. \A p \in Requests : request[p] # None =>
          /\ request[p].pc = "record" => request[p].key \in object'
          /\ now' <= request[p].since + RequestLife
  BY <1>1 DEF PhotoInv, Found, Alive
<1>. QED  BY <1>1, <1>4, <1>5, <1>6, <1>7, <1>8, PhotoRequestsStay

LEMMA SignInv ==
    ASSUME PhotoInv, NEW q \in Requests, signed_redirect(q)
    PROVE  PhotoInv'
<1>0. PICK d, since : d = request[q].key /\ since = request[q].since
  OBVIOUS
<1>1. /\ PhotoTypes /\ request[q] # None /\ Found(q) /\ Answer(q) /\ now \in Nat
      /\ request[q].pc = "sign"
      /\ downloads' = [downloads EXCEPT ![d] = now + DOWNLOAD_EXPIRY]
      /\ UNCHANGED <<intent, object, orphan, rows, removed, now>>
      /\ d \in Keys /\ since \in Nat /\ now <= since + RequestLife
  BY <1>0 DEF signed_redirect, At, PhotoStep, PhotoInv, PhotoTypes, PhotoRequest, Alive
<1>2. /\ downloads' \in [Keys -> Time] /\ downloads'[d] = now + DOWNLOAD_EXPIRY
      /\ \A k \in Keys \ {d} : downloads'[k] = downloads[k]
  BY <1>1, LifeTypes DEF PhotoTypes, Time
<1>3. KeysGo /\ now <= now'
  BY <1>1, RowsStay
<1>4. Signed(d)'
  <2>1. Referenced(d) \/ (removed[d] # None /\ since <= removed[d])
    BY <1>0, <1>1 DEF Found
  <2>2. removed[d] # None => removed[d] \in Nat
    BY <1>1 DEF PhotoTypes, Time
  <2>3. removed[d] # None /\ since <= removed[d]
           => now + DOWNLOAD_EXPIRY <= removed[d] + RequestLife + DOWNLOAD_EXPIRY
    BY <1>1, <2>2, LifeTypes
  <2>4. downloads'[d] <= now' + DOWNLOAD_EXPIRY
    BY <1>1, <1>2, LifeTypes
  <2>. QED  BY <1>1, <1>2, <2>1, <2>3, <2>4 DEF Signed, Referenced
<1>5. \A k \in Keys : Signed(k)'
  BY <1>1, <1>2, <1>3, <1>4, SignedKeeps
<1>. QED  BY <1>1, <1>2, <1>5, PhotoAnswerInv

\* The rule takes no object that a request is about to record: such an object is
\* younger than Window, because its intent is.
LEMMA ReclaimInv ==
    ASSUME PhotoInv, NEW d \in Keys, reclaim(d)
    PROVE  PhotoInv'
<1>1. /\ PhotoTypes /\ now \in Nat /\ RowHasBytes
      /\ d \in object /\ ~Referenced(d) /\ now - orphan[d] >= Window
      /\ object' = object \ {d}
      /\ UNCHANGED <<intent, orphan, rows, request, downloads, removed, now>>
      /\ \A k \in Keys : Uploaded(k)
  BY DEF reclaim, PhotoStep, PhotoInv, PhotoTypes
<1>2. KeysGo
  BY <1>1 DEF KeysGo, Referenced
<1>3. \A k \in Keys : Uploaded(k)' /\ Signed(k)'
  BY <1>1, <1>2, SignedKeeps DEF Uploaded, Referenced
<1>4. RowHasBytes' /\ PhotoTypes'
  BY <1>1 DEF RowHasBytes, PhotoTypes, Referenced
<1>5. ASSUME NEW p \in Requests, request[p] # None
      PROVE  /\ request[p].pc = "record" => request[p].key \in object'
             /\ now' <= request[p].since + RequestLife
  <2>1. /\ request[p].since \in Nat /\ now <= request[p].since + RequestLife /\ Found(p)
    BY <1>5 DEF PhotoInv, Alive
  <2>2. CASE request[p].pc = "record" /\ request[p].key = d
    <3>1. /\ d \in Intents /\ intent[d] # None
          /\ request[p].since <= intent[d].issued + UPLOAD_EXPIRY
      BY <2>1, <2>2 DEF Found
    <3>2. orphan[d] >= intent[d].issued
      BY <1>1, <3>1 DEF Uploaded
    <3>3. intent[d].issued \in Nat /\ orphan[d] \in Nat
      BY <1>1, <3>1 DEF PhotoTypes, Intent
    <3>. QED  BY <1>1, <2>1, <3>1, <3>2, <3>3, LifeTypes
  <2>3. request[p].pc = "record" => request[p].key \in object
    BY <2>1 DEF Found
  <2>. QED  BY <1>1, <2>1, <2>2, <2>3
<1>. QED  BY <1>1, <1>2, <1>3, <1>4, <1>5, PhotoRequestsStay

LEMMA PhotoTickInv == ASSUME PhotoInv, photo_tick  PROVE  PhotoInv'
<1>1. /\ PhotoTypes /\ now \in Nat /\ now' = now + 1 /\ request' = request
      /\ downloads' = [k \in Keys |-> IF downloads[k] = now THEN None ELSE downloads[k]]
      /\ UNCHANGED <<intent, object, orphan, rows, removed>>
      /\ \A q \in Requests : request[q] # None => now < request[q].since + RequestLife
  BY DEF photo_tick, Tick, PhotoInv, PhotoTypes
<1>2. now' \in Nat /\ now <= now'
  BY <1>1
<1>3. /\ downloads' \in [Keys -> Time]
      /\ \A k \in Keys : downloads'[k] \in {downloads[k], None}
  BY <1>1 DEF PhotoTypes, Time
<1>4. PhotoTypes'
  BY <1>1, <1>2, <1>3 DEF PhotoTypes
<1>5. ASSUME NEW q \in Requests, request[q] # None
      PROVE  now' <= request[q].since + RequestLife
  <2>1. request[q].since \in Nat
    BY <1>5 DEF PhotoInv, Alive
  <2>. QED  BY <1>1, <1>5, <2>1, LifeTypes
<1>6. KeysGo
  BY <1>1, <1>2, RowsStay
<1>7. \A k \in Keys : Signed(k)'
  BY <1>2, <1>3, <1>6, SignedKeeps
<1>. QED  BY <1>1, <1>2, <1>4, <1>5, <1>6, <1>7, RowsStay, PhotoRequestsStay

LEMMA PhotoIdle == ASSUME PhotoInv, UNCHANGED <<now, photoVars>>  PROVE  PhotoInv'
<1>1. UNCHANGED <<intent, object, orphan, request, downloads, removed, now, rows>>
  BY DEF photoVars
<1>. QED  BY <1>1, SameKeysInv DEF PhotoInv, PhotoTypes

LEMMA PhotoInitInv == WorkspaceInit => PhotoInv
<1>. SUFFICES ASSUME WorkspaceInit  PROVE  PhotoInv
  OBVIOUS
<1>1. \A r \in Imported : IsPhoto(r) /\ r.key \in Keys \ Intents
  BY ImportedAssumption DEF IsPhoto, Keys
<1>2. PhotoTypes
  BY <1>1 DEF WorkspaceInit, PhotoTypes, Time
<1>3. RowHasBytes
  BY <1>1 DEF WorkspaceInit, RowHasBytes
<1>4. ASSUME NEW k \in Keys  PROVE  Uploaded(k) /\ Signed(k)
  BY DEF WorkspaceInit, Uploaded, Signed
<1>5. \A q \in Requests : Alive(q) /\ request[q] = None
  BY DEF WorkspaceInit, Alive
<1>. QED  BY <1>2, <1>3, <1>4, <1>5 DEF PhotoInv

LEMMA PhotoNextInv == PhotoInv /\ [WorkspaceNext]_workspaceVars => PhotoInv'
<1>. SUFFICES ASSUME PhotoInv, [WorkspaceNext]_workspaceVars  PROVE  PhotoInv'
  OBVIOUS
<1>1. CASE LoanNext \/ UNCHANGED workspaceVars
  <2>1. UNCHANGED <<now, photoVars>>
    BY <1>1 DEF LoanNext, import, save_workspace, link_email_to_imported_tmo_loan, unlink_email,
                workspaceVars, photoVars
  <2>. QED  BY <2>1, PhotoIdle
<1>2. CASE PhotoNext
  BY <1>2, IntentInv, UploadInv, FinalizeInv, VerifyInv, RecordPhotoInv, FeaturedInv,
     RemoveInv, ServeInv, SignInv, PhotoLostInv, ReclaimInv, PhotoTickInv DEF PhotoNext
<1>. QED  BY <1>1, <1>2 DEF WorkspaceNext

\* The inductive invariant of photos: an object that a request has seen is younger
\* than the lifecycle rule's window, and a URL is signed within a request's life
\* of a moment at which a row referred to its key.
THEOREM PhotoInvariant == WorkspaceSpec => []PhotoInv
  BY PhotoInitInv, PhotoNextInv, PTL DEF WorkspaceSpec

\* No photo row points at bytes that the bucket's lifecycle rule has taken,
\* although verify_uploaded_intent looks at the object outside the transaction of
\* create_manual_photo_metadata, whatever is deleted, repeated or delayed in
\* between: for every window longer than an intent and a request together.
THEOREM RowsAlwaysHaveBytes == WorkspaceSpec => []RowHasBytes
<1>1. PhotoInv => RowHasBytes
  BY DEF PhotoInv
<1>. QED  BY <1>1, PhotoInvariant, PTL

\* A GET URL that serve_loan_photo authorised by a row and signed later works no
\* longer than RequestLife + DOWNLOAD_EXPIRY after the row's removal, and there is
\* none for a key that never had a row.
THEOREM RemovedAlwaysBecomesUnreachable == WorkspaceSpec => []RemovedBecomesUnreachable
<1>1. PhotoInv => RemovedBecomesUnreachable
  BY DEF PhotoInv, Signed, RemovedBecomesUnreachable
<1>. QED  BY <1>1, PhotoInvariant, PTL

-----------------------------------------------------------------------------
(* Finite sets.                                                            *)

\* Induction over a finite set: a family of its subsets that has the empty one,
\* and with a subset every one that has one element more, has the set itself.
LEMMA FiniteInduction ==
    ASSUME NEW S, IsFiniteSet(S), NEW P \in SUBSET (SUBSET S), {} \in P,
           \A T \in P : \A x \in S : T \cup {x} \in P
    PROVE  S \in P
  <1> DEFINE B == {T \in SUBSET S : T \notin P}
  <1> SUFFICES ASSUME S \notin P PROVE FALSE
    OBVIOUS
  <1>1. FiniteSubsetsOf(S) = SUBSET S
    BY FS_FiniteSubsetsOfFinite
  <1>2. B \subseteq FiniteSubsetsOf(S) /\ B # {}
    BY <1>1
  <1>3. IsWellFoundedOn(StrictSubsetOrdering(S), FiniteSubsetsOf(S))
    BY FS_StrictSubsetOrderingWellFounded
  <1> HIDE DEF B
  <1>4. \E x \in B : \A y \in B : <<y, x>> \notin StrictSubsetOrdering(S)
    BY <1>2, <1>3, WFMin
  <1>5. PICK X \in B : \A Y \in B : <<Y, X>> \notin StrictSubsetOrdering(S)
    BY <1>4
  <1>6. X \in SUBSET S /\ X \notin P /\ X # {}
    BY <1>5 DEF B
  <1>7. PICK x \in X : TRUE
    BY <1>6
  <1>8. X \ {x} \in P
    <2>1. X \ {x} \in B => FALSE
      BY <1>5, <1>6, <1>7 DEF StrictSubsetOrdering
    <2> QED BY <2>1, <1>6 DEF B
  <1> QED BY <1>6, <1>7, <1>8

\* Two different elements of a set with at most one would be two.
LEMMA AtMostOne ==
    ASSUME NEW S, IsFiniteSet(S), Cardinality(S) <= 1, NEW x \in S, NEW y \in S
    PROVE  x = y
  <1>1. Cardinality(S) \in Nat /\ S # {}
    BY FS_CardinalityType
  <1>2. Cardinality(S) = 1
    BY <1>1, FS_EmptySet
  <1>3. PICK z : S = {z}
    BY <1>2, FS_Singleton
  <1> QED BY <1>3

\* The image of a finite set is finite.
LEMMA FiniteValues ==
    ASSUME NEW S, IsFiniteSet(S), NEW f, f = [x \in S |-> f[x]]
    PROVE  IsFiniteSet({f[x] : x \in S})
  <1> DEFINE T == {f[x] : x \in S}
  <1>1. f \in Surjection(S, T)
    BY DEF Surjection
  <1> QED BY <1>1, FS_Surjection

-----------------------------------------------------------------------------
(* The order of photos.                                                    *)

\* A finite set of numbers that has one has a largest.
LEMMA MaxExists ==
    ASSUME NEW S \in SUBSET Int, IsFiniteSet(S), S # {}
    PROVE  Max(S) \in S /\ \A y \in S : Max(S) >= y
  <1> DEFINE P == {T \in SUBSET S : T = {} \/ \E m \in T : \A y \in T : m >= y}
  <1>1. ASSUME NEW T \in P, NEW x \in S
        PROVE  T \cup {x} \in P
    <2>1. CASE T = {}
      BY <2>1
    <2>2. CASE T # {}
      <3>1. PICK m \in T : \A y \in T : m >= y
        BY <2>2
      <3>2. T \subseteq S /\ m \in Int /\ x \in Int
        OBVIOUS
      <3>3. CASE m >= x
        BY <3>1, <3>2, <3>3
      <3>4. CASE x > m
        <4>1. \A y \in T \cup {x} : x >= y
          BY <3>1, <3>2, <3>4
        <4> QED BY <3>2, <4>1
      <3> QED BY <3>2, <3>3, <3>4
    <2> QED BY <2>1, <2>2
  <1>2. {} \in P /\ P \in SUBSET (SUBSET S)
    OBVIOUS
  <1> HIDE DEF P
  <1>3. S \in P
    BY <1>1, <1>2, FiniteInduction
  <1>4. \E m \in S : \A y \in S : m >= y
    BY <1>3 DEF P
  <1> QED BY <1>4 DEF Max

\* Photos that can be put in order.
Orderable(S) ==
    /\ IsFiniteSet(S)
    /\ \A p \in S : p.id \in Int /\ p.sort \in Int /\ p.featured \in BOOLEAN
    /\ \A p, q \in S : p.id = q.id => p = q

\* ORDER BY is_featured DESC, sort_order, id is a strict total order.
LEMMA PrecedesOrders ==
    ASSUME NEW S, Orderable(S), NEW p \in S, NEW q \in S
    PROVE  /\ ~Precedes(p, p)
           /\ p # q => Precedes(p, q) \/ Precedes(q, p)
           /\ \A r \in S : Precedes(r, p) /\ Precedes(p, q) => Precedes(r, q)
  <1>1. /\ p.id \in Int /\ p.sort \in Int /\ p.featured \in BOOLEAN
        /\ q.id \in Int /\ q.sort \in Int /\ q.featured \in BOOLEAN
        /\ p # q => p.id # q.id
    BY DEF Orderable
  <1>2. ASSUME NEW r \in S, Precedes(r, p), Precedes(p, q) PROVE Precedes(r, q)
    <2>1. r.id \in Int /\ r.sort \in Int /\ r.featured \in BOOLEAN
      BY DEF Orderable
    <2> QED BY <1>1, <1>2, <2>1 DEF Precedes
  <1> QED BY <1>1, <1>2 DEF Precedes

\* How many photos come before one.
Rank(S, p) == Cardinality({q \in S : Precedes(q, p)})

\* The ranks of n photos are the numbers below n, in order.
LEMMA Ranks ==
    ASSUME NEW S, Orderable(S), NEW n, n = Cardinality(S)
    PROVE  /\ n \in Nat
           /\ \A p \in S : Rank(S, p) \in 0 .. n - 1
           /\ \A p, q \in S : Precedes(p, q) => Rank(S, p) < Rank(S, q)
           /\ \A i \in 0 .. n - 1 : \E p \in S : Rank(S, p) = i
  <1> DEFINE Earlier(p) == {q \in S : Precedes(q, p)}
  <1>1. IsFiniteSet(S) /\ n \in Nat
    BY FS_CardinalityType DEF Orderable
  <1>2. ASSUME NEW p \in S
        PROVE  IsFiniteSet(Earlier(p)) /\ Rank(S, p) = Cardinality(Earlier(p)) /\ Rank(S, p) \in Nat
    <2>1. Earlier(p) \in SUBSET S
      OBVIOUS
    <2>2. IsFiniteSet(Earlier(p))
      BY <1>1, <2>1, FS_Subset
    <2> QED BY <2>2, FS_CardinalityType DEF Rank
  <1>3. ASSUME NEW p \in S PROVE Rank(S, p) \in 0 .. n - 1
    <2>1. p \notin Earlier(p)
      BY PrecedesOrders
    <2>2. Earlier(p) \in SUBSET (S \ {p})
      BY <2>1
    <2>3. IsFiniteSet(S \ {p}) /\ Cardinality(S \ {p}) = n - 1
      BY <1>1, FS_RemoveElement
    <2> HIDE DEF Earlier
    <2>4. Cardinality(Earlier(p)) <= n - 1
      BY <2>2, <2>3, FS_Subset
    <2> QED BY <1>1, <1>2, <2>4
  <1>4. ASSUME NEW p \in S, NEW q \in S, Precedes(p, q) PROVE Rank(S, p) < Rank(S, q)
    <2>1. p \notin Earlier(p) /\ p \in Earlier(q)
      BY <1>4, PrecedesOrders
    <2>2. Earlier(p) \in SUBSET Earlier(q)
      BY <1>4, PrecedesOrders
    <2> HIDE DEF Earlier
    <2>3. Cardinality(Earlier(p)) <= Cardinality(Earlier(q))
          /\ (Cardinality(Earlier(q)) = Cardinality(Earlier(p)) => Earlier(q) = Earlier(p))
      BY <1>2, <2>2, FS_Subset
    <2> QED BY <1>2, <2>1, <2>3
  <1>5. \A i \in 0 .. n - 1 : \E p \in S : Rank(S, p) = i
    <2> DEFINE T == 0 .. n - 1
               f == [p \in S |-> Rank(S, p)]
    <2>1. IsFiniteSet(T) /\ Cardinality(T) = n
      <3>1. n - 1 \in Int /\ 0 \in Int /\ (0 > n - 1 => n = 0)
        BY <1>1
      <3>2. IsFiniteSet(T) /\ Cardinality(T) = IF 0 > n - 1 THEN 0 ELSE (n - 1) - 0 + 1
        BY <3>1, FS_Interval
      <3> QED BY <1>1, <3>1, <3>2
    <2>2. f \in [S -> T]
      BY <1>3
    <2>3. \A p, q \in S : f[p] = f[q] => p = q
      <3>1. ASSUME NEW p \in S, NEW q \in S, f[p] = f[q], p # q PROVE FALSE
        <4>1. Rank(S, p) = Rank(S, q) /\ Rank(S, p) \in Nat
          BY <1>2, <3>1
        <4>2. Precedes(p, q) \/ Precedes(q, p)
          BY <3>1, PrecedesOrders
        <4> QED BY <1>4, <4>1, <4>2
      <3> QED BY <3>1
    <2> HIDE DEF T, f
    <2>4. f \in Injection(S, T)
      BY <2>2, <2>3 DEF Injection, IsInjective
    <2>5. f \in Surjection(S, T)
      BY <1>1, <2>1, <2>4, FS_Injection
    <2>6. \A i \in T : \E p \in S : f[p] = i
      BY <2>5 DEF Surjection
    <2> QED BY <2>6 DEF T, f
  <1> QED BY <1>1, <1>3, <1>4, <1>5

\* The list of a loan's photos is in order.
LEMMA ListedInOrder ==
    ASSUME NEW l, Orderable(photos_of(l)), NEW shown, shown = photos_on(l)
    PROVE  /\ \A i \in DOMAIN shown : shown[i] \in photos_of(l) /\ i \in Nat \ {0}
           /\ \A i \in DOMAIN shown : i # 1 => 1 \in DOMAIN shown
           /\ \A i, j \in DOMAIN shown : i < j => Precedes(shown[i], shown[j])
  <1> DEFINE S == photos_of(l)
             n == Cardinality(S)
             s == [i \in 1..n |-> CHOOSE p \in S : Rank(S, p) = i - 1]
  <1>1. /\ n \in Nat
        /\ \A p, q \in S : Precedes(p, q) => Rank(S, p) < Rank(S, q)
        /\ \A i \in 0 .. n - 1 : \E p \in S : Rank(S, p) = i
    BY Ranks
  <1>2. shown = CHOOSE t \in [1..n -> S] :
                    \A i, j \in 1..n : i < j => Precedes(t[i], t[j])
    BY DEF photos_on, InOrder
  <1> HIDE DEF n, S
  <1>3. ASSUME NEW i \in 1..n
        PROVE  s[i] \in S /\ Rank(S, s[i]) = i - 1
    <2>1. i - 1 \in 0 .. n - 1
      BY <1>1
    <2>2. \E p \in S : Rank(S, p) = i - 1
      BY <1>1, <2>1
    <2> QED BY <2>2
  <1>4. s \in [1..n -> S]
    BY <1>3
  <1> HIDE DEF s
  <1>5. ASSUME NEW i \in 1..n, NEW j \in 1..n, i < j
        PROVE  Precedes(s[i], s[j])
    <2>1. /\ s[i] \in S /\ s[j] \in S /\ i \in Int /\ j \in Int
          /\ Rank(S, s[i]) = i - 1 /\ Rank(S, s[j]) = j - 1
      BY <1>1, <1>3
    <2>2. ~Precedes(s[j], s[i]) /\ s[i] # s[j]
      BY <1>1, <1>5, <2>1
    <2> QED BY <2>1, <2>2, PrecedesOrders DEF S
  <1>6. shown \in [1..n -> S] /\ \A i, j \in 1..n : i < j => Precedes(shown[i], shown[j])
    BY <1>2, <1>4, <1>5
  <1> QED BY <1>1, <1>6 DEF S

\* The rows can be listed, and in a loan an uploaded photo that comes before
\* another by sort_order is older.
OrderInv ==
    /\ Orderable(rows) /\ last_id \in Nat
    /\ \A r \in rows : r.id <= last_id
    /\ \A p, q \in rows : p.loan = q.loan /\ p.featured /\ q.featured => p = q
    /\ \A p, q \in rows :
           p.loan = q.loan /\ p.key \in Intents /\ p.sort < q.sort => p.id < q.id

\* The sort_order that the next photo of a loan gets is larger than those there.
LEMMA NextSortOrder ==
    ASSUME OrderInv, NEW l
    PROVE  /\ next_sort_order(l) \in Int
           /\ \A r \in rows : r.loan = l => r.sort < next_sort_order(l)
  <1> DEFINE S == photos_of(l)
             f == [r \in S |-> r.sort]
             T == {-1} \cup {r.sort : r \in S}
  <1>1. S \subseteq rows /\ \A r \in rows : r.sort \in Int
    BY DEF photos_of, OrderInv, Orderable
  <1>2. IsFiniteSet(S)
    BY <1>1, FS_Subset DEF OrderInv, Orderable
  <1>3. f = [r \in S |-> f[r]] /\ {f[r] : r \in S} = {r.sort : r \in S}
    OBVIOUS
  <1>4. IsFiniteSet({r.sort : r \in S})
    <2> HIDE DEF f
    <2>1. IsFiniteSet({f[r] : r \in S})
      BY <1>2, <1>3, FiniteValues
    <2> QED BY <1>3, <2>1
  <1>5. IsFiniteSet({r.sort : r \in S} \cup {-1})
    BY <1>4, FS_AddElement
  <1>6. T = {r.sort : r \in S} \cup {-1}
    OBVIOUS
  <1>7. IsFiniteSet(T)
    BY <1>5, <1>6
  <1>8. T \in SUBSET Int /\ T # {}
    BY <1>1
  <1>9. \A r \in rows : r.loan = l => r.sort \in T
    BY DEF photos_of
  <1>10. next_sort_order(l) = Max(T) + 1
    BY DEF next_sort_order
  <1> HIDE DEF T
  <1>11. Max(T) \in T /\ \A y \in T : Max(T) >= y
    BY <1>7, <1>8, MaxExists
  <1>12. Max(T) \in Int
    BY <1>8, <1>11
  <1>13. ASSUME NEW r \in rows, r.loan = l PROVE r.sort < Max(T) + 1
    <2>1. r.sort \in Int /\ Max(T) >= r.sort
      BY <1>1, <1>9, <1>11, <1>13
    <2> QED BY <1>12, <2>1
  <1> QED BY <1>10, <1>12, <1>13

\* Rows that stay, or of which one is removed.
LEMMA FewerOrdered ==
    ASSUME OrderInv, rows' \subseteq rows, last_id' = last_id
    PROVE  OrderInv'
  <1>1. IsFiniteSet(rows')
    BY FS_Subset DEF OrderInv, Orderable
  <1> QED BY <1>1 DEF OrderInv, Orderable

\* A photo that is recorded comes after those of its loan.
LEMMA RecordOrdered ==
    ASSUME OrderInv, NEW q \in Requests, create_manual_photo_metadata(q)
    PROVE  OrderInv'
  <1> DEFINE l == request[q].loan
             k == request[q].key
             r == [id |-> last_id', loan |-> l, key |-> k, sort |-> next_sort_order(l),
                   featured |-> FALSE]
  <1>1. CASE UNCHANGED <<rows, last_id>>
    BY <1>1, FewerOrdered
  <1>2. CASE last_id' = last_id + 1 /\ rows' = rows \cup {r}
    <2>1. /\ r.id = last_id + 1 /\ r.loan = l /\ r.sort = next_sort_order(l)
          /\ r.featured = FALSE
      BY <1>2
    <2>2. rows' = rows \cup {r}
      BY <1>2
    <2> HIDE DEF r, l, k
    <2>3. /\ r.sort \in Int /\ \A p \in rows : p.loan = r.loan => p.sort < r.sort
      BY <2>1, NextSortOrder
    <2>4. /\ last_id \in Nat /\ last_id' \in Nat /\ last_id' = last_id + 1
          /\ \A p \in rows : p.id \in Int /\ p.sort \in Int /\ p.id <= last_id
      BY <1>2 DEF OrderInv, Orderable
    <2>5. r.id \in Int /\ r.id = last_id' /\ \A p \in rows : p.id < r.id
      BY <2>1, <2>4
    <2>6. IsFiniteSet(rows')
      BY <2>2, FS_AddElement DEF OrderInv, Orderable
    <2>7. \A p \in rows' : p.id \in Int /\ p.sort \in Int /\ p.id <= last_id'
      BY <2>2, <2>3, <2>4, <2>5
    <2>8. \A p \in rows' : p.featured \in BOOLEAN
      BY <2>1, <2>2 DEF OrderInv, Orderable
    <2>9. \A p, o \in rows' : p.id = o.id => p = o
      BY <2>2, <2>4, <2>5 DEF OrderInv, Orderable
    <2>10. \A p, o \in rows' : p.loan = o.loan /\ p.featured /\ o.featured => p = o
      BY <2>1, <2>2 DEF OrderInv
    <2>11. \A p, o \in rows' :
               p.loan = o.loan /\ p.key \in Intents /\ p.sort < o.sort => p.id < o.id
      <3>1. ASSUME NEW p \in rows', NEW o \in rows', p.loan = o.loan, p.key \in Intents,
                   p.sort < o.sort
            PROVE  p.id < o.id
        <4>1. CASE p \in rows /\ o \in rows
          BY <3>1, <4>1 DEF OrderInv
        <4>2. CASE p \in rows /\ o = r
          BY <2>5, <4>2
        <4>3. CASE p = r /\ o = r
          BY <2>3, <3>1, <4>3
        <4>4. CASE p = r /\ o \in rows
          <5>1. o.sort < r.sort /\ r.sort < o.sort /\ o.sort \in Int
            BY <2>3, <2>4, <3>1, <4>4
          <5> QED BY <2>3, <5>1
        <4> QED BY <2>2, <4>1, <4>2, <4>3, <4>4
      <3> QED BY <3>1
    <2> QED BY <2>4, <2>6, <2>7, <2>8, <2>9, <2>10, <2>11 DEF OrderInv, Orderable
  <1> QED BY <1>1, <1>2 DEF create_manual_photo_metadata

\* Featuring a photo takes the place from the one that had it.
LEMMA FeatureOrdered ==
    ASSUME PhotoInv, OrderInv, NEW l \in Loans, NEW r \in rows, set_featured_photo(l, r)
    PROVE  OrderInv'
  <1> DEFINE Turned(p) == [p EXCEPT !.featured = (p.id = r.id)]
             Of(p) == IF p.loan = l THEN Turned(p) ELSE p
             f == [p \in rows |-> Of(p)]
  <1>1. /\ rows' = (rows \ photos_of(l)) \cup {Turned(p) : p \in photos_of(l)}
        /\ \A p \in rows : IsPhoto(p)
        /\ r.loan = l /\ last_id' = last_id
    BY DEF set_featured_photo, PhotoInv, PhotoTypes
  <1>2. ASSUME NEW p \in rows
        PROVE  /\ Turned(p).id = p.id /\ Turned(p).loan = p.loan /\ Turned(p).key = p.key
               /\ Turned(p).sort = p.sort /\ Turned(p).featured = (p.id = r.id)
    <2>1. PICK i, m, k, s, t :
            p = [id |-> i, loan |-> m, key |-> k, sort |-> s, featured |-> t]
      BY <1>1 DEF IsPhoto
    <2>2. Turned(p) = [id |-> i, loan |-> m, key |-> k, sort |-> s, featured |-> (p.id = r.id)]
      BY <2>1
    <2> QED BY <2>1, <2>2
  <1>3. rows' = {f[p] : p \in rows}
    <2>1. \A p \in rows : f[p] = IF p \in photos_of(l) THEN Turned(p) ELSE p
      BY DEF photos_of
    <2>2. photos_of(l) \subseteq rows
      BY DEF photos_of
    <2> HIDE DEF f, Turned
    <2> QED BY <1>1, <2>1, <2>2
  <1>4. ASSUME NEW p \in rows
        PROVE  /\ f[p].id = p.id /\ f[p].loan = p.loan /\ f[p].key = p.key
               /\ f[p].sort = p.sort
               /\ p.loan = l => f[p].featured = (p.id = r.id)
               /\ p.loan # l => f[p].featured = p.featured
    <2>1. p.loan = l => f[p] = Turned(p)
      OBVIOUS
    <2>2. p.loan # l => f[p] = p
      OBVIOUS
    <2> HIDE DEF f, Turned
    <2> QED BY <1>2, <2>1, <2>2
  <1>5. f = [p \in rows |-> f[p]]
    OBVIOUS
  <1> HIDE DEF f, Turned, Of
  <1>6. IsFiniteSet(rows')
    BY <1>3, <1>5, FiniteValues DEF OrderInv, Orderable
  <1>7. ASSUME NEW p \in rows PROVE f[p].featured \in BOOLEAN
    BY <1>4 DEF OrderInv, Orderable
  <1>8. ASSUME NEW p \in rows, NEW o \in rows, f[p].loan = f[o].loan,
               f[p].featured, f[o].featured
        PROVE  f[p] = f[o]
    <2>1. p.loan = o.loan
      BY <1>4, <1>8
    <2>2. CASE p.loan = l
      <3>1. f[p].featured = (p.id = r.id) /\ f[o].featured = (o.id = r.id)
        BY <1>4, <2>1, <2>2
      <3>2. p.id = r.id /\ o.id = r.id
        BY <1>8, <3>1
      <3> QED BY <3>2 DEF OrderInv, Orderable
    <2>3. CASE p.loan # l
      <3>1. p.featured /\ o.featured
        BY <1>4, <1>8, <2>1, <2>3
      <3> QED BY <2>1, <3>1 DEF OrderInv
    <2> QED BY <2>2, <2>3
  <1>9. \A p, o \in rows : f[p].id = f[o].id => f[p] = f[o]
    BY <1>4 DEF OrderInv, Orderable
  <1>10. \A p, o \in rows :
           f[p].loan = f[o].loan /\ f[p].key \in Intents /\ f[p].sort < f[o].sort
              => f[p].id < f[o].id
    BY <1>4 DEF OrderInv
  <1>11. \A p \in rows : f[p].id \in Int /\ f[p].sort \in Int /\ f[p].id <= last_id
    BY <1>4 DEF OrderInv, Orderable
  <1>12. Orderable(rows')
    BY <1>3, <1>6, <1>7, <1>9, <1>11 DEF Orderable
  <1>13. last_id' \in Nat /\ \A p \in rows' : p.id <= last_id'
    BY <1>1, <1>3, <1>11 DEF OrderInv
  <1>14. \A p, o \in rows' : p.loan = o.loan /\ p.featured /\ o.featured => p = o
    BY <1>3, <1>8
  <1>15. \A p, o \in rows' :
           p.loan = o.loan /\ p.key \in Intents /\ p.sort < o.sort => p.id < o.id
    BY <1>3, <1>10
  <1> QED BY <1>12, <1>13, <1>14, <1>15 DEF OrderInv, Orderable

\* Migrated photos, of which none was uploaded.
LEMMA OrderInit == WorkspaceInit => OrderInv
  <1> SUFFICES ASSUME WorkspaceInit PROVE OrderInv
    OBVIOUS
  <1> DEFINE f == [r \in Imported |-> r.id]
             T == {0} \cup {r.id : r \in Imported}
  <1>1. rows = Imported /\ last_id = Max(T)
    BY DEF WorkspaceInit
  <1>2. Orderable(Imported) /\ \A r \in Imported : r.id \in Nat
    BY ImportedAssumption DEF Orderable
  <1>3. f = [r \in Imported |-> f[r]] /\ {f[r] : r \in Imported} = {r.id : r \in Imported}
    OBVIOUS
  <1>4. IsFiniteSet({r.id : r \in Imported})
    <2> HIDE DEF f
    <2>1. IsFiniteSet({f[r] : r \in Imported})
      BY <1>2, <1>3, FiniteValues DEF Orderable
    <2> QED BY <1>3, <2>1
  <1>5. IsFiniteSet({r.id : r \in Imported} \cup {0})
    BY <1>4, FS_AddElement
  <1>6. T = {r.id : r \in Imported} \cup {0}
    OBVIOUS
  <1>7. IsFiniteSet(T) /\ T \in SUBSET Int /\ T \in SUBSET Nat /\ T # {}
    BY <1>2, <1>5, <1>6
  <1>8. \A r \in Imported : r.id \in T
    OBVIOUS
  <1> HIDE DEF T
  <1>9. Max(T) \in T /\ \A y \in T : Max(T) >= y
    BY <1>7, MaxExists
  <1>10. last_id \in Nat /\ \A r \in rows : r.id <= last_id
    BY <1>1, <1>2, <1>7, <1>8, <1>9
  <1> QED BY <1>1, <1>2, <1>10, ImportedAssumption DEF OrderInv

\* Every step keeps the order.
LEMMA OrderNext ==
    PhotoInv /\ OrderInv /\ [WorkspaceNext]_workspaceVars => OrderInv'
  <1> SUFFICES ASSUME PhotoInv, OrderInv, [WorkspaceNext]_workspaceVars PROVE OrderInv'
    OBVIOUS
  <1>1. CASE UNCHANGED <<rows, last_id>>
    BY <1>1, FewerOrdered
  <1>2. CASE LoanNext \/ UNCHANGED workspaceVars
    BY <1>1, <1>2 DEF LoanNext, import, save_workspace, link_email_to_imported_tmo_loan,
                      unlink_email, workspaceVars, photoVars
  <1>3. CASE \E l \in Loans, r \in rows : delete_photo_metadata(l, r)
    BY <1>3, FewerOrdered DEF delete_photo_metadata
  <1>4. CASE PhotoNext
    <2>1. \/ UNCHANGED <<rows, last_id>>
          \/ \E q \in Requests : create_manual_photo_metadata(q)
          \/ \E l \in Loans, r \in rows : set_featured_photo(l, r)
          \/ \E l \in Loans, r \in rows : delete_photo_metadata(l, r)
      BY <1>4 DEF PhotoNext, create_photo_upload_intent, upload, finalize_photo_upload,
                  verify_uploaded_intent, serve_loan_photo, signed_redirect,
                  photo_request_lost, reclaim, photo_tick
    <2> QED BY <1>1, <1>3, <2>1, RecordOrdered, FeatureOrdered
  <1> QED BY <1>2, <1>4 DEF WorkspaceNext

\* list_photos shows an uploaded photo after all that were there before it, in
\* whatever order others were removed or featured, and the featured one first:
\* for every set of loans and migrated photos and any number of requests.
THEOREM PhotosAlwaysInOrder == WorkspaceSpec => []PhotosInOrder
  <1>1. OrderInv => PhotosInOrder
    <2> SUFFICES ASSUME OrderInv, NEW l \in Loans, NEW shown, shown = photos_on(l),
                        NEW i \in DOMAIN shown, NEW j \in DOMAIN shown
                 PROVE  /\ shown[j].featured => j = 1
                        /\ i < j /\ shown[i].key \in Intents /\ ~shown[i].featured
                              => shown[i].id < shown[j].id
      BY DEF PhotosInOrder
    <2> DEFINE S == photos_of(l)
    <2>1. S \subseteq rows /\ \A p \in S : p.loan = l
      BY DEF photos_of
    <2>2. IsFiniteSet(S)
      BY <2>1, FS_Subset DEF OrderInv, Orderable
    <2>3. Orderable(S)
      BY <2>1, <2>2 DEF OrderInv, Orderable
    <2>4. /\ \A m \in DOMAIN shown : shown[m] \in S /\ m \in Nat \ {0}
          /\ \A m \in DOMAIN shown : m # 1 => 1 \in DOMAIN shown
          /\ \A m, n \in DOMAIN shown : m < n => Precedes(shown[m], shown[n])
      BY <2>3, ListedInOrder
    <2> DEFINE p == shown[i]
               q == shown[j]
    <2>5. /\ p \in rows /\ q \in rows /\ p \in S /\ q \in S /\ p.loan = q.loan
          /\ j \in Nat \ {0} /\ (i < j => Precedes(p, q))
      BY <2>1, <2>4
    <2>6. /\ p.id \in Int /\ p.sort \in Int /\ q.id \in Int /\ q.sort \in Int
          /\ p.featured \in BOOLEAN /\ q.featured \in BOOLEAN
      BY <2>5 DEF OrderInv, Orderable
    <2> HIDE DEF S, p, q
    <2>7. ASSUME q.featured PROVE j = 1
      <3>1. ASSUME NEW o \in S PROVE ~Precedes(o, q)
        <4>1. o \in rows /\ o.loan = q.loan
          BY <2>1, <2>5 DEF q
        <4>2. CASE o.featured
          <5>1. o = q
            BY <2>5, <2>7, <4>1, <4>2 DEF OrderInv
          <5> QED BY <2>3, <2>5, <5>1, PrecedesOrders
        <4>3. CASE ~o.featured
          <5>1. o.featured \in BOOLEAN
            BY <4>1 DEF OrderInv, Orderable
          <5> QED BY <2>6, <2>7, <4>3, <5>1 DEF Precedes
        <4> QED BY <4>2, <4>3
      <3>2. ASSUME j # 1 PROVE FALSE
        <4>1. 1 \in DOMAIN shown /\ 1 < j
          BY <2>4, <2>5, <3>2
        <4>2. Precedes(shown[1], q) /\ shown[1] \in S
          BY <2>4, <4>1 DEF q
        <4> QED BY <3>1, <4>2
      <3> QED BY <3>2
    <2>8. ASSUME i < j, p.key \in Intents, ~p.featured PROVE p.id < q.id
      <3>1. Precedes(p, q)
        BY <2>5, <2>8
      <3>2. p.sort < q.sort \/ (p.sort = q.sort /\ p.id < q.id)
        BY <2>6, <2>8, <3>1 DEF Precedes
      <3>3. p.sort < q.sort => p.id < q.id
        BY <2>5, <2>8 DEF OrderInv
      <3> QED BY <3>2, <3>3
    <2> QED BY <2>7, <2>8 DEF p, q
  <1> QED BY <1>1, PhotoInvariant, OrderInit, OrderNext, PTL DEF WorkspaceSpec

-----------------------------------------------------------------------------
(* Keys.                                                                   *)

\* A prefix can be put before a key and taken off again.
LEMMA Prefixed ==
    ASSUME NEW p \in AnyKey, NEW k \in AnyKey
    PROVE  /\ p \o k \in AnyKey /\ Len(p \o k) = Len(p) + Len(k)
           /\ StartsWith(p \o k, p) /\ After(p \o k, p) = k
  <1> USE DEF AnyKey
  <1>1. p \o k \in Seq(Segment) /\ Len(p \o k) = Len(p) + Len(k)
        /\ Len(p) \in Nat /\ Len(k) \in Nat
    OBVIOUS
  <1>2. SubSeq(p \o k, 1, Len(p)) = p
    OBVIOUS
  <1>3. SubSeq(p \o k, Len(p) + 1, Len(p \o k)) = k
    OBVIOUS
  <1> QED BY <1>1, <1>2, <1>3 DEF StartsWith, After

\* What begins with a prefix is the prefix and the rest.
LEMMA Unprefixed ==
    ASSUME NEW p \in AnyKey, NEW k \in AnyKey, StartsWith(k, p)
    PROVE  /\ After(k, p) \in AnyKey /\ Len(After(k, p)) = Len(k) - Len(p)
           /\ p \o After(k, p) = k
  <1> USE DEF AnyKey
  <1>1. Len(k) >= Len(p) /\ SubSeq(k, 1, Len(p)) = p
        /\ Len(p) \in Nat /\ Len(k) \in Nat
    BY DEF StartsWith
  <1>2. SubSeq(k, Len(p) + 1, Len(k)) \in Seq(Segment)
        /\ Len(SubSeq(k, Len(p) + 1, Len(k))) = Len(k) - Len(p)
    BY <1>1
  <1>3. SubSeq(k, 1, Len(p)) \o SubSeq(k, Len(p) + 1, Len(k)) = SubSeq(k, 1, Len(k))
    <2>1. /\ 1 \in 1..(Len(k) + 1) /\ Len(p) \in (1 - 1)..Len(k)
          /\ Len(k) \in Len(p)..Len(k)
      BY <1>1
    <2> QED BY <2>1, ConcatAdjacentSubSeq
  <1>4. SubSeq(k, 1, Len(k)) = k
    BY SubSeqFull
  <1> QED BY <1>1, <1>2, <1>3, <1>4 DEF After

\* Keys are the same when they are the same behind a prefix.
LEMMA SamePrefix ==
    ASSUME NEW p \in AnyKey, NEW k \in AnyKey, NEW l \in AnyKey, p \o k = p \o l
    PROVE  k = l
  <1>1. After(p \o k, p) = k /\ After(p \o l, p) = l
    BY Prefixed
  <1> QED BY <1>1

\* An empty key is the one without segments.
LEMMA EmptyKey ==
    ASSUME NEW k \in AnyKey
    PROVE  Len(k) \in Nat /\ (k = <<>> <=> Len(k) = 0)
  BY DEF AnyKey

\* The objects under a prefix.
LEMMA UnderPrefix ==
    ASSUME NEW p \in AnyKey, NEW b, DOMAIN b \subseteq AnyKey
    PROVE  /\ \A k : k \in DOMAIN Under(p, b) <=>
                       k \in AnyKey \ {<<>>} /\ p \o k \in DOMAIN b
           /\ \A k \in DOMAIN Under(p, b) : Under(p, b)[k] = b[p \o k]
  <1> DEFINE keys == {k \in DOMAIN b : Len(k) > Len(p) /\ StartsWith(k, p)}
             rest == {After(k, p) : k \in keys}
  <1>1. Under(p, b) = [k \in rest |-> b[p \o k]]
    BY DEF Under
  <1>2. ASSUME NEW k \in rest
        PROVE  k \in AnyKey \ {<<>>} /\ p \o k \in DOMAIN b
    <2>1. PICK l \in keys : k = After(l, p)
      OBVIOUS
    <2>2. l \in AnyKey /\ Len(l) > Len(p) /\ StartsWith(l, p) /\ l \in DOMAIN b
      OBVIOUS
    <2>3. k \in AnyKey /\ Len(k) = Len(l) - Len(p) /\ p \o k = l
      BY <2>1, <2>2, Unprefixed
    <2>4. Len(l) \in Nat /\ Len(p) \in Nat /\ (k = <<>> <=> Len(k) = 0)
      BY <2>2, <2>3, EmptyKey
    <2> QED BY <2>2, <2>3, <2>4
  <1>3. ASSUME NEW k \in AnyKey \ {<<>>}, p \o k \in DOMAIN b
        PROVE  k \in rest
    <2>1. /\ Len(p \o k) = Len(p) + Len(k)
          /\ StartsWith(p \o k, p) /\ After(p \o k, p) = k
      BY Prefixed
    <2>2. Len(p) \in Nat /\ Len(k) \in Nat /\ Len(k) # 0
      BY EmptyKey
    <2>3. Len(p \o k) > Len(p)
      BY <2>1, <2>2
    <2>4. p \o k \in keys
      BY <1>3, <2>1, <2>3
    <2> QED BY <2>1, <2>4
  <1> HIDE DEF rest
  <1> QED BY <1>1, <1>2, <1>3

\* The prefix of photos is one segment.
LEMMA PhotoPrefixKey == PhotoPrefix \in AnyKey /\ Len(PhotoPrefix) = 1
  <1>1. "loan-workspace" \in Segment
    BY DEF Segment
  <1>2. <<"loan-workspace">> \in Seq(Segment) /\ Len(<<"loan-workspace">>) = 1
    BY <1>1
  <1> QED BY <1>2 DEF PhotoPrefix, AnyKey

\* The names that a key may have in the legacy store.
LEMMA Candidates ==
    ASSUME NEW key \in AnyKey \ {<<>>}
    PROVE  /\ key \in physical_candidates(key, "legacy_source")
           /\ physical_candidates(key, "legacy_source") \subseteq AnyKey \ {<<>>}
           /\ IsFiniteSet(physical_candidates(key, "legacy_source"))
           /\ ~StartsWith(key, PhotoPrefix) =>
                 physical_candidates(key, "legacy_source") = {key}
  <1> DEFINE C == physical_candidates(key, "legacy_source")
  <1>1. CASE StartsWith(key, PhotoPrefix) /\ Len(key) > 1
    <2>1. C = {key} \cup {After(key, PhotoPrefix)}
      BY <1>1 DEF physical_candidates
    <2>2. /\ After(key, PhotoPrefix) \in AnyKey
          /\ Len(After(key, PhotoPrefix)) = Len(key) - 1
      BY <1>1, PhotoPrefixKey, Unprefixed
    <2>3. Len(key) \in Nat /\ After(key, PhotoPrefix) # <<>>
      BY <1>1, <2>2, EmptyKey
    <2>4. IsFiniteSet({key} \cup {After(key, PhotoPrefix)})
      BY FS_Singleton, FS_AddElement
    <2> QED BY <1>1, <2>1, <2>2, <2>3, <2>4
  <1>2. CASE ~(StartsWith(key, PhotoPrefix) /\ Len(key) > 1)
    <2>1. C = {key}
      BY <1>2 DEF physical_candidates
    <2>2. IsFiniteSet({key})
      BY FS_Singleton
    <2>3. C \subseteq AnyKey \ {<<>>}
      BY <2>1
    <2> QED BY <2>1, <2>2, <2>3, Zenon
  <1> QED BY <1>1, <1>2

\* A name in the legacy store is one of those of the key it is listed under.
LEMMA Canonicalized ==
    ASSUME NEW k \in AnyKey \ {<<>>}
    PROVE  k \in physical_candidates(canonicalize_physical_key(k, "legacy_source"),
                                     "legacy_source")
  <1>1. CASE k[1] \in {"loan-workspace", "emails"}
    BY <1>1 DEF canonicalize_physical_key, physical_candidates
  <1>2. CASE k[1] \notin {"loan-workspace", "emails"}
    <2>1. canonicalize_physical_key(k, "legacy_source") = PhotoPrefix \o k
      BY <1>2 DEF canonicalize_physical_key
    <2>2. /\ StartsWith(PhotoPrefix \o k, PhotoPrefix)
          /\ After(PhotoPrefix \o k, PhotoPrefix) = k
          /\ Len(PhotoPrefix \o k) = 1 + Len(k)
      BY PhotoPrefixKey, Prefixed
    <2>3. Len(k) \in Nat /\ Len(k) # 0
      BY EmptyKey
    <2>4. Len(PhotoPrefix \o k) > 1
      BY <2>2, <2>3
    <2> QED BY <2>1, <2>2, <2>4 DEF physical_candidates
  <1> QED BY <1>1, <1>2

\* What is read depends on the names that the key may have, and nothing else.
LEMMA GetSame ==
    ASSUME NEW o, NEW q, NEW key, NEW layout, NEW store,
           \A k \in physical_candidates(key, layout) :
              /\ k \in DOMAIN o <=> k \in DOMAIN q
              /\ k \in DOMAIN o => o[k] = q[k]
    PROVE  /\ Names(o, key, layout) = Names(q, key, layout)
           /\ get(o, key, layout, store) = get(q, key, layout, store)
  <1> DEFINE there == Names(o, key, layout)
             k == CHOOSE k \in there : TRUE
  <1>1. there = Names(q, key, layout)
    BY DEF Names
  <1>2. CASE there = {}
    BY <1>1, <1>2 DEF get
  <1>3. CASE there # {}
    <2>1. k \in there
      BY <1>3
    <2>2. o[k] = q[k]
      BY <2>1 DEF Names
    <2> HIDE DEF there
    <2> DEFINE x == o[k]
    <2>3. x = q[k]
      BY <2>2
    <2> HIDE DEF x
    <2> DEFINE y == IF store = "local" THEN [x EXCEPT !.type = mime_guess(key)] ELSE x
    <2>4. get(o, key, layout, store) = y
      BY <1>3 DEF get, there, x
    <2>5. get(q, key, layout, store) = y
      BY <1>1, <1>3, <2>3 DEF get, there
    <2> HIDE DEF y
    <2>6. get(o, key, layout, store) = get(q, key, layout, store)
      BY <2>4, <2>5
    <2> QED BY <1>1, <2>6 DEF there
  <1> QED BY <1>2, <1>3

\* An object that is found without ambiguity has the bytes of any name that is
\* there.
LEMMA GetBytes ==
    ASSUME NEW o, Store(o), NEW key \in AnyKey \ {<<>>}, NEW store,
           Unambiguous(o, key, "legacy_source"),
           NEW n \in Names(o, key, "legacy_source")
    PROVE  get(o, key, "legacy_source", store).bytes = o[n].bytes
  <1> DEFINE there == Names(o, key, "legacy_source")
             k == CHOOSE k \in there : TRUE
  <1>1. there # {} /\ n \in there /\ k \in there
    OBVIOUS
  <1>2. IsFiniteSet(there)
    <2>1. IsFiniteSet(physical_candidates(key, "legacy_source"))
      BY Candidates
    <2>2. there \subseteq physical_candidates(key, "legacy_source")
      BY DEF Names
    <2> QED BY <2>1, <2>2, FS_Subset
  <1>3. Cardinality(there) <= 1
    BY DEF Unambiguous
  <1>4. n \in DOMAIN o
    BY DEF Names
  <1> HIDE DEF there
  <1>5. k = n
    BY <1>1, <1>2, <1>3, AtMostOne
  <1> DEFINE x == o[n]
  <1>6. x = [bytes |-> o[n].bytes, type |-> o[n].type]
    BY <1>4 DEF Store
  <1>7. o[k] = x
    BY <1>5
  <1> HIDE DEF x
  <1>8. get(o, key, "legacy_source", store) =
           IF store = "local" THEN [x EXCEPT !.type = mime_guess(key)] ELSE x
    BY <1>1, <1>7 DEF get, there
  <1>9. x.bytes = o[n].bytes /\ [x EXCEPT !.type = mime_guess(key)].bytes = o[n].bytes
    BY <1>6
  <1>10. CASE store = "local"
    BY <1>8, <1>9, <1>10
  <1>11. CASE store # "local"
    BY <1>8, <1>9, <1>11
  <1> QED BY <1>10, <1>11

\* The target has no second layout.
LEMMA GetRemote ==
    ASSUME NEW o, NEW key
    PROVE  /\ key \in DOMAIN o => get(o, key, "canonical", "s3") = o[key]
           /\ key \notin DOMAIN o => get(o, key, "canonical", "s3") = None
  <1>1. physical_candidates(key, "canonical") = {key}
    BY DEF physical_candidates
  <1>2. CASE key \in DOMAIN o
    <2>1. Names(o, key, "canonical") = {key} /\ (CHOOSE k \in {key} : TRUE) = key
      BY <1>1, <1>2 DEF Names
    <2>2. get(o, key, "canonical", "s3") = o[CHOOSE k \in {key} : TRUE]
      BY <2>1 DEF get
    <2> QED BY <1>2, <2>1, <2>2
  <1>3. CASE key \notin DOMAIN o
    <2>1. Names(o, key, "canonical") = {}
      BY <1>1, <1>3 DEF Names
    <2> QED BY <1>3, <2>1 DEF get
  <1> QED BY <1>2, <1>3


-----------------------------------------------------------------------------
(* Links to photos.                                                        *)

\* Decoding a path gives a key.
LEMMA DecodedKey ==
    ASSUME NEW segs \in AnyKey
    PROVE  decode_url_key(segs).key \in AnyKey
  <1>1. decode_url_key(segs).key = [i \in DOMAIN segs |-> decode(segs[i])]
    BY DEF decode_url_key
  <1>2. ASSUME NEW i \in 1..Len(segs) PROVE decode(segs[i]) \in Segment
    <2>1. segs[i] \in Segment
      BY DEF AnyKey
    <2> QED BY <2>1 DEF decode, Segment
  <1>3. DOMAIN segs = 1..Len(segs) /\ Len(segs) \in Nat
    BY DEF AnyKey
  <1>4. [i \in 1..Len(segs) |-> decode(segs[i])] \in Seq(Segment)
    BY <1>2, <1>3
  <1> QED BY <1>1, <1>3, <1>4 DEF AnyKey

\* What the classification of a stored photo gives: its key passes the check of
\* the reader, and a stricter reader that accepts it reads the same.
LEMMA StoredKey ==
    ASSUME NEW segs \in AnyKey, NEW prefix \in AnyKey, NEW refused
    PROVE  \/ Stored(segs, prefix, refused) = Invalid
           \/ /\ Stored(segs, prefix, refused).kind = "stored"
              /\ Stored(segs, prefix, refused).key \in AnyKey
              /\ legacy_physical_key(Stored(segs, prefix, refused).key)
              /\ Segments(Stored(segs, prefix, refused).key) \cap refused = {}
              /\ \A weaker : weaker \subseteq refused =>
                    Stored(segs, prefix, weaker) = Stored(segs, prefix, refused)
  <1> DEFINE decoded == decode_url_key(segs)
             key == prefix \o decoded.key
             Passes(r) == decoded.ok /\ legacy_physical_key(key) /\ Segments(key) \cap r = {}
             stored == [kind |-> "stored", key |-> key]
  <1>1. \A r : Stored(segs, prefix, r) = IF Passes(r) THEN stored ELSE Invalid
    BY DEF Stored
  <1>2. key \in AnyKey
    BY DecodedKey, Prefixed
  <1>3. \A r, w : Passes(r) /\ w \subseteq r => Passes(w)
    OBVIOUS
  <1>4. CASE Passes(refused)
    <2>1. Stored(segs, prefix, refused) = stored
      BY <1>1, <1>4, Zenon
    <2>2. \A w : w \subseteq refused => Stored(segs, prefix, w) = stored
      BY <1>1, <1>3, <1>4, Zenon
    <2>3. stored.kind = "stored" /\ stored.key = key
      OBVIOUS
    <2>4. legacy_physical_key(key) /\ Segments(key) \cap refused = {}
      BY <1>4
    <2> QED BY <1>2, <2>1, <2>2, <2>3, <2>4, Zenon
  <1>5. CASE ~Passes(refused)
    BY <1>1, <1>5, Zenon
  <1> QED BY <1>4, <1>5

\* The classification of a photo depends on the reader only where it is stored.
LEMMA Classification ==
    ASSUME NEW u \in URLs
    PROVE  \/ \A r : classify_photo(u, r) = Invalid
           \/ \A r : classify_photo(u, r) = [kind |-> "external", key |-> None]
           \/ \E segs \in AnyKey, prefix \in AnyKey :
                 \A r : classify_photo(u, r) = Stored(segs, prefix, r)
  <1>1. u.path \in AnyKey /\ <<>> \in AnyKey
    BY DEF URLs, AnyKey
  <1>2. ASSUME NEW prefix, prefix \in {MEDIA_PREFIX, STATIC_PREFIX}, Below(u.path, prefix),
               \A r : classify_photo(u, r) = legacy_photo_key(u.path, prefix, u.query, r)
        PROVE  \/ \A r : classify_photo(u, r) = Invalid
               \/ \E segs \in AnyKey, p \in AnyKey :
                     \A r : classify_photo(u, r) = Stored(segs, p, r)
    <2>1. CASE u.query
      BY <1>2, <2>1 DEF legacy_photo_key
    <2>2. CASE ~u.query
      <3>1. \A r : classify_photo(u, r) = Stored(After(u.path, prefix), PhotoPrefix, r)
        BY <1>2, <2>2 DEF legacy_photo_key
      <3>2. After(u.path, prefix) \in AnyKey
        BY <1>1, <1>2 DEF After, AnyKey, Below, StartsWith, MEDIA_PREFIX, STATIC_PREFIX
      <3> QED BY <3>1, <3>2, PhotoPrefixKey
    <2> QED BY <2>1, <2>2
  <1>3. CASE \/ u.scheme = "other"
             \/ u.scheme = "http" /\ u.user
             \/ u.scheme = "s3" /\ (u.query \/ u.host = None)
    BY <1>3 DEF classify_photo
  <1>4. CASE ~(\/ u.scheme = "other"
               \/ u.scheme = "http" /\ u.user
               \/ u.scheme = "s3" /\ (u.query \/ u.host = None))
    <2>1. CASE u.scheme = "s3"
      <3>1. \A r : classify_photo(u, r) = Stored(u.path, <<>>, r)
        BY <1>4, <2>1 DEF classify_photo
      <3> QED BY <1>1, <3>1
    <2>2. CASE u.scheme # "s3" /\ Below(u.path, MEDIA_PREFIX)
      <3>1. \A r : classify_photo(u, r) = legacy_photo_key(u.path, MEDIA_PREFIX, u.query, r)
        BY <1>4, <2>2 DEF classify_photo, legacy_photo_key
      <3> QED BY <1>2, <2>2, <3>1
    <2>3. CASE u.scheme # "s3" /\ ~Below(u.path, MEDIA_PREFIX)
               /\ Below(u.path, STATIC_PREFIX)
      <3>1. \A r : classify_photo(u, r) = legacy_photo_key(u.path, STATIC_PREFIX, u.query, r)
        BY <1>4, <2>3 DEF classify_photo, legacy_photo_key
      <3> QED BY <1>2, <2>3, <3>1
    <2>4. CASE u.scheme # "s3" /\ ~Below(u.path, MEDIA_PREFIX)
               /\ ~Below(u.path, STATIC_PREFIX)
      <3>1. CASE u.scheme # "http"
        BY <1>4, <2>4, <3>1 DEF classify_photo
      <3>2. CASE u.scheme = "http"
        <4>1. \A r : classify_photo(u, r) = known_s3_http_key(u, r)
          BY <1>4, <2>4, <3>2 DEF classify_photo
        <4>2. CASE u.host = "virtual"
          BY <1>1, <4>1, <4>2 DEF known_s3_http_key
        <4>3. CASE u.host = "path" /\ Len(u.path) < 2
          BY <4>1, <4>3 DEF known_s3_http_key
        <4>4. CASE u.host = "path" /\ ~(Len(u.path) < 2)
          <5>1. \A r : classify_photo(u, r) = Stored(Tail(u.path), <<>>, r)
            BY <4>1, <4>4 DEF known_s3_http_key
          <5>2. Tail(u.path) \in AnyKey
            BY <1>1, <4>4 DEF AnyKey
          <5> QED BY <1>1, <5>1, <5>2
        <4>5. CASE u.host \notin {"virtual", "path"}
          BY <4>1, <4>5 DEF known_s3_http_key
        <4> QED BY <4>2, <4>3, <4>4, <4>5
      <3> QED BY <3>1, <3>2
    <2> QED BY <2>1, <2>2, <2>3, <2>4
  <1> QED BY <1>3, <1>4


\* What both readers make of the link of a photo.
LEMMA PhotoKeys ==
    ASSUME NEW u \in URLs, NEW refused
    PROVE  LET at == classify_photo(u, refused)
           IN  /\ at.kind # "stored" => at.key = None
               /\ at.kind = "stored" =>
                     /\ at.key \in AnyKey \ {<<>>} /\ legacy_physical_key(at.key)
                     /\ Segments(at.key) \cap refused = {}
                     /\ \A weaker : weaker \subseteq refused =>
                           classify_photo(u, weaker) = at
  <1> DEFINE at == classify_photo(u, refused)
  <1>1. CASE at = Invalid \/ at = [kind |-> "external", key |-> None]
    BY <1>1 DEF Invalid
  <1>2. CASE \E segs \in AnyKey, prefix \in AnyKey :
                \A r : classify_photo(u, r) = Stored(segs, prefix, r)
    <2>1. PICK segs \in AnyKey, prefix \in AnyKey :
             \A r : classify_photo(u, r) = Stored(segs, prefix, r)
      BY <1>2
    <2>2. at = Stored(segs, prefix, refused)
      BY <2>1
    <2>3. CASE Stored(segs, prefix, refused) = Invalid
      BY <1>1, <2>2, <2>3
    <2>4. CASE Stored(segs, prefix, refused) # Invalid
      <3> HIDE DEF at
      <3>1. /\ at.kind = "stored" /\ at.key \in AnyKey /\ legacy_physical_key(at.key)
            /\ Segments(at.key) \cap refused = {}
            /\ \A weaker : weaker \subseteq refused => Stored(segs, prefix, weaker) = at
        BY <2>2, <2>4, StoredKey
      <3>2. \A weaker : weaker \subseteq refused => classify_photo(u, weaker) = at
        BY <2>1, <3>1
      <3>3. at.key # <<>>
        BY <3>1 DEF legacy_physical_key
      <3> QED BY <3>1, <3>2, <3>3 DEF at
    <2> QED BY <2>3, <2>4
  <1> QED BY <1>1, <1>2, Classification

\* The link that the program shows for a photo leads to the key that the transfer
\* has read in the row.
LEMMA LinkLeadsToKey ==
    ASSUME NEW u \in URLs, NEW urls, u \in urls, from_photo(u) # None
    PROVE  /\ classify_photo(u, Percent).kind = "stored"
           /\ redirected_photo(from_photo(u), urls) = classify_photo(u, Percent).key
  <1> DEFINE at == classify_photo(u, Percent \cup Question)
             key == at.key
  <1>1. at.kind = "stored" /\ from_photo(u) = photo_route_url(key)
    BY DEF from_photo
  <1>2. /\ key \in AnyKey /\ legacy_physical_key(key)
        /\ Segments(key) \cap (Percent \cup Question) = {}
        /\ \A weaker : weaker \subseteq Percent \cup Question => classify_photo(u, weaker) = at
    BY <1>1, PhotoKeys
  <1>3. classify_photo(u, Percent) = at
    BY <1>2
  <1> HIDE DEF at
  <1>4. StartsWith(key, PhotoPrefix) /\ from_photo(u) = After(key, PhotoPrefix)
    BY <1>1 DEF photo_route_url
  <1>5. PhotoPrefix \o from_photo(u) = key
    BY <1>2, <1>4, PhotoPrefixKey, Unprefixed
  <1>6. media_canonical_key(key)
    BY <1>2 DEF media_canonical_key, canonical_key
  <1>7. photo_key_from_route(from_photo(u)) = key
    BY <1>5, <1>6 DEF photo_key_from_route
  <1>8. \E v \in urls : LET on == classify_photo(v, Percent \cup Question)
                        IN  on.kind = "stored" /\ on.key = key
    BY <1>1 DEF at
  <1>9. redirected_photo(from_photo(u), urls) = key
    BY <1>7, <1>8 DEF redirected_photo
  <1> QED BY <1>1, <1>3, <1>9

-----------------------------------------------------------------------------
(* The references of a database.                                           *)

\* A key of the database is read as it is, or not at all.
LEMMA Pushed ==
    ASSUME NEW kind, NEW id, NEW key, NEW source, NEW type, NEW r,
           r = push_database_key(kind, id, key, source, type)
    PROVE  /\ r.kind = kind /\ r.id = id /\ r.content_type = type
           /\ \/ r.presence = "invalid" /\ r.canonical_key = None
              \/ /\ r.canonical_key = key /\ r.source_key = source
                 /\ key # <<>> /\ source # <<>>
  <1>1. CASE canonical_key(key) /\ legacy_physical_key(source)
    BY <1>1 DEF push_database_key, Reference, canonical_key, legacy_physical_key
  <1>2. CASE ~(canonical_key(key) /\ legacy_physical_key(source))
    BY <1>2 DEF push_database_key, Reference
  <1> QED BY <1>1, <1>2

\* The name of an attachment's object.
LEMMA AttachmentKeys ==
    ASSUME NEW email \in Segment, NEW segment \in Segment
    PROVE  /\ AttachmentKey(email, segment) \in AnyKey \ {<<>>}
           /\ AttachmentKey(email, segment)[1] = "emails"
           /\ ~StartsWith(AttachmentKey(email, segment), PhotoPrefix)
  <1> DEFINE key == <<"emails", email, "attachments", segment>>
  <1>1. "emails" \in Segment /\ "attachments" \in Segment
    BY DEF Segment
  <1>2. key \in Seq(Segment) /\ Len(key) = 4 /\ key[1] = "emails"
    BY <1>1
  <1>3. ~StartsWith(key, PhotoPrefix)
    <2> SUFFICES ASSUME StartsWith(key, PhotoPrefix) PROVE FALSE
      OBVIOUS
    <2>1. SubSeq(key, 1, 1) = <<"loan-workspace">>
      BY PhotoPrefixKey DEF StartsWith, PhotoPrefix
    <2>2. SubSeq(key, 1, 1)[1] = key[1]
      BY <1>2
    <2>3. <<"loan-workspace">>[1] = "loan-workspace"
      OBVIOUS
    <2>4. "emails" = "loan-workspace"
      BY <1>2, <2>1, <2>2, <2>3
    <2> QED BY <2>4
  <1>4. key # <<>>
    BY <1>2
  <1> QED BY <1>2, <1>3, <1>4 DEF AttachmentKey, AnyKey

\* The email of an attachment, and the two names of its object.
MailOf(c, a) == CHOOSE e \in c.emails : e.id = a.email_id
TargetName(c, a) == AttachmentKey(MailOf(c, a).resend_email_id, a.resend_attachment_id)
LegacyName(c, a) == AttachmentKey(MailOf(c, a).resend_email_id, LegacyFilename(a.filename))
StoredAttachments(c) == {a \in c.attachments : a.s3_key # None}

\* An attachment with an object has an email and a name in either store.
LEMMA AttachmentNames ==
    ASSUME NEW c, WellKept(c), NEW a \in StoredAttachments(c)
    PROVE  /\ transform_attachment_key(a, c.emails).key = TargetName(c, a)
           /\ TargetName(c, a) \in AnyKey \ {<<>>} /\ TargetName(c, a)[1] = "emails"
           /\ LegacyName(c, a) \in AnyKey \ {<<>>}
           /\ ~StartsWith(LegacyName(c, a), PhotoPrefix)
           /\ \/ a.s3_key = LegacyName(c, a)
              \/ /\ a.s3_key = TargetName(c, a)
                 /\ a.s3_key \in DOMAIN c.objects \ {r.source_key : r \in Referring(c)}
  <1>1. a \in AttachmentRows /\ a \in c.attachments /\ a.s3_key # None
    BY DEF StoredAttachments, WellKept, CorpusRows
  <1>2. \E e \in c.emails : e.id = a.email_id
    BY DEF WellKept, AttachmentsKept, StoredAttachments
  <1>3. MailOf(c, a) \in c.emails
    BY <1>2 DEF MailOf
  <1>4. MailOf(c, a).resend_email_id \in Segment
    BY <1>3 DEF WellKept, CorpusRows, EmailRows
  <1>5. a.resend_attachment_id \in Segment /\ LegacyFilename(a.filename) \in Segment
    BY <1>1 DEF AttachmentRows, LegacyFilename, Segment
  <1>6. transform_attachment_key(a, c.emails).key = TargetName(c, a)
    <2>1. ~\A e \in c.emails : e.id # a.email_id
      BY <1>2
    <2> QED BY <1>1, <2>1 DEF transform_attachment_key, TargetName, MailOf
  <1>7. \/ a.s3_key = LegacyName(c, a)
        \/ /\ a.s3_key = TargetName(c, a)
           /\ a.s3_key \in DOMAIN c.objects \ {r.source_key : r \in Referring(c)}
    BY <1>6 DEF WellKept, AttachmentsKept, StoredAttachments, LegacyName, MailOf
  <1> QED BY <1>4, <1>5, <1>6, <1>7, AttachmentKeys DEF TargetName, LegacyName


\* The reference to an attachment's object.
AttachmentReference(c, a) ==
    push_database_key("attachment", a.id, TargetName(c, a), LegacyName(c, a), a.content_type)

\* The references to attachments are those of the attachments that have an object,
\* though they are read in the artifact, where their keys are others.
LEMMA AttachmentReferences ==
    ASSUME NEW c, WellKept(c)
    PROVE  read_attachments(c) = {AttachmentReference(c, a) : a \in StoredAttachments(c)}
  <1> DEFINE Row(a) == [a EXCEPT !.s3_key = transform_attachment_key(a, c.emails).key]
             Read(b) == push_database_key("attachment", b.id, b.s3_key, LegacyName(c, b),
                                          b.content_type)
  <1>1. read_attachments(c) = {Read(b) : b \in {b \in {Row(a) : a \in c.attachments} : b.s3_key # None}}
    BY DEF read_attachments, Artifact, LegacyName, MailOf
  <1>2. ASSUME NEW a \in c.attachments
        PROVE  /\ Row(a).s3_key = transform_attachment_key(a, c.emails).key
               /\ Row(a).id = a.id /\ Row(a).content_type = a.content_type
               /\ Row(a).email_id = a.email_id /\ Row(a).filename = a.filename
    BY DEF WellKept, CorpusRows, AttachmentRows
  <1>3. ASSUME NEW a \in c.attachments
        PROVE  LegacyName(c, Row(a)) = LegacyName(c, a)
    <2> DEFINE b == Row(a)
    <2>1. b.email_id = a.email_id /\ b.filename = a.filename
      BY <1>2
    <2> HIDE DEF b
    <2>2. LegacyName(c, b) = LegacyName(c, a)
      BY <2>1 DEF LegacyName, MailOf
    <2> QED BY <2>2 DEF b
  <1>4. ASSUME NEW a \in StoredAttachments(c)
        PROVE  Row(a).s3_key = TargetName(c, a) /\ Read(Row(a)) = AttachmentReference(c, a)
    <2>1. a \in c.attachments /\ transform_attachment_key(a, c.emails).key = TargetName(c, a)
      BY AttachmentNames DEF StoredAttachments
    <2> DEFINE b == Row(a)
    <2>2. /\ b.s3_key = TargetName(c, a) /\ b.id = a.id
          /\ b.content_type = a.content_type /\ LegacyName(c, b) = LegacyName(c, a)
      BY <1>2, <1>3, <2>1
    <2> HIDE DEF b
    <2>3. Read(b) = AttachmentReference(c, a)
      BY <2>2 DEF AttachmentReference
    <2> QED BY <2>2, <2>3 DEF b
  <1>5. ASSUME NEW a \in c.attachments, Row(a).s3_key # None
        PROVE  a \in StoredAttachments(c)
    BY <1>2, <1>5 DEF StoredAttachments, transform_attachment_key
  <1>6. ASSUME NEW a \in StoredAttachments(c)
        PROVE  a \in c.attachments /\ Row(a).s3_key # None
    BY <1>4, AttachmentNames DEF StoredAttachments, WellKept, CorpusRows
  <1> HIDE DEF Row, Read
  <1> QED BY <1>1, <1>4, <1>5, <1>6

\* The references to email bodies and to photos.
BodyReference(e) ==
    push_database_key("body", e.id, e.body_s3_key, e.body_s3_key, e.body_content_type)
PhotoReference(p) ==
    LET at == classify_photo(p.image_url, Percent)
    IN  Reference("photo", p.id, at.key, at.key, None,
                  CASE at.kind = "stored" -> "missing"
                    [] at.kind = "external" -> "external"
                    [] OTHER -> "invalid")
WithBody(c) == {e \in c.emails : e.body_s3_key \notin {None, <<>>}}

\* The references of a database are those of its rows.
LEMMA References ==
    ASSUME NEW c, WellKept(c)
    PROVE  read_database(c) =
              {PhotoReference(p) : p \in c.photos}
              \cup {BodyReference(e) : e \in WithBody(c)}
              \cup {AttachmentReference(c, a) : a \in StoredAttachments(c)}
  BY AttachmentReferences
     DEF read_database, read_photos, PhotoReference, read_email_bodies, BodyReference, WithBody

\* A database has finitely many references.
LEMMA FiniteReferences ==
    ASSUME NEW c, WellKept(c)
    PROVE  IsFiniteSet(read_database(c)) /\ IsFiniteSet(Referring(c))
  <1>1. IsFiniteSet(c.photos) /\ IsFiniteSet(WithBody(c)) /\ IsFiniteSet(StoredAttachments(c))
    BY FS_Subset DEF WithBody, StoredAttachments, WellKept, CorpusRows
  <1> DEFINE f == [p \in c.photos |-> PhotoReference(p)]
             g == [e \in WithBody(c) |-> BodyReference(e)]
             h == [a \in StoredAttachments(c) |-> AttachmentReference(c, a)]
  <1>2. /\ f = [p \in c.photos |-> f[p]] /\ g = [e \in WithBody(c) |-> g[e]]
        /\ h = [a \in StoredAttachments(c) |-> h[a]]
    OBVIOUS
  <1>3. read_database(c) = {f[p] : p \in c.photos} \cup {g[e] : e \in WithBody(c)}
                           \cup {h[a] : a \in StoredAttachments(c)}
    <2>1. {f[p] : p \in c.photos} = {PhotoReference(p) : p \in c.photos}
      OBVIOUS
    <2>2. {g[e] : e \in WithBody(c)} = {BodyReference(e) : e \in WithBody(c)}
      OBVIOUS
    <2>3. {h[a] : a \in StoredAttachments(c)}
             = {AttachmentReference(c, a) : a \in StoredAttachments(c)}
      OBVIOUS
    <2> HIDE DEF f, g, h
    <2> QED BY <2>1, <2>2, <2>3, References
  <1> HIDE DEF f, g, h
  <1>4. /\ IsFiniteSet({f[p] : p \in c.photos}) /\ IsFiniteSet({g[e] : e \in WithBody(c)})
        /\ IsFiniteSet({h[a] : a \in StoredAttachments(c)})
    BY <1>1, <1>2, FiniteValues
  <1>5. IsFiniteSet(read_database(c))
    BY <1>3, <1>4, FS_Union
  <1>6. Referring(c) \subseteq read_database(c)
    BY DEF Referring
  <1> QED BY <1>5, <1>6, FS_Subset

\* A reference that has an object has a key in either store, an id and a kind.
LEMMA ReferenceTypes ==
    ASSUME NEW c, WellKept(c), NEW r \in Referring(c)
    PROVE  /\ r.canonical_key \in AnyKey \ {<<>>} /\ r.source_key \in AnyKey \ {<<>>}
           /\ r.id \in Nat /\ r.kind \in {"photo", "body", "attachment"}
  <1>1. r \in read_database(c) /\ r.canonical_key # None
    BY DEF Referring
  <1>2. ASSUME NEW p \in c.photos, r = PhotoReference(p)
        PROVE  /\ r.canonical_key \in AnyKey \ {<<>>} /\ r.source_key \in AnyKey \ {<<>>}
               /\ r.id \in Nat /\ r.kind = "photo"
    <2> DEFINE at == classify_photo(p.image_url, Percent)
    <2>1. r.canonical_key = at.key /\ r.source_key = at.key /\ r.id = p.id /\ r.kind = "photo"
      BY <1>2 DEF PhotoReference, Reference
    <2>2. p.image_url \in URLs /\ p.id \in Nat
      BY DEF WellKept, CorpusRows, PhotoRows
    <2>3. at.key \in AnyKey \ {<<>>}
      BY <1>1, <2>1, <2>2, PhotoKeys
    <2> QED BY <2>1, <2>2, <2>3
  <1>3. ASSUME NEW e \in WithBody(c), r = BodyReference(e)
        PROVE  /\ r.canonical_key \in AnyKey \ {<<>>} /\ r.source_key \in AnyKey \ {<<>>}
               /\ r.id \in Nat /\ r.kind = "body"
    <2>1. e \in EmailRows /\ e.body_s3_key \in AnyKey \ {<<>>} /\ e.id \in Nat
      BY DEF WellKept, CorpusRows, EmailRows, WithBody
    <2>2. r.canonical_key = e.body_s3_key /\ r.source_key = e.body_s3_key
          /\ r.id = e.id /\ r.kind = "body"
      BY <1>1, <1>3, Pushed DEF BodyReference
    <2> QED BY <2>1, <2>2
  <1>4. ASSUME NEW a \in StoredAttachments(c), r = AttachmentReference(c, a)
        PROVE  /\ r.canonical_key \in AnyKey \ {<<>>} /\ r.source_key \in AnyKey \ {<<>>}
               /\ r.id \in Nat /\ r.kind = "attachment"
    <2>1. a.id \in Nat
      BY DEF WellKept, CorpusRows, AttachmentRows, StoredAttachments
    <2>2. TargetName(c, a) \in AnyKey \ {<<>>} /\ LegacyName(c, a) \in AnyKey \ {<<>>}
      BY AttachmentNames
    <2>3. r.canonical_key = TargetName(c, a) /\ r.source_key = LegacyName(c, a)
          /\ r.id = a.id /\ r.kind = "attachment"
      BY <1>1, <1>4, Pushed DEF AttachmentReference
    <2> QED BY <2>1, <2>2, <2>3
  <1> QED BY <1>1, <1>2, <1>3, <1>4, References

\* One of finitely many references comes next.
LEMMA NextReferenceExists ==
    ASSUME NEW c, WellKept(c), NEW left, left \subseteq Referring(c), left # {}
    PROVE  NextReference(left) \in left
  <1> DEFINE Before(r, s) == \/ KindOrder[r.kind] < KindOrder[s.kind]
                             \/ KindOrder[r.kind] = KindOrder[s.kind] /\ r.id <= s.id
             P == {T \in SUBSET left : T = {} \/ \E r \in T : \A s \in T : Before(r, s)}
  <1>1. IsFiniteSet(left)
    BY FiniteReferences, FS_Subset
  <1>2. \A r \in left : r.id \in Nat /\ KindOrder[r.kind] \in Nat
    <2>1. \A kind \in {"photo", "body", "attachment"} : KindOrder[kind] \in Nat
      BY DEF KindOrder
    <2> QED BY <2>1, ReferenceTypes
  <1>3. \A r \in left : Before(r, r)
    BY <1>2
  <1>4. \A r, s \in left : Before(r, s) \/ Before(s, r)
    BY <1>2
  <1>5. \A r, s, t \in left : Before(r, s) /\ Before(s, t) => Before(r, t)
    BY <1>2
  <1> HIDE DEF Before
  <1>6. ASSUME NEW T \in P, NEW x \in left
        PROVE  T \cup {x} \in P
    <2>1. CASE T = {}
      BY <1>3, <2>1
    <2>2. CASE T # {}
      <3>1. PICK r \in T : \A s \in T : Before(r, s)
        BY <2>2
      <3>2. r \in left /\ T \subseteq left
        OBVIOUS
      <3>3. CASE Before(r, x)
        BY <3>1, <3>2, <3>3
      <3>4. CASE Before(x, r)
        <4>1. \A s \in T \cup {x} : Before(x, s)
          BY <1>3, <1>5, <3>1, <3>2, <3>4
        <4> QED BY <3>2, <4>1
      <3> QED BY <1>4, <3>2, <3>3, <3>4
    <2> QED BY <2>1, <2>2
  <1>7. {} \in P /\ P \in SUBSET (SUBSET left)
    OBVIOUS
  <1> HIDE DEF P
  <1>8. left \in P
    BY <1>1, <1>6, <1>7, FiniteInduction
  <1>9. \E r \in left : \A s \in left : Before(r, s)
    BY <1>8 DEF P
  <1> QED BY <1>9 DEF NextReference, Before


-----------------------------------------------------------------------------
(* What a valid manifest stands for.                                       *)

\* What a transfer of a corpus writes for a reference.
Sent(c, r) == Copy(c.objects, SourceStore(c), r)

\* The source has what the database refers to, under one name, and nothing else.
Complete(c) ==
    /\ \A r \in read_database(c) : r.presence # "invalid"
    /\ \A r \in Referring(c) : /\ Names(c.objects, r.source_key, "legacy_source") # {}
                               /\ Unambiguous(c.objects, r.source_key, "legacy_source")
    /\ \A k \in DOMAIN c.objects : \E r \in Referring(c) :
          canonicalize_physical_key(k, "legacy_source") = r.source_key

\* The bucket has what a transfer writes for a reference.
Copied(c, b, r) ==
    LET key == c.target \o r.canonical_key
    IN  /\ key \in DOMAIN b
        /\ b[key].bytes = Sent(c, r).bytes
        /\ Sent(c, r).type # None => b[key].type = Sent(c, r).type

\* The target has only keys of references.
NoStrangers(c, b) ==
    \A k \in AnyKey \ {<<>>} :
        c.target \o k \in DOMAIN b => \E r \in Referring(c) : r.canonical_key = k

Finished(c, b) ==
    Complete(c) /\ (\A r \in Referring(c) : Copied(c, b, r)) /\ NoStrangers(c, b)

\* Objects of a bucket.
Bucket(b) == \A k \in DOMAIN b :
    k \in AnyKey /\ b[k] = [bytes |-> b[k].bytes, type |-> b[k].type]

\* What was copied for a reference is found under its key.
LEMMA CopiedIsFound ==
    ASSUME NEW c, WellKept(c), NEW b, Bucket(b), NEW r \in Referring(c), Copied(c, b, r),
           NEW new, new = Under(c.target, b)
    PROVE  /\ r.canonical_key \in DOMAIN new
           /\ new[r.canonical_key].bytes = Sent(c, r).bytes
           /\ Sent(c, r).type # None => new[r.canonical_key].type = Sent(c, r).type
           /\ new[r.canonical_key] = [bytes |-> new[r.canonical_key].bytes,
                                      type |-> new[r.canonical_key].type]
  <1> DEFINE key == r.canonical_key
  <1>1. key \in AnyKey \ {<<>>} /\ c.target \in AnyKey /\ DOMAIN b \subseteq AnyKey
    BY ReferenceTypes DEF WellKept, Bucket
  <1>2. /\ c.target \o key \in DOMAIN b
        /\ b[c.target \o key].bytes = Sent(c, r).bytes
        /\ Sent(c, r).type # None => b[c.target \o key].type = Sent(c, r).type
    BY DEF Copied
  <1>3. key \in DOMAIN new /\ new[key] = b[c.target \o key]
    BY <1>1, <1>2, UnderPrefix
  <1>4. new[key] = [bytes |-> new[key].bytes, type |-> new[key].type]
    BY <1>2, <1>3 DEF Bucket
  <1> QED BY <1>2, <1>3, <1>4

\* What is sent for a reference has the bytes of the object it leads to, and the
\* content type of its row if that has one.
LEMMA SentBytes ==
    ASSUME NEW c, WellKept(c), Complete(c), NEW r \in Referring(c)
    PROVE  /\ \A n \in Names(c.objects, r.source_key, "legacy_source") :
                 Sent(c, r).bytes = c.objects[n].bytes
           /\ r.content_type # None => Sent(c, r).type = r.content_type
           /\ ~StartsWith(r.source_key, PhotoPrefix) =>
                 Names(c.objects, r.source_key, "legacy_source") = {r.source_key}
  <1>1. /\ Names(c.objects, r.source_key, "legacy_source") # {}
        /\ Unambiguous(c.objects, r.source_key, "legacy_source")
    BY DEF Complete
  <1>2. r.source_key \in AnyKey \ {<<>>} /\ Store(c.objects)
    BY ReferenceTypes DEF WellKept
  <1>3. Sent(c, r).bytes = get(c.objects, r.source_key, "legacy_source", SourceStore(c)).bytes
    BY DEF Sent, Copy
  <1>4. \A n \in Names(c.objects, r.source_key, "legacy_source") :
           Sent(c, r).bytes = c.objects[n].bytes
    BY <1>1, <1>2, <1>3, GetBytes
  <1>5. r.content_type # None => Sent(c, r).type = r.content_type
    BY DEF Sent, Copy
  <1>6. ~StartsWith(r.source_key, PhotoPrefix) =>
           Names(c.objects, r.source_key, "legacy_source") = {r.source_key}
    BY <1>1, <1>2, Candidates DEF Names
  <1> QED BY <1>4, <1>5, <1>6

\* A finished transfer has brought the objects of attachments.
LEMMA AttachmentsHaveArrived ==
    ASSUME NEW c, WellKept(c), NEW b, Bucket(b), Finished(c, b),
           NEW new, new = Under(c.target, b)
    PROVE  AttachmentsArrived(c, new)
  <1> SUFFICES ASSUME NEW a \in c.attachments, a.s3_key # None
               PROVE  /\ transform_attachment_key(a, c.emails).key \in DOMAIN new
                      /\ new[transform_attachment_key(a, c.emails).key] =
                            [bytes |-> c.objects[a.s3_key].bytes, type |-> a.content_type]
    BY DEF AttachmentsArrived
  <1> DEFINE r == AttachmentReference(c, a)
  <1>1. a \in StoredAttachments(c)
    BY DEF StoredAttachments
  <1>2. r \in read_database(c)
    BY <1>1, References
  <1>3. r.presence # "invalid"
    BY <1>2 DEF Finished, Complete
  <1>4. /\ r.canonical_key = TargetName(c, a) /\ r.source_key = LegacyName(c, a)
        /\ r.content_type = a.content_type
    BY <1>3, Pushed DEF AttachmentReference
  <1>5. /\ transform_attachment_key(a, c.emails).key = TargetName(c, a)
        /\ TargetName(c, a) \in AnyKey \ {<<>>} /\ TargetName(c, a)[1] = "emails"
        /\ ~StartsWith(LegacyName(c, a), PhotoPrefix)
    BY <1>1, AttachmentNames
  <1> HIDE DEF r
  <1>6. r \in Referring(c)
    BY <1>2, <1>4, <1>5 DEF Referring, WellKept, CorpusRows
  <1>7. a.s3_key = LegacyName(c, a)
    <2> SUFFICES ASSUME a.s3_key # LegacyName(c, a) PROVE FALSE
      OBVIOUS
    <2>1. /\ a.s3_key = TargetName(c, a) /\ a.s3_key \in DOMAIN c.objects
          /\ \A s \in Referring(c) : s.source_key # a.s3_key
      BY <1>1, AttachmentNames
    <2>2. canonicalize_physical_key(a.s3_key, "legacy_source") = a.s3_key
      BY <1>5, <2>1 DEF canonicalize_physical_key
    <2> QED BY <2>1, <2>2 DEF Finished, Complete
  <1>8. a.content_type # None
    BY DEF WellKept, CorpusRows, AttachmentRows
  <1>9. Complete(c) /\ Copied(c, b, r)
    BY <1>6 DEF Finished
  <1>10. Sent(c, r).bytes = c.objects[a.s3_key].bytes /\ Sent(c, r).type = a.content_type
    BY <1>4, <1>5, <1>6, <1>7, <1>8, <1>9, SentBytes
  <1>11. /\ r.canonical_key \in DOMAIN new
         /\ new[r.canonical_key].bytes = Sent(c, r).bytes
         /\ Sent(c, r).type # None => new[r.canonical_key].type = Sent(c, r).type
         /\ new[r.canonical_key] = [bytes |-> new[r.canonical_key].bytes,
                                    type |-> new[r.canonical_key].type]
    BY <1>6, <1>9, CopiedIsFound
  <1>12. transform_attachment_key(a, c.emails).key = r.canonical_key
    BY <1>4, <1>5
  <1>13. /\ new[r.canonical_key].bytes = c.objects[a.s3_key].bytes
         /\ new[r.canonical_key].type = a.content_type
    BY <1>8, <1>10, <1>11
  <1>14. new[r.canonical_key] = [bytes |-> c.objects[a.s3_key].bytes, type |-> a.content_type]
    BY <1>11, <1>13
  <1> QED BY <1>11, <1>12, <1>14

\* A finished transfer has brought the bodies of emails.
LEMMA BodiesHaveArrived ==
    ASSUME NEW c, WellKept(c), NEW b, Bucket(b), Finished(c, b),
           NEW new, new = Under(c.target, b)
    PROVE  BodiesArrived(c, new)
  <1> SUFFICES ASSUME NEW e \in c.emails, e.body_s3_key \notin {None, <<>>}
               PROVE  /\ e.body_s3_key \in DOMAIN new
                      /\ new[e.body_s3_key].bytes = c.objects[e.body_s3_key].bytes
                      /\ e.body_content_type \in {None, new[e.body_s3_key].type}
    BY DEF BodiesArrived
  <1> DEFINE r == BodyReference(e)
  <1>1. e \in WithBody(c)
    BY DEF WithBody
  <1>2. r \in read_database(c)
    BY <1>1, References
  <1>3. r.presence # "invalid"
    BY <1>2 DEF Finished, Complete
  <1>4. /\ r.canonical_key = e.body_s3_key /\ r.source_key = e.body_s3_key
        /\ r.content_type = e.body_content_type
    BY <1>3, Pushed DEF BodyReference
  <1> HIDE DEF r
  <1>5. r \in Referring(c)
    BY <1>2, <1>4 DEF Referring
  <1>6. ~StartsWith(e.body_s3_key, PhotoPrefix)
    BY DEF WellKept, BodiesKept
  <1>7. Complete(c) /\ Copied(c, b, r)
    BY <1>5 DEF Finished
  <1>8. /\ Sent(c, r).bytes = c.objects[e.body_s3_key].bytes
        /\ e.body_content_type # None => Sent(c, r).type = e.body_content_type
    BY <1>4, <1>5, <1>6, <1>7, SentBytes
  <1>9. /\ r.canonical_key \in DOMAIN new
        /\ new[r.canonical_key].bytes = Sent(c, r).bytes
        /\ Sent(c, r).type # None => new[r.canonical_key].type = Sent(c, r).type
        /\ new[r.canonical_key] = [bytes |-> new[r.canonical_key].bytes,
                                   type |-> new[r.canonical_key].type]
    BY <1>5, <1>7, CopiedIsFound
  <1> QED BY <1>4, <1>8, <1>9

\* A finished transfer has brought the photos that pages have links to.
LEMMA PhotosHaveArrived ==
    ASSUME NEW c, WellKept(c), NEW b, Bucket(b), Finished(c, b),
           NEW new, new = Under(c.target, b)
    PROVE  PhotosArrived(c, new)
  <1> DEFINE urls == {p.image_url : p \in c.photos}
  <1> SUFFICES ASSUME NEW p \in c.photos, from_photo(p.image_url) # None
               PROVE  /\ redirected_photo(from_photo(p.image_url), urls) \in DOMAIN new
                      /\ new[redirected_photo(from_photo(p.image_url), urls)].bytes
                            = c.objects[p.object].bytes
    BY DEF PhotosArrived
  <1> DEFINE r == PhotoReference(p)
             at == classify_photo(p.image_url, Percent)
  <1>1. p.image_url \in URLs /\ p.image_url \in urls
    BY DEF WellKept, CorpusRows, PhotoRows
  <1>2. at.kind = "stored" /\ redirected_photo(from_photo(p.image_url), urls) = at.key
    BY <1>1, LinkLeadsToKey
  <1>3. at.key \in AnyKey \ {<<>>}
    BY <1>1, <1>2, PhotoKeys
  <1>4. r.canonical_key = at.key /\ r.source_key = at.key
    BY DEF PhotoReference, Reference
  <1>5. r \in Referring(c)
    BY <1>3, <1>4, References DEF Referring, WellKept, CorpusRows
  <1>6. /\ p.object \in physical_candidates(at.key, "legacy_source")
        /\ physical_candidates(at.key, "legacy_source") \cap DOMAIN c.objects # {} =>
              p.object \in DOMAIN c.objects
    BY <1>2 DEF WellKept, PhotosKept
  <1> HIDE DEF r, at, urls
  <1>7. Complete(c) /\ Copied(c, b, r)
    BY <1>5 DEF Finished
  <1>8. p.object \in Names(c.objects, r.source_key, "legacy_source")
    BY <1>4, <1>5, <1>6, <1>7 DEF Complete, Names
  <1>9. Sent(c, r).bytes = c.objects[p.object].bytes
    BY <1>5, <1>7, <1>8, SentBytes
  <1>10. /\ r.canonical_key \in DOMAIN new
         /\ new[r.canonical_key].bytes = Sent(c, r).bytes
         /\ Sent(c, r).type # None => new[r.canonical_key].type = Sent(c, r).type
         /\ new[r.canonical_key] = [bytes |-> new[r.canonical_key].bytes,
                                    type |-> new[r.canonical_key].type]
    BY <1>5, <1>7, CopiedIsFound
  <1>11. redirected_photo(from_photo(p.image_url), urls) = r.canonical_key
    BY <1>2, <1>4
  <1> QED BY <1>9, <1>10, <1>11

\* A finished transfer has left nothing else in the target.
LEMMA NothingElse ==
    ASSUME NEW c, WellKept(c), NEW b, Bucket(b), Finished(c, b),
           NEW new, new = Under(c.target, b)
    PROVE  Cardinality(DOMAIN new) <= Cardinality(Referring(c))
  <1> DEFINE f == [r \in Referring(c) |-> r.canonical_key]
             T == {f[r] : r \in Referring(c)}
  <1>1. IsFiniteSet(Referring(c))
    BY FiniteReferences
  <1>2. f \in Surjection(Referring(c), T)
    BY DEF Surjection
  <1>3. DOMAIN new \subseteq T
    <2>1. c.target \in AnyKey /\ DOMAIN b \subseteq AnyKey
      BY DEF WellKept, Bucket
    <2> QED BY <2>1, UnderPrefix DEF Finished, NoStrangers
  <1> HIDE DEF f, T
  <1>4. IsFiniteSet(T) /\ Cardinality(T) <= Cardinality(Referring(c))
    BY <1>1, <1>2, FS_Surjection
  <1>5. IsFiniteSet(DOMAIN new) /\ Cardinality(DOMAIN new) <= Cardinality(T)
    BY <1>3, <1>4, FS_Subset
  <1>6. /\ Cardinality(DOMAIN new) \in Nat /\ Cardinality(T) \in Nat
        /\ Cardinality(Referring(c)) \in Nat
    BY <1>1, <1>4, <1>5, FS_CardinalityType
  <1> QED BY <1>4, <1>5, <1>6


-----------------------------------------------------------------------------
(* The source does not change under the transfers.                         *)

\* What the references of a database lead to is in the bucket as it was.
SourceKept(c, b) ==
    \/ c.local \/ Refused(c)
    \/ /\ \A k \in DOMAIN c.objects : c.prefix \o k \in DOMAIN b
       /\ \A r \in Referring(c) :
             \A k \in physical_candidates(r.source_key, "legacy_source") :
                /\ c.prefix \o k \in DOMAIN b <=> k \in DOMAIN c.objects
                /\ k \in DOMAIN c.objects => b[c.prefix \o k] = c.objects[k]

\* What a transfer reads is what the legacy program had.
LEMMA SourceIsLegacy ==
    ASSUME NEW c, WellKept(c), ~Refused(c), NEW b, Bucket(b), SourceKept(c, b)
    PROVE  /\ \A r \in Referring(c) :
                 /\ Copy(SourceObjects(c, b), SourceStore(c), r) = Sent(c, r)
                 /\ Names(SourceObjects(c, b), r.source_key, "legacy_source")
                       = Names(c.objects, r.source_key, "legacy_source")
           /\ DOMAIN c.objects \subseteq DOMAIN SourceObjects(c, b)
           /\ DOMAIN SourceObjects(c, b) \subseteq AnyKey \ {<<>>}
  <1>1. CASE c.local
    <2>1. SourceObjects(c, b) = c.objects
      BY <1>1 DEF SourceObjects
    <2> QED BY <2>1 DEF Sent, WellKept, Store
  <1>2. CASE ~c.local
    <2> DEFINE o == SourceObjects(c, b)
    <2>1. o = Under(c.prefix, b)
      BY <1>2 DEF SourceObjects
    <2>2. c.prefix \in AnyKey /\ DOMAIN b \subseteq AnyKey /\ Store(c.objects)
      BY DEF WellKept, Bucket
    <2>3. /\ \A k : k \in DOMAIN o <=> k \in AnyKey \ {<<>>} /\ c.prefix \o k \in DOMAIN b
          /\ \A k \in DOMAIN o : o[k] = b[c.prefix \o k]
      BY <2>1, <2>2, UnderPrefix
    <2>4. /\ \A k \in DOMAIN c.objects : c.prefix \o k \in DOMAIN b
          /\ \A r \in Referring(c) :
                \A k \in physical_candidates(r.source_key, "legacy_source") :
                   /\ c.prefix \o k \in DOMAIN b <=> k \in DOMAIN c.objects
                   /\ k \in DOMAIN c.objects => b[c.prefix \o k] = c.objects[k]
      BY <1>2 DEF SourceKept
    <2> HIDE DEF o
    <2>5. ASSUME NEW r \in Referring(c),
                 NEW k \in physical_candidates(r.source_key, "legacy_source")
          PROVE  /\ k \in DOMAIN o <=> k \in DOMAIN c.objects
                 /\ k \in DOMAIN o => o[k] = c.objects[k]
      <3>1. k \in AnyKey \ {<<>>}
        BY ReferenceTypes, Candidates
      <3> QED BY <2>3, <2>4, <3>1
    <2>6. ASSUME NEW r \in Referring(c)
          PROVE  /\ Names(o, r.source_key, "legacy_source")
                       = Names(c.objects, r.source_key, "legacy_source")
                 /\ get(o, r.source_key, "legacy_source", SourceStore(c))
                       = get(c.objects, r.source_key, "legacy_source", SourceStore(c))
      BY <2>5, GetSame
    <2>7. ASSUME NEW r \in Referring(c)
          PROVE  Copy(o, SourceStore(c), r) = Sent(c, r)
      BY <2>6 DEF Sent, Copy
    <2>8. DOMAIN c.objects \subseteq DOMAIN o /\ DOMAIN o \subseteq AnyKey \ {<<>>}
      BY <2>2, <2>3, <2>4 DEF Store
    <2> QED BY <2>6, <2>7, <2>8 DEF o
  <1> QED BY <1>1, <1>2

\* The bucket at the start.
LEMMA InitialObjects ==
    ASSUME NEW c, WellKept(c)
    PROVE  Bucket(InitialBucket(c)) /\ SourceKept(c, InitialBucket(c))
  <1> DEFINE b == InitialBucket(c)
             moved == IF c.local THEN {} ELSE {c.prefix \o k : k \in DOMAIN c.objects}
  <1>1. b = [k \in DOMAIN c.there \cup moved |->
                IF k \in DOMAIN c.there THEN c.there[k] ELSE c.objects[After(k, c.prefix)]]
    BY DEF InitialBucket
  <1>2. c.prefix \in AnyKey /\ Store(c.objects) /\ Store(c.there)
    BY DEF WellKept
  <1>3. ASSUME NEW k \in DOMAIN c.objects
        PROVE  k \in AnyKey /\ c.prefix \o k \in AnyKey /\ After(c.prefix \o k, c.prefix) = k
    BY <1>2, Prefixed DEF Store
  <1>4. ASSUME NEW k \in moved
        PROVE  ~c.local /\ \E l \in DOMAIN c.objects : k = c.prefix \o l
    OBVIOUS
  <1>5. ~c.local => moved = {c.prefix \o k : k \in DOMAIN c.objects}
    OBVIOUS
  <1> HIDE DEF moved, b
  <1>6. ASSUME NEW k \in DOMAIN b
        PROVE  k \in AnyKey /\ b[k] = [bytes |-> b[k].bytes, type |-> b[k].type]
    <2>1. CASE k \in DOMAIN c.there
      BY <1>1, <1>2, <2>1 DEF Store
    <2>2. CASE k \notin DOMAIN c.there
      <3>1. PICK l \in DOMAIN c.objects : k = c.prefix \o l
        BY <1>1, <1>4, <2>2
      <3>2. b[k] = c.objects[l] /\ k \in AnyKey
        BY <1>1, <1>3, <2>2, <3>1
      <3> QED BY <1>2, <3>2 DEF Store
    <2> QED BY <2>1, <2>2
  <1>7. Bucket(b)
    BY <1>6 DEF Bucket
  <1>8. CASE c.local \/ Refused(c)
    BY <1>7, <1>8 DEF SourceKept, b
  <1>9. CASE ~(c.local \/ Refused(c))
    <2>1. \A k \in DOMAIN c.objects : c.prefix \o k \in DOMAIN b
      BY <1>1, <1>5, <1>9
    <2>2. ASSUME NEW r \in Referring(c),
                 NEW k \in physical_candidates(r.source_key, "legacy_source")
          PROVE  /\ c.prefix \o k \in DOMAIN b <=> k \in DOMAIN c.objects
                 /\ k \in DOMAIN c.objects => b[c.prefix \o k] = c.objects[k]
      <3>1. k \in AnyKey
        BY ReferenceTypes, Candidates
      <3>2. c.prefix \o k \notin DOMAIN c.there
        BY <1>9 DEF WellKept, Apart
      <3>3. ASSUME c.prefix \o k \in DOMAIN b PROVE k \in DOMAIN c.objects
        <4>1. PICK l \in DOMAIN c.objects : c.prefix \o k = c.prefix \o l
          BY <1>1, <1>4, <3>2, <3>3
        <4> QED BY <1>2, <1>3, <3>1, <4>1, SamePrefix
      <3>4. ASSUME k \in DOMAIN c.objects PROVE b[c.prefix \o k] = c.objects[k]
        BY <1>1, <1>3, <2>1, <3>2, <3>4
      <3> QED BY <2>1, <3>3, <3>4
    <2> QED BY <1>7, <2>1, <2>2 DEF SourceKept, b
  <1> QED BY <1>8, <1>9

\* What keeps its place in the bucket when a transfer writes.
Grown(c, b, d) ==
    /\ Bucket(d) /\ SourceKept(c, d)
    /\ \A r \in Referring(c) : Copied(c, b, r) => Copied(c, d, r)
    /\ NoStrangers(c, b) => NoStrangers(c, d)

\* A put that creates the object of a reference.
LEMMA CreateGrows ==
    ASSUME NEW c, WellKept(c), ~Refused(c), NEW b, Bucket(b), SourceKept(c, b),
           NEW r \in Referring(c), NEW d,
           d = Keeping(b, c.target \o r.canonical_key,
                       Copy(SourceObjects(c, b), SourceStore(c), r))
    PROVE  Grown(c, b, d)
  <1> DEFINE name == c.target \o r.canonical_key
             entry == Copy(SourceObjects(c, b), SourceStore(c), r)
  <1>1. c.target \in AnyKey /\ c.prefix \in AnyKey /\ r.canonical_key \in AnyKey
    BY ReferenceTypes DEF WellKept
  <1>2. name \in AnyKey
    BY <1>1, Prefixed
  <1>3. entry = [bytes |-> entry.bytes, type |-> entry.type]
    BY DEF Copy
  <1> HIDE DEF name, entry
  <1>4. /\ DOMAIN d = DOMAIN b \cup {name}
        /\ \A k \in DOMAIN b : d[k] = b[k]
        /\ name \notin DOMAIN b => d[name] = entry
    BY DEF Keeping, name, entry
  <1>5. Bucket(d)
    <2> SUFFICES ASSUME NEW k \in DOMAIN d
                 PROVE  k \in AnyKey /\ d[k] = [bytes |-> d[k].bytes, type |-> d[k].type]
      BY DEF Bucket
    <2>1. CASE k \in DOMAIN b
      BY <1>4, <2>1 DEF Bucket
    <2>2. CASE k \notin DOMAIN b
      <3>1. k = name /\ d[k] = entry
        BY <1>4, <2>2
      <3> QED BY <1>2, <1>3, <3>1
    <2> QED BY <2>1, <2>2
  <1>6. SourceKept(c, d)
    <2>1. CASE c.local
      BY <2>1 DEF SourceKept
    <2>2. CASE ~c.local
      <3>1. \A k \in DOMAIN c.objects : c.prefix \o k \in DOMAIN d
        BY <1>4, <2>2 DEF SourceKept
      <3>2. ASSUME NEW s \in Referring(c),
                   NEW k \in physical_candidates(s.source_key, "legacy_source")
            PROVE  /\ c.prefix \o k \in DOMAIN d <=> k \in DOMAIN c.objects
                   /\ k \in DOMAIN c.objects => d[c.prefix \o k] = c.objects[k]
        <4>1. /\ c.prefix \o k \in DOMAIN b <=> k \in DOMAIN c.objects
              /\ k \in DOMAIN c.objects => b[c.prefix \o k] = c.objects[k]
          BY <2>2 DEF SourceKept
        <4>2. c.prefix \o k # name
          BY <2>2 DEF WellKept, Apart, name
        <4> QED BY <1>4, <4>1, <4>2
      <3> QED BY <3>1, <3>2 DEF SourceKept
    <2> QED BY <2>1, <2>2
  <1>7. ASSUME NEW s \in Referring(c), Copied(c, b, s) PROVE Copied(c, d, s)
    BY <1>4, <1>7 DEF Copied
  <1>8. ASSUME NoStrangers(c, b) PROVE NoStrangers(c, d)
    <2> SUFFICES ASSUME NEW k \in AnyKey \ {<<>>}, c.target \o k \in DOMAIN d
                 PROVE  \E s \in Referring(c) : s.canonical_key = k
      BY DEF NoStrangers
    <2>1. CASE c.target \o k \in DOMAIN b
      BY <1>8, <2>1 DEF NoStrangers
    <2>2. CASE c.target \o k \notin DOMAIN b
      <3>1. c.target \o k = c.target \o r.canonical_key
        BY <1>4, <2>2 DEF name
      <3>2. k = r.canonical_key
        BY <1>1, <3>1, SamePrefix
      <3> QED BY <3>2
    <2> QED BY <2>1, <2>2
  <1> QED BY <1>5, <1>6, <1>7, <1>8 DEF Grown


-----------------------------------------------------------------------------
(* The inductive invariant of the transfers.                               *)

\* What is done of a corpus when a transfer is at a step with some references left
\* and some blockers found.
Progress(c, b, at, left, blockers) ==
    /\ at \notin {"start", "done"} => ~Refused(c)
    /\ at \in {"put", "verify", "destination", "publish"} /\ blockers = {} =>
          /\ Complete(c)
          /\ \A r \in Referring(c) \ left : Copied(c, b, r)
          /\ at \in {"destination", "publish"} => left = {}
          /\ at = "publish" => NoStrangers(c, b)

\* The manifests of transfers are right.
Honest(c, b, published) ==
    \A p \in DOMAIN published :
        published[p].valid /\ published[p].by \in Transfers => Finished(c, b)

CutoverInv ==
    /\ corpus \in Corpora /\ refs = read_database(corpus)
    /\ DOMAIN place = CutoverRuns /\ DOMAIN todo = CutoverRuns /\ DOMAIN found = CutoverRuns
    /\ \A r \in CutoverRuns : todo[r] \subseteq Referring(corpus)
    /\ Bucket(bucket) /\ SourceKept(corpus, bucket)
    /\ \A r \in CutoverRuns \ Transfers : place[r] \notin {"put", "verify"}
    /\ \A r \in Transfers : Progress(corpus, bucket, place[r], todo[r], found[r])
    /\ Honest(corpus, bucket, manifests)

\* Progress stays when the bucket grows.
LEMMA ProgressGrows ==
    ASSUME NEW c, NEW b, NEW d, Grown(c, b, d), NEW at, NEW left, NEW blockers,
           Progress(c, b, at, left, blockers)
    PROVE  Progress(c, d, at, left, blockers)
  BY DEF Grown, Progress

\* And so does what manifests say.
LEMMA HonestGrows ==
    ASSUME NEW c, NEW b, NEW d, Grown(c, b, d), NEW published, Honest(c, b, published)
    PROVE  Honest(c, d, published)
  <1>1. Finished(c, b) => Finished(c, d)
    BY DEF Grown, Finished
  <1> QED BY <1>1 DEF Honest

\* A step of one run preserves the invariant if it lets the bucket grow, and what
\* holds of the run and of the manifests holds again.
LEMMA StepOfRun ==
    ASSUME CutoverInv, NEW r \in CutoverRuns, corpus' = corpus, refs' = refs,
           Grown(corpus, bucket, bucket'),
           DOMAIN place' = CutoverRuns, DOMAIN todo' = CutoverRuns, DOMAIN found' = CutoverRuns,
           \A s \in CutoverRuns \ {r} : place'[s] = place[s] /\ todo'[s] = todo[s] /\ found'[s] = found[s],
           todo'[r] \subseteq Referring(corpus),
           r \in Transfers \/ place'[r] \notin {"put", "verify"},
           r \in Transfers => Progress(corpus, bucket', place'[r], todo'[r], found'[r]),
           Honest(corpus, bucket', manifests')
    PROVE  CutoverInv'
  <1>1. corpus' \in Corpora /\ refs' = read_database(corpus')
    BY DEF CutoverInv
  <1>2. ASSUME NEW s \in CutoverRuns PROVE todo'[s] \subseteq Referring(corpus')
    BY DEF CutoverInv
  <1>3. Bucket(bucket') /\ SourceKept(corpus', bucket')
    BY DEF Grown
  <1>4. ASSUME NEW s \in Transfers
        PROVE  Progress(corpus', bucket', place'[s], todo'[s], found'[s])
    <2>1. CASE s = r
      BY <2>1
    <2>2. CASE s # r
      <3>1. Progress(corpus, bucket, place[s], todo[s], found[s])
        BY DEF CutoverInv
      <3>2. Progress(corpus, bucket', place[s], todo[s], found[s])
        BY <3>1, ProgressGrows
      <3>3. place'[s] = place[s] /\ todo'[s] = todo[s] /\ found'[s] = found[s]
        BY <2>2 DEF CutoverRuns
      <3> QED BY <3>2, <3>3
    <2> QED BY <2>1, <2>2
  <1>5. \A s \in CutoverRuns \ Transfers : place'[s] \notin {"put", "verify"}
    BY DEF CutoverInv
  <1> QED BY <1>1, <1>2, <1>3, <1>4, <1>5 DEF CutoverInv

\* A bucket that nobody writes has grown.
LEMMA BucketStays ==
    ASSUME CutoverInv, bucket' = bucket
    PROVE  Grown(corpus, bucket, bucket')
  BY DEF CutoverInv, Grown

\* The conditions on corpora, and no run is of both kinds.
Suitable == (\A c \in Corpora : WellKept(c)) /\ Transfers \cap InventoryRuns = {}

\* The invariant holds at the start.
LEMMA CutoverInvInit ==
    ASSUME Suitable, CutoverInit
    PROVE  CutoverInv
  <1>1. corpus \in Corpora /\ WellKept(corpus) /\ refs = read_database(corpus)
    BY DEF CutoverInit, Suitable
  <1>2. Bucket(bucket) /\ SourceKept(corpus, bucket)
    BY <1>1, InitialObjects DEF CutoverInit
  <1>3. DOMAIN place = CutoverRuns /\ DOMAIN todo = CutoverRuns /\ DOMAIN found = CutoverRuns
    BY DEF CutoverInit
  <1>4. \A r \in CutoverRuns : todo[r] = {} /\ place[r] = "start"
    BY DEF CutoverInit
  <1>5. ASSUME NEW r \in Transfers PROVE Progress(corpus, bucket, place[r], todo[r], found[r])
    <2>1. place[r] = "start"
      BY <1>4 DEF CutoverRuns
    <2> QED BY <2>1 DEF Progress
  <1>6. DOMAIN manifests = {}
    BY DEF CutoverInit
  <1> QED BY <1>1, <1>2, <1>3, <1>4, <1>5, <1>6 DEF CutoverInv, Honest

\* The references with an object.
LEMMA ObjectsAreReferring ==
    ASSUME CutoverInv
    PROVE  Objects = Referring(corpus)
  BY DEF CutoverInv, Objects, Referring

\* Starting a run.
LEMMA ReservePreserves ==
    ASSUME Suitable, CutoverInv, NEW r \in CutoverRuns, reserve(r)
    PROVE  CutoverInv'
  <1>1. /\ corpus' = corpus /\ refs' = refs /\ bucket' = bucket /\ todo' = todo
        /\ found' = found /\ manifests' = manifests /\ DOMAIN place = CutoverRuns
    BY DEF reserve, CutoverInv
  <1>2. Grown(corpus, bucket, bucket')
    BY <1>1, BucketStays
  <1>3. \/ place' = [place EXCEPT ![r] = "done"]
        \/ place' = [place EXCEPT ![r] = "list"] /\ (r \in Transfers => ~Refused(corpus))
    BY DEF reserve, Enter, Exit
  <1>4. /\ DOMAIN place' = CutoverRuns /\ (\A s \in CutoverRuns \ {r} : place'[s] = place[s])
        /\ \/ place'[r] = "done"
           \/ place'[r] = "list" /\ (r \in Transfers => ~Refused(corpus))
    BY <1>1, <1>3
  <1>5. r \in Transfers => Progress(corpus, bucket', place'[r], todo'[r], found'[r])
    BY <1>4 DEF Progress
  <1>6. Honest(corpus, bucket', manifests')
    BY <1>1 DEF CutoverInv
  <1>7. DOMAIN todo' = CutoverRuns /\ DOMAIN found' = CutoverRuns /\ todo'[r] \subseteq Referring(corpus)
        /\ \A s \in CutoverRuns \ {r} : todo'[s] = todo[s] /\ found'[s] = found[s]
    BY <1>1 DEF CutoverInv
  <1> QED BY <1>1, <1>2, <1>4, <1>5, <1>6, <1>7, StepOfRun

\* A source without blockers is complete.
LEMMA InventoryIsComplete ==
    ASSUME Suitable, CutoverInv, ~Refused(corpus), NEW o, o = SourceObjects(corpus, bucket),
           \A r \in Objects : Unambiguous(o, r.source_key, "legacy_source"),
           reference_blockers(list_keys(o, "legacy_source")) = {}
    PROVE  Complete(corpus)
  <1> DEFINE keys == list_keys(o, "legacy_source")
  <1>1. WellKept(corpus) /\ Objects = Referring(corpus) /\ refs = read_database(corpus)
    BY ObjectsAreReferring DEF CutoverInv, Suitable
  <1>2. /\ \A r \in Referring(corpus) : Names(o, r.source_key, "legacy_source")
                 = Names(corpus.objects, r.source_key, "legacy_source")
        /\ DOMAIN corpus.objects \subseteq DOMAIN o /\ DOMAIN o \subseteq AnyKey \ {<<>>}
    BY <1>1, SourceIsLegacy DEF CutoverInv
  <1>3. \A r \in refs : r.presence # "invalid"
    BY DEF reference_blockers
  <1>4. \A r \in Objects : r.source_key \in keys
    BY DEF reference_blockers
  <1>5. keys \ {r.source_key : r \in Objects} = {}
    BY DEF reference_blockers
  <1>6. keys = {canonicalize_physical_key(k, "legacy_source") : k \in DOMAIN o}
    BY DEF list_keys
  <1> HIDE DEF keys
  <1>7. ASSUME NEW r \in Referring(corpus)
        PROVE  Names(corpus.objects, r.source_key, "legacy_source") # {}
    <2>1. PICK k \in DOMAIN o : r.source_key = canonicalize_physical_key(k, "legacy_source")
      BY <1>1, <1>4, <1>6
    <2>2. k \in physical_candidates(r.source_key, "legacy_source")
      BY <1>2, <2>1, Canonicalized
    <2>3. k \in Names(o, r.source_key, "legacy_source")
      BY <2>2 DEF Names
    <2> QED BY <1>2, <2>3
  <1>8. ASSUME NEW r \in Referring(corpus)
        PROVE  Unambiguous(corpus.objects, r.source_key, "legacy_source")
    BY <1>1, <1>2 DEF Unambiguous
  <1>9. ASSUME NEW k \in DOMAIN corpus.objects
        PROVE  \E r \in Referring(corpus) :
                  canonicalize_physical_key(k, "legacy_source") = r.source_key
    BY <1>1, <1>2, <1>5, <1>6
  <1> QED BY <1>1, <1>3, <1>7, <1>8, <1>9 DEF Complete

\* Listing the source.
LEMMA InventoryPreserves ==
    ASSUME Suitable, CutoverInv, NEW r \in CutoverRuns, take_inventory(r)
    PROVE  CutoverInv'
  <1> DEFINE o == SourceObjects(corpus, bucket)
             blockers == reference_blockers(list_keys(o, "legacy_source"))
  <1>1. /\ corpus' = corpus /\ refs' = refs /\ bucket' = bucket
        /\ manifests' = manifests /\ place[r] = "list"
        /\ DOMAIN place = CutoverRuns /\ DOMAIN todo = CutoverRuns /\ DOMAIN found = CutoverRuns
    BY DEF take_inventory, CutoverInv
  <1>2. Grown(corpus, bucket, bucket') /\ Honest(corpus, bucket', manifests')
    BY <1>1, BucketStays DEF CutoverInv
  <1>3. \/ place' = [place EXCEPT ![r] = "done"] /\ todo' = todo /\ found' = found
        \/ /\ place' = [place EXCEPT ![r] = "publish"] /\ todo' = todo
           /\ found' = [found EXCEPT ![r] = blockers]
           /\ blockers # {} \/ r \in InventoryRuns
        \/ /\ place' = [place EXCEPT ![r] = "put"] /\ todo' = [todo EXCEPT ![r] = Objects]
           /\ found' = [found EXCEPT ![r] = blockers] /\ blockers = {} /\ r \notin InventoryRuns
           /\ \A s \in Objects : Unambiguous(o, s.source_key, "legacy_source")
    BY DEF take_inventory, Enter, Exit
  <1>4. r \in Transfers => ~Refused(corpus) /\ r \notin InventoryRuns
    BY <1>1 DEF CutoverInv, Progress, Suitable
  <1>5. todo[r] \subseteq Referring(corpus) /\ Objects = Referring(corpus)
    BY ObjectsAreReferring DEF CutoverInv
  <1>6. r \in Transfers /\ blockers = {}
           /\ (\A s \in Objects : Unambiguous(o, s.source_key, "legacy_source"))
           => Complete(corpus)
    BY <1>4, InventoryIsComplete
  <1> HIDE DEF o, blockers
  <1>7. CASE place' = [place EXCEPT ![r] = "done"] /\ todo' = todo /\ found' = found
    <2>1. place'[r] = "done" /\ DOMAIN place' = CutoverRuns /\ \A s \in CutoverRuns \ {r} : place'[s] = place[s]
      BY <1>1, <1>7
    <2>2. Progress(corpus, bucket', place'[r], todo'[r], found'[r])
      BY <2>1 DEF Progress
    <2> QED BY <1>1, <1>2, <1>5, <1>7, <2>1, <2>2, StepOfRun
  <1>8. CASE /\ place' = [place EXCEPT ![r] = "publish"] /\ todo' = todo
             /\ found' = [found EXCEPT ![r] = blockers]
             /\ blockers # {} \/ r \in InventoryRuns
    <2>1. /\ place'[r] = "publish" /\ DOMAIN place' = CutoverRuns /\ found'[r] = blockers
          /\ DOMAIN found' = CutoverRuns
          /\ \A s \in CutoverRuns \ {r} : place'[s] = place[s] /\ found'[s] = found[s]
      BY <1>1, <1>8
    <2>2. r \in Transfers => Progress(corpus, bucket', place'[r], todo'[r], found'[r])
      BY <1>4, <1>8, <2>1 DEF Progress
    <2> QED BY <1>1, <1>2, <1>5, <1>8, <2>1, <2>2, StepOfRun
  <1>9. CASE /\ place' = [place EXCEPT ![r] = "put"] /\ todo' = [todo EXCEPT ![r] = Objects]
             /\ found' = [found EXCEPT ![r] = blockers] /\ blockers = {} /\ r \notin InventoryRuns
             /\ \A s \in Objects : Unambiguous(o, s.source_key, "legacy_source")
    <2>1. /\ place'[r] = "put" /\ found'[r] = blockers /\ todo'[r] = Objects
          /\ DOMAIN found' = CutoverRuns /\ DOMAIN place' = CutoverRuns /\ DOMAIN todo' = CutoverRuns
          /\ \A s \in CutoverRuns \ {r} :
                place'[s] = place[s] /\ found'[s] = found[s] /\ todo'[s] = todo[s]
      BY <1>1, <1>9
    <2>2. r \in Transfers => Progress(corpus, bucket', place'[r], todo'[r], found'[r])
      BY <1>4, <1>5, <1>6, <1>9, <2>1 DEF Progress
    <2>3. r \in Transfers
      BY <1>9 DEF CutoverRuns
    <2> QED BY <1>1, <1>2, <1>5, <2>1, <2>2, <2>3, StepOfRun
  <1> QED BY <1>3, <1>7, <1>8, <1>9


\* The transfer copies a reference of the database.
LEMMA CreateIsGrowth ==
    ASSUME Suitable, CutoverInv, NEW r \in CutoverRuns, place[r] \in {"put", "verify"},
           todo[r] # {}, Create(NextReference(todo[r]))
    PROVE  Grown(corpus, bucket, bucket')
  <1> DEFINE ref == NextReference(todo[r])
  <1>1. WellKept(corpus) /\ todo[r] \subseteq Referring(corpus) /\ r \in Transfers
    BY DEF CutoverInv, Suitable
  <1>2. ~Refused(corpus) /\ Bucket(bucket) /\ SourceKept(corpus, bucket)
    BY <1>1 DEF CutoverInv, Progress
  <1>3. ref \in todo[r]
    BY <1>1, NextReferenceExists
  <1>4. ref \in Referring(corpus)
    BY <1>1, <1>3
  <1> HIDE DEF ref
  <1>5. bucket' = Keeping(bucket, corpus.target \o ref.canonical_key,
                          Copy(SourceObjects(corpus, bucket), SourceStore(corpus), ref))
    BY DEF ref, Create, remote_key, Upload
  <1> QED BY <1>1, <1>2, <1>4, <1>5, CreateGrows

\* Putting an object.
LEMMA PutPreserves ==
    ASSUME Suitable, CutoverInv, NEW r \in CutoverRuns, put_create(r)
    PROVE  CutoverInv'
  <1>1. /\ corpus' = corpus /\ refs' = refs /\ todo' = todo /\ found' = found
        /\ manifests' = manifests /\ place[r] = "put" /\ DOMAIN place = CutoverRuns
        /\ DOMAIN todo = CutoverRuns /\ DOMAIN found = CutoverRuns
    BY DEF put_create, CutoverInv
  <1>2. r \in Transfers /\ Progress(corpus, bucket, "put", todo[r], found[r])
    BY <1>1 DEF CutoverInv
  <1>3. \/ todo[r] = {} /\ place' = [place EXCEPT ![r] = "destination"] /\ bucket' = bucket
        \/ todo[r] # {} /\ place' = [place EXCEPT ![r] = "verify"] /\ Create(NextReference(todo[r]))
    BY DEF put_create, Enter
  <1>4. Grown(corpus, bucket, bucket')
    BY <1>1, <1>3, BucketStays, CreateIsGrowth
  <1>5. Honest(corpus, bucket', manifests')
    BY <1>1, <1>4, HonestGrows DEF CutoverInv
  <1>6. Progress(corpus, bucket', "put", todo[r], found[r])
    BY <1>2, <1>4, ProgressGrows
  <1>7. /\ DOMAIN place' = CutoverRuns /\ (\A s \in CutoverRuns \ {r} : place'[s] = place[s])
        /\ \/ place'[r] = "destination" /\ todo[r] = {}
           \/ place'[r] = "verify"
    BY <1>1, <1>3
  <1>8. Progress(corpus, bucket', place'[r], todo'[r], found'[r])
    BY <1>1, <1>6, <1>7 DEF Progress
  <1>9. todo'[r] \subseteq Referring(corpus)
    BY <1>1 DEF CutoverInv
  <1> QED BY <1>1, <1>2, <1>4, <1>5, <1>7, <1>8, <1>9, StepOfRun

\* A put whose answer is lost.
LEMMA LosePreserves ==
    ASSUME Suitable, CutoverInv, NEW r \in CutoverRuns, lose_put(r)
    PROVE  CutoverInv'
  <1>1. /\ corpus' = corpus /\ refs' = refs /\ todo' = todo /\ found' = found
        /\ manifests' = manifests /\ place[r] = "put" /\ todo[r] # {} /\ DOMAIN place = CutoverRuns
        /\ DOMAIN todo = CutoverRuns /\ DOMAIN found = CutoverRuns
    BY DEF lose_put, CutoverInv
  <1>2. r \in Transfers /\ Progress(corpus, bucket, "put", todo[r], found[r])
    BY <1>1 DEF CutoverInv
  <1>3. place' = place \/ place' = [place EXCEPT ![r] = "done"]
    BY DEF lose_put, Exit, Enter
  <1>4. Create(NextReference(todo[r])) \/ bucket' = bucket
    BY DEF lose_put
  <1>5. Grown(corpus, bucket, bucket')
    BY <1>1, <1>4, BucketStays, CreateIsGrowth
  <1>6. Honest(corpus, bucket', manifests')
    BY <1>1, <1>5, HonestGrows DEF CutoverInv
  <1>7. Progress(corpus, bucket', "put", todo[r], found[r])
    BY <1>2, <1>5, ProgressGrows
  <1>8. /\ DOMAIN place' = CutoverRuns /\ (\A s \in CutoverRuns \ {r} : place'[s] = place[s])
        /\ place'[r] = "put" \/ place'[r] = "done"
    BY <1>1, <1>3
  <1>9. Progress(corpus, bucket', place'[r], todo'[r], found'[r])
    BY <1>1, <1>7, <1>8 DEF Progress
  <1>10. todo'[r] \subseteq Referring(corpus)
    BY <1>1 DEF CutoverInv
  <1> QED BY <1>1, <1>2, <1>5, <1>6, <1>8, <1>9, <1>10, StepOfRun

\* A comparison that finds nothing.
LEMMA VerifiedIsCopied ==
    ASSUME Suitable, CutoverInv, ~Refused(corpus), NEW ref \in Referring(corpus),
           verify_blockers(ref, get(Under(corpus.target, bucket), ref.canonical_key,
                                    "canonical", "s3"), Upload(ref)) = {}
    PROVE  Copied(corpus, bucket, ref)
  <1> DEFINE new == Under(corpus.target, bucket)
             key == ref.canonical_key
             remote == get(new, key, "canonical", "s3")
             sent == Sent(corpus, ref)
  <1>1. /\ WellKept(corpus) /\ Bucket(bucket) /\ SourceKept(corpus, bucket)
        /\ corpus.target \in AnyKey /\ DOMAIN bucket \subseteq AnyKey
    BY DEF CutoverInv, Suitable, WellKept, Bucket
  <1>2. Upload(ref) = sent
    BY <1>1, SourceIsLegacy DEF Upload
  <1>3. remote # None
    BY DEF verify_blockers
  <1>4. key \in DOMAIN new /\ remote = new[key]
    BY <1>3, GetRemote
  <1>5. corpus.target \o key \in DOMAIN bucket /\ remote = bucket[corpus.target \o key]
    BY <1>1, <1>4, UnderPrefix
  <1>6. verify_blockers(ref, remote, sent) = {}
    BY <1>2
  <1> HIDE DEF remote, sent, new
  <1>7. remote.bytes = sent.bytes
    BY <1>3, <1>6 DEF verify_blockers
  <1>8. sent.type # None => remote.type = sent.type
    BY <1>3, <1>6, <1>7 DEF verify_blockers
  <1> QED BY <1>5, <1>7, <1>8 DEF Copied, sent

\* Comparing an object.
LEMMA VerifyPreserves ==
    ASSUME Suitable, CutoverInv, NEW r \in CutoverRuns, verify_object(r)
    PROVE  CutoverInv'
  <1> DEFINE ref == NextReference(todo[r])
             blockers == verify_blockers(ref, get(Under(corpus.target, bucket),
                             ref.canonical_key, "canonical", "s3"), Upload(ref))
  <1>1. /\ corpus' = corpus /\ refs' = refs /\ bucket' = bucket
        /\ manifests' = manifests /\ place[r] = "verify" /\ DOMAIN place = CutoverRuns
        /\ DOMAIN todo = CutoverRuns /\ DOMAIN found = CutoverRuns
        /\ todo[r] \subseteq Referring(corpus)
    BY DEF verify_object, CutoverInv
  <1>2. /\ place' = [place EXCEPT ![r] = "put"]
        /\ todo' = [todo EXCEPT ![r] = todo[r] \ {ref}]
        /\ found' = [found EXCEPT ![r] = found[r] \cup blockers]
    BY DEF verify_object, Enter
  <1>3. r \in Transfers /\ Progress(corpus, bucket, "verify", todo[r], found[r])
    BY <1>1 DEF CutoverInv
  <1>4. ~Refused(corpus)
    BY <1>3 DEF Progress
  <1>5. ref \in Referring(corpus) /\ blockers = {} => Copied(corpus, bucket, ref)
    BY <1>4, VerifiedIsCopied
  <1>6. Grown(corpus, bucket, bucket') /\ Honest(corpus, bucket', manifests')
    BY <1>1, BucketStays DEF CutoverInv
  <1> HIDE DEF ref, blockers
  <1>7. /\ DOMAIN place' = CutoverRuns /\ DOMAIN todo' = CutoverRuns /\ DOMAIN found' = CutoverRuns
        /\ \A s \in CutoverRuns \ {r} : place'[s] = place[s] /\ todo'[s] = todo[s] /\ found'[s] = found[s]
        /\ place'[r] = "put" /\ todo'[r] = todo[r] \ {ref} /\ found'[r] = found[r] \cup blockers
    BY <1>1, <1>2
  <1>8. Progress(corpus, bucket', place'[r], todo'[r], found'[r])
    <2>1. ASSUME found'[r] = {}
          PROVE  /\ Complete(corpus)
                 /\ \A s \in Referring(corpus) \ todo'[r] : Copied(corpus, bucket, s)
      <3>1. found[r] = {} /\ blockers = {}
        BY <1>7, <2>1
      <3>2. Complete(corpus) /\ \A s \in Referring(corpus) \ todo[r] : Copied(corpus, bucket, s)
        BY <1>3, <3>1 DEF Progress
      <3> QED BY <1>5, <1>7, <3>1, <3>2
    <2> QED BY <1>1, <1>4, <1>7, <2>1 DEF Progress
  <1>9. todo'[r] \subseteq Referring(corpus)
    BY <1>1, <1>7
  <1> QED BY <1>1, <1>3, <1>6, <1>7, <1>8, <1>9, StepOfRun

\* Listing the target.
LEMMA DestinationPreserves ==
    ASSUME Suitable, CutoverInv, NEW r \in CutoverRuns, list_destination(r)
    PROVE  CutoverInv'
  <1> DEFINE new == Under(corpus.target, bucket)
             orphans == list_keys(new, "canonical") \ {ref.canonical_key : ref \in Objects}
             blockers == IF orphans = {} THEN {}
                         ELSE {<<"unreferenced_destination_objects", 0>>}
  <1>1. /\ corpus' = corpus /\ refs' = refs /\ bucket' = bucket /\ todo' = todo
        /\ manifests' = manifests /\ place[r] = "destination" /\ DOMAIN place = CutoverRuns
        /\ DOMAIN todo = CutoverRuns /\ DOMAIN found = CutoverRuns
        /\ todo[r] \subseteq Referring(corpus)
    BY DEF list_destination, CutoverInv
  <1>2. \/ place' = [place EXCEPT ![r] = "done"] /\ found' = found
        \/ /\ place' = [place EXCEPT ![r] = "publish"]
           /\ found' = [found EXCEPT ![r] = found[r] \cup blockers]
    BY DEF list_destination, Enter, Exit
  <1>3. ASSUME blockers = {} PROVE NoStrangers(corpus, bucket)
    <2>1. orphans = {}
      BY <1>3
    <2>2. list_keys(new, "canonical") = DOMAIN new
      BY DEF list_keys, canonicalize_physical_key
    <2>3. Objects = Referring(corpus) /\ corpus.target \in AnyKey /\ DOMAIN bucket \subseteq AnyKey
      BY ObjectsAreReferring DEF CutoverInv, Suitable, WellKept, Bucket
    <2>4. \A k \in AnyKey \ {<<>>} : corpus.target \o k \in DOMAIN bucket => k \in DOMAIN new
      BY <2>3, UnderPrefix
    <2> QED BY <2>1, <2>2, <2>3, <2>4 DEF NoStrangers
  <1>4. Grown(corpus, bucket, bucket') /\ Honest(corpus, bucket', manifests')
    BY <1>1, BucketStays DEF CutoverInv
  <1>5. r \in Transfers => Progress(corpus, bucket, "destination", todo[r], found[r])
    BY <1>1 DEF CutoverInv
  <1> HIDE DEF blockers
  <1>6. /\ DOMAIN place' = CutoverRuns /\ DOMAIN found' = CutoverRuns
        /\ \A s \in CutoverRuns \ {r} : place'[s] = place[s] /\ found'[s] = found[s]
        /\ \/ place'[r] = "done"
           \/ place'[r] = "publish" /\ found'[r] = found[r] \cup blockers
    BY <1>1, <1>2
  <1>7. CASE place'[r] = "done"
    <2>1. Progress(corpus, bucket', place'[r], todo'[r], found'[r])
      BY <1>7 DEF Progress
    <2> QED BY <1>1, <1>4, <1>6, <1>7, <2>1, StepOfRun
  <1>8. CASE place'[r] = "publish" /\ found'[r] = found[r] \cup blockers
    <2>1. found'[r] = {} => found[r] = {} /\ NoStrangers(corpus, bucket)
      BY <1>3, <1>8
    <2>2. r \in Transfers => Progress(corpus, bucket', place'[r], todo'[r], found'[r])
      BY <1>1, <1>5, <1>8, <2>1 DEF Progress
    <2> QED BY <1>1, <1>4, <1>6, <1>8, <2>2, StepOfRun
  <1> QED BY <1>6, <1>7, <1>8

\* The manifest of a run that has come to its end is right.
LEMMA PublishedIsHonest ==
    ASSUME CutoverInv, NEW r \in CutoverRuns, place[r] = "publish", Publish(r)
    PROVE  Honest(corpus, bucket, manifests')
  <1> SUFFICES ASSUME NEW p \in DOMAIN manifests',
                      manifests'[p].valid, manifests'[p].by \in Transfers
               PROVE  Finished(corpus, bucket)
    BY DEF Honest
  <1>1. CASE p \in DOMAIN manifests
    <2>1. manifests'[p] = manifests[p]
      BY <1>1 DEF Publish, Keeping
    <2> QED BY <1>1, <2>1 DEF CutoverInv, Honest
  <1>2. CASE p \notin DOMAIN manifests
    <2>1. manifests'[p] = [by |-> r, valid |-> found[r] = {}]
      BY <1>2 DEF Publish, Keeping
    <2>2. r \in Transfers
      BY <2>1
    <2>3. found[r] = {}
      <3> DEFINE v == found[r] = {}
      <3>1. manifests'[p] = [by |-> r, valid |-> v]
        BY <2>1
      <3> HIDE DEF v
      <3>2. manifests'[p].valid = v
        BY <3>1
      <3>3. v
        BY <3>2
      <3> QED BY <3>3 DEF v
    <2>4. Progress(corpus, bucket, "publish", todo[r], {})
      BY <2>2, <2>3 DEF CutoverInv
    <2> QED BY <2>4 DEF Progress, Finished
  <1> QED BY <1>1, <1>2

\* Ending a run, with a manifest or without.
LEMMA EndPreserves ==
    ASSUME Suitable, CutoverInv, NEW r \in CutoverRuns, publish(r) \/ give_up(r)
    PROVE  CutoverInv'
  <1>1. /\ corpus' = corpus /\ refs' = refs /\ bucket' = bucket /\ todo' = todo
        /\ found' = found /\ place' = [place EXCEPT ![r] = "done"]
        /\ DOMAIN place = CutoverRuns /\ DOMAIN todo = CutoverRuns /\ DOMAIN found = CutoverRuns
        /\ todo[r] \subseteq Referring(corpus)
    BY DEF publish, give_up, Exit, Enter, CutoverInv
  <1>2. manifests' = manifests \/ (place[r] = "publish" /\ Publish(r))
    <2>1. CASE publish(r)
      BY <2>1, Zenon DEF publish
    <2>2. CASE give_up(r)
      BY <2>2, Zenon DEF give_up
    <2> QED BY <2>1, <2>2
  <1>3. Honest(corpus, bucket, manifests')
    BY <1>2, PublishedIsHonest DEF CutoverInv
  <1>4. place'[r] = "done" /\ DOMAIN place' = CutoverRuns /\ \A s \in CutoverRuns \ {r} : place'[s] = place[s]
    BY <1>1
  <1>5. Progress(corpus, bucket', place'[r], todo'[r], found'[r])
    BY <1>4 DEF Progress
  <1> QED BY <1>1, <1>3, <1>4, <1>5, BucketStays, StepOfRun

\* Every step preserves the invariant.
LEMMA CutoverInvStep ==
    ASSUME Suitable, CutoverInv, [CutoverNext]_cutoverVars
    PROVE  CutoverInv'
  <1>1. ASSUME NEW r \in CutoverRuns, step(r) \/ lose_put(r) \/ give_up(r)
        PROVE  CutoverInv'
    BY <1>1, ReservePreserves, InventoryPreserves, PutPreserves, VerifyPreserves,
       DestinationPreserves, EndPreserves, LosePreserves DEF step
  <1>2. CASE UNCHANGED cutoverVars
    BY <1>2 DEF cutoverVars, CutoverInv, Honest
  <1> QED BY <1>1, <1>2 DEF CutoverNext

\* A bucket that stands up to the invariant serves whatever a valid manifest
\* promises.
LEMMA ManifestsAreRight ==
    ASSUME Suitable, CutoverInv
    PROVE  ValidIsTransferred
  <1> DEFINE new == Under(corpus.target, bucket)
  <1> SUFFICES ASSUME NEW p \in Paths, Ends(p)
               PROVE  /\ AttachmentsArrived(corpus, new) /\ BodiesArrived(corpus, new)
                      /\ PhotosArrived(corpus, new)
                      /\ Cardinality(DOMAIN new) <= Cardinality(Objects)
    BY DEF ValidIsTransferred
  <1>1. Finished(corpus, bucket)
    BY DEF CutoverInv, Honest, Ends
  <1>2. WellKept(corpus) /\ Bucket(bucket) /\ Objects = Referring(corpus)
    BY ObjectsAreReferring DEF CutoverInv, Suitable
  <1> QED BY <1>1, <1>2, AttachmentsHaveArrived, BodiesHaveArrived, PhotosHaveArrived,
             NothingElse

\* Whatever the corpora, the runs and their failures, a valid manifest of a
\* transfer lets the program take over (cutover.rs:213-225).
THEOREM ValidManifestsAreRight ==
    ASSUME \A c \in Corpora : WellKept(c), Transfers \cap InventoryRuns = {}
    PROVE  CutoverSpec => []ValidIsTransferred
  <1>1. Suitable
    BY DEF Suitable
  <1>2. CutoverInit => CutoverInv
    BY <1>1, CutoverInvInit
  <1>3. CutoverInv /\ [CutoverNext]_cutoverVars => CutoverInv'
    BY <1>1, CutoverInvStep
  <1>4. CutoverInv => ValidIsTransferred
    BY <1>1, ManifestsAreRight
  <1> QED BY <1>2, <1>3, <1>4, PTL DEF CutoverSpec
=============================================================================
