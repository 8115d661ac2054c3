---------------------------- MODULE SessionStore ----------------------------
(***************************************************************************)
(* Sessions (session_store.rs), the check of every request                 *)
(* (middleware.rs, db.rs), login and logout.                               *)
(*                                                                         *)
(* Rows are shared; every running instance of the program caches the       *)
(* records that it has seen, and which users are active, for CACHE_TTL.    *)
(* A cached record is returned without a look at the row, and what a       *)
(* request has read it caches in a later step.  One user is modelled.      *)
(***************************************************************************)
EXTENDS Platform

CONSTANTS
    Instances,      \* processes of the program
    Sessions,       \* session ids, each created at most once
    CACHE_TTL,      \* SESSION_CACHE_TTL and ACTIVE_USER_CACHE_TTL (30 s)
    SESSION_LIFE    \* Expiry::OnInactivity (7 days); only login writes a session

VARIABLES
    active,         \* app_user.is_active
    deactivated,    \* when it was last cleared (history)
    expires,        \* app_session: expires_at_unix_s by id, None without a row
    revoked,        \* when a row was deleted (history)
    cache,          \* cached_at of a record in an instance
    cached_expiry,  \* expiry_date of a created session's record
    active_user_cache   \* cached_at of the user in an instance

sessionVars == <<now, active, deactivated, expires, revoked, cache, cached_expiry,
                 active_user_cache, request>>
tables == <<active, deactivated, expires, revoked, cached_expiry>>

ASSUME LifeAssumption == {CACHE_TTL, SESSION_LIFE, RequestLife} \subseteq Nat

-----------------------------------------------------------------------------
SessionInit ==
    /\ now = 0
    /\ active = TRUE
    /\ deactivated = None
    /\ expires = [s \in Sessions |-> None]
    /\ revoked = [s \in Sessions |-> None]
    /\ cached_expiry = [s \in Sessions |-> None]
    /\ cache = [i \in Instances |-> [s \in Sessions |-> None]]
    /\ active_user_cache = [i \in Instances |-> None]
    /\ request = [q \in Requests |-> None]

FreshAt(cached_at, t) == cached_at # None /\ t - cached_at <= CACHE_TTL
Fresh(cached_at) == FreshAt(cached_at, now)

cached(i, s) == Fresh(cache[i][s]) /\ cached_expiry[s] > now

\* Each use of a record would prolong its life in the cache.
CachedAfterRead_mutant(i, s) ==
    [cache EXCEPT ![i][s] = IF cached(i, s) THEN now ELSE None]

\* What cached() leaves: a record that is too old is dropped, a good one is
\* returned and keeps its age.
CachedAfterRead(i, s) == [cache EXCEPT ![i][s] = IF cached(i, s) THEN @ ELSE None]

\* DELETE and the bookkeeping of when.
DeleteRow(s) ==
    /\ expires' = [expires EXCEPT ![s] = None]
    /\ revoked' = [revoked EXCEPT ![s] = IF expires[s] # None THEN now ELSE @]

-----------------------------------------------------------------------------
(* require_auth.                                                           *)

\* A request with a session cookie arrives at an instance and looks into its
\* cache.
require_auth(q, i, s) ==
    /\ request[q] = None
    /\ request' = [request EXCEPT ![q] =
           [pc |-> IF cached(i, s) THEN "auth" ELSE "load",
            at |-> i, sid |-> s, since |-> now]]
    /\ cache' = CachedAfterRead(i, s)
    /\ UNCHANGED <<now, tables, active_user_cache>>

\* The rest of load(): the row ...
load(q) ==
    /\ At(q, "load")
    /\ LET s == request[q].sid
       IN  IF expires[s] # None /\ expires[s] > now THEN Goto(q, "cache") ELSE Answer(q)
    /\ UNCHANGED <<now, tables, cache, active_user_cache>>

\* ... and the cache.
cache_record(q) ==
    /\ At(q, "cache")
    /\ cache' = [cache EXCEPT ![request[q].at][request[q].sid] = now]
    /\ Goto(q, "auth")
    /\ UNCHANGED <<now, tables, active_user_cache>>

\* user_is_active: the cache, or the row, which is cached in a later step.
user_is_active(q) ==
    /\ At(q, "auth")
    /\ LET i == request[q].at
       IN  \/ /\ Fresh(active_user_cache[i])
              /\ Goto(q, "run")
              /\ UNCHANGED active_user_cache
           \/ /\ ~Fresh(active_user_cache[i])
              /\ active
              /\ Goto(q, "note")
              /\ UNCHANGED active_user_cache
           \/ /\ ~Fresh(active_user_cache[i])
              /\ ~active
              /\ Goto(q, "revoke")
              /\ active_user_cache' = [active_user_cache EXCEPT ![i] = None]
    /\ UNCHANGED <<now, tables, cache>>

note_active(q) ==
    /\ At(q, "note")
    /\ active_user_cache' = [active_user_cache EXCEPT ![request[q].at] = now]
    /\ Goto(q, "run")
    /\ UNCHANGED <<now, tables, cache>>

\* The handler of a page, or that of logout, which flushes the session.
handle(q) ==
    /\ At(q, "run")
    /\ Answer(q) \/ Goto(q, "revoke")
    /\ UNCHANGED <<now, tables, cache, active_user_cache>>

\* session.flush(): delete the row ...
delete(q) ==
    /\ At(q, "revoke")
    /\ DeleteRow(request[q].sid)
    /\ Goto(q, "evict")
    /\ UNCHANGED <<now, active, deactivated, cached_expiry, cache, active_user_cache>>

\* ... and evict it here; the other instances keep what they have.
evict(q) ==
    /\ At(q, "evict")
    /\ cache' = [cache EXCEPT ![request[q].at][request[q].sid] = None]
    /\ Answer(q)
    /\ UNCHANGED <<now, tables, active_user_cache>>

-----------------------------------------------------------------------------
(* Login, which needs no session; old is that of the browser's cookie.     *)

\* active_user_for_login; the password is verified outside any transaction.
login(q, i, old) ==
    /\ request[q] = None
    /\ active
    /\ request' = [request EXCEPT ![q] =
           [pc |-> "cycle", at |-> i, sid |-> old, since |-> now]]
    /\ UNCHANGED <<now, tables, cache, active_user_cache>>

\* session.cycle_id() deletes the old session, a cookie's or a fresh random one.
cycle_id(q) ==
    /\ At(q, "cycle")
    /\ IF request[q].sid = None
       THEN UNCHANGED <<expires, revoked, cache>>
       ELSE /\ DeleteRow(request[q].sid)
            /\ cache' = [cache EXCEPT ![request[q].at][request[q].sid] = None]
    /\ Goto(q, "create")
    /\ UNCHANGED <<now, active, deactivated, cached_expiry, active_user_cache>>

\* session.save() of a session without an id is create().
create(q, s) ==
    /\ At(q, "create")
    /\ cached_expiry[s] = None
    /\ expires' = [expires EXCEPT ![s] = now + SESSION_LIFE]
    /\ cached_expiry' = [cached_expiry EXCEPT ![s] = now + SESSION_LIFE]
    /\ request' = [request EXCEPT ![q].pc = "keep", ![q].sid = s]
    /\ UNCHANGED <<now, active, deactivated, revoked, cache, active_user_cache>>

\* The session layer saves a modified session once more before it answers: the
\* record is cached by create() and then by save(), or evicted if the row is gone.
save(q) ==
    /\ At(q, "keep")
    /\ LET s == request[q].sid
       IN  cache' = [cache EXCEPT ![request[q].at][s] =
                        IF expires[s] = None THEN None ELSE now]
    /\ Answer(q)
    /\ UNCHANGED <<now, tables, active_user_cache>>

-----------------------------------------------------------------------------
\* Somebody clears app_user.is_active in the database.
deactivate ==
    /\ active
    /\ active' = FALSE
    /\ deactivated' = now
    /\ UNCHANGED <<now, expires, revoked, cached_expiry, cache, active_user_cache,
                   request>>

\* Also what a failing database (503) amounts to.
session_request_lost(q) ==
    /\ Lost(q)
    /\ UNCHANGED <<now, tables, cache, active_user_cache>>

\* The platform replaces an instance.
restart(i) ==
    /\ cache' = [cache EXCEPT ![i] = [s \in Sessions |-> None]]
    /\ active_user_cache' = [active_user_cache EXCEPT ![i] = None]
    /\ request' = [q \in Requests |->
                      IF request[q] # None /\ request[q].at = i THEN None
                      ELSE request[q]]
    /\ UNCHANGED <<now, tables>>

\* An entry that is too old is never used again, whether it is dropped or not.
Kept(cached_at) == IF FreshAt(cached_at, now + 1) THEN cached_at ELSE None

session_tick ==
    /\ Tick
    /\ cache' = [i \in Instances |-> [s \in Sessions |-> Kept(cache[i][s])]]
    /\ active_user_cache' = [i \in Instances |-> Kept(active_user_cache[i])]
    /\ UNCHANGED tables

SessionNext ==
    \/ \E q \in Requests, i \in Instances, s \in Sessions : require_auth(q, i, s)
    \/ \E q \in Requests : load(q)
    \/ \E q \in Requests : cache_record(q)
    \/ \E q \in Requests : user_is_active(q)
    \/ \E q \in Requests : note_active(q)
    \/ \E q \in Requests : handle(q)
    \/ \E q \in Requests : delete(q)
    \/ \E q \in Requests : evict(q)
    \/ \E q \in Requests, i \in Instances, s \in Sessions \cup {None} : login(q, i, s)
    \/ \E q \in Requests : cycle_id(q)
    \/ \E q \in Requests, s \in Sessions : create(q, s)
    \/ \E q \in Requests : save(q)
    \/ \E q \in Requests : session_request_lost(q)
    \/ \E i \in Instances : restart(i)
    \/ deactivate
    \/ session_tick

SessionSpec == SessionInit /\ [][SessionNext]_sessionVars

-----------------------------------------------------------------------------
(* Properties.                                                             *)

\* What a request may still meet after a row has changed at t: another request
\* that read the old row may live on and cache it, and that copy has its own life.
Grace(t) == t + RequestLife + CACHE_TTL

\* require_auth lets a request through only if its session was not deleted and
\* its user not deactivated more than Grace before it arrived, on whatever
\* instance, although load() and user_is_active cache what they read in a later
\* step and a logout evicts only its own instance's copy; and never after the
\* session has expired.
RevocationTakesEffect ==
    \A q \in Requests : At(q, "run") =>
        LET s == request[q].sid
            since == request[q].since
        IN  /\ since < cached_expiry[s]
            /\ expires[s] # None \/ since <= Grace(revoked[s])
            /\ active \/ since <= Grace(deactivated)
=============================================================================
