------------------------------ MODULE SyncRuns ------------------------------
(***************************************************************************)
(* The synchronisation of the TMO and Monarch integrations by serverless   *)
(* invocations that share one database and nothing else.                   *)
(*                                                                         *)
(* A run is claimed by inserting a 'running' row in sync_log, works on the *)
(* provider outside the database and ends in one conditional transaction.  *)
(* The platform may kill an invocation between any two steps; a commit may *)
(* take effect although its answer is lost.  A row whose owner is gone is  *)
(* interrupted by a later trigger once it is older than StaleAfter.        *)
(*                                                                         *)
(* Sources: src/operations/repository.rs, src/sync_runtime/mod.rs,         *)
(* src/sync_runtime/http.rs, src/integrations/actions.rs,                  *)
(* src/integrations/tmo_write.rs, src/scheduler.rs, src/write_gate.rs,     *)
(* src/operator.rs and the migrations that declare sync_log.               *)
(***************************************************************************)
EXTENDS Cadence, FiniteSets

CONSTANTS
    Workers,      \* concurrent serverless invocations
    Connected,    \* slugs that have a row in intg_integration_connection
    Requests,     \* bound: the requests this instance receives, manual ones
                  \* by the slug they synchronise
    Cadences,     \* the cadences the settings form posts
    Imported,     \* the cadences an imported database may start with
    StaleAfter,   \* [Slugs -> Nat]: age at which a running row is interrupted
    MaxAttempts,  \* MAX_SCHEDULED_ATTEMPTS
    MaxDuration,  \* the platform's maxDuration: no invocation outlives it
    MaxRuns,      \* bound: rows of sync_log
    MaxClock      \* bound: last instant

Slugs == {"tmo", "monarch"}
RunIds == 1..MaxRuns

ASSUME BoundsAssumption ==
    /\ MaxRuns \in Nat /\ MaxClock \in Nat
    /\ MaxDuration \in Nat /\ MaxAttempts \in Nat
ASSUME SlugsAssumption ==
    /\ Connected \subseteq Slugs
    /\ Requests \subseteq Slugs \cup {"cron", "cadence"}
    /\ Cadences \cup Imported \subseteq CadenceValues
    /\ StaleAfter \in [Slugs -> Nat]

VARIABLES
    control,  \* the operation_control row
    conn,     \* intg_integration_connection: cadence, next_scheduled_at, status
    log,      \* sync_log; status "none" marks an id that is not used yet
    nextRun,  \* the next id of sync_log
    ledger,   \* the imported tables, per slug: the id of the run that wrote them
    clock,    \* UTC now, the same for every invocation
    pc,       \* where each invocation is
    job       \* the local variables of each invocation

vars == <<control, conn, log, nextRun, ledger, clock, pc, job>>

NoRun == [slug |-> "tmo", slot |-> NoSlot, started |-> 0, status |-> "none"]
NoJob == [cron |-> FALSE, slug |-> "tmo", slot |-> NoSlot, born |-> 0,
          started |-> 0, run |-> 0, base |-> 0]

\* A fresh database is read-only with the scheduler off (migration 0003).
Init ==
    /\ control = [mode |-> "read_only", scheduler |-> FALSE]
    /\ conn \in [Slugs -> [cadence : Imported, next : {NoSlot},
                           status : {"ok"}]]
    /\ log = [r \in RunIds |-> NoRun]
    /\ nextRun = 1
    /\ ledger = [s \in Slugs |-> 0]
    /\ clock = 0
    /\ pc = [w \in Workers |-> "idle"]
    /\ job = [w \in Workers |-> NoJob]

-----------------------------------------------------------------------------
(* The operator's command line: each command is one UPDATE.                *)

dbUnchanged == UNCHANGED <<conn, log, nextRun, ledger>>
workersUnchanged == UNCHANGED <<pc, job>>

set_control(mode, scheduler) ==
    /\ control' = [mode |-> mode, scheduler |-> scheduler]
    /\ dbUnchanged /\ workersUnchanged /\ UNCHANGED clock

enter_read_only == set_control("read_only", FALSE)
enable_writes == set_control("enabled", FALSE)

set_scheduler_enabled(on) ==
    /\ on => control.mode = "enabled"
    /\ set_control(control.mode, on)

WritesEnabled == control.mode = "enabled"
SchedulerEnabled == WritesEnabled /\ control.scheduler

-----------------------------------------------------------------------------
(* Steps of an invocation.                                                 *)

\* The invocation goes on at label with the local variables j.
Goto(w, label, j) ==
    /\ pc' = [pc EXCEPT ![w] = label]
    /\ job' = [job EXCEPT ![w] = j]

\* The invocation answers its caller, or is killed.
Leave(w) == Goto(w, "idle", NoJob)

\* The run of one integration is over, however it ended: the cron loop goes
\* on with the next slug, every other request answers.
Return(w) ==
    IF job[w].cron /\ job[w].slug = "tmo"
    THEN Goto(w, "prepare", [NoJob EXCEPT !.cron = TRUE, !.slug = "monarch",
                                          !.born = job[w].born])
    ELSE Leave(w)

\* The write gate is checked once, before the handler of a request runs.  Cron
\* and the settings form read the time there and use it throughout.
ManualRequest(w, s) ==
    /\ pc[w] = "idle" /\ WritesEnabled
    /\ Goto(w, "begin", [NoJob EXCEPT !.slug = s, !.born = clock])
    /\ dbUnchanged /\ UNCHANGED <<control, clock>>

CronRequest(w) ==
    /\ pc[w] = "idle" /\ SchedulerEnabled
    /\ Goto(w, "prepare", [NoJob EXCEPT !.cron = TRUE, !.born = clock])
    /\ dbUnchanged /\ UNCHANGED <<control, clock>>

CadenceRequest(w) ==
    /\ pc[w] = "idle" /\ WritesEnabled
    /\ Goto(w, "cadence", [NoJob EXCEPT !.born = clock])
    /\ dbUnchanged /\ UNCHANGED <<control, clock>>

\* Mutant: the next slot is not computed again for the new cadence.
persist_cadence_mutant(w) ==
    /\ pc[w] = "cadence"
    /\ \/ /\ "tmo" \in Connected
          /\ \E c \in Cadences : conn' = [conn EXCEPT !["tmo"].cadence = c]
       \/ UNCHANGED conn
    /\ Leave(w)
    /\ UNCHANGED <<control, log, nextRun, ledger, clock>>

\* One transaction; it does not look at operation_control again.
persist_cadence(w) ==
    /\ pc[w] = "cadence"
    /\ \/ /\ "tmo" \in Connected
          /\ \E c \in Cadences :
                conn' = [conn EXCEPT !["tmo"].cadence = c,
                                     !["tmo"].next = next_slot(c, job[w].born)]
       \/ UNCHANGED conn            \* no such connection, or a storage error
    /\ Leave(w)
    /\ UNCHANGED <<control, log, nextRun, ledger, clock>>

\* One transaction: the scheduler flag is read again, the cadence is read and
\* the slot that follows the instant the invocation began is recorded for display.
prepare_schedule(w) ==
    LET s == job[w].slug
        slot == most_recent_slot(conn[s].cadence, job[w].born)
    IN  /\ pc[w] = "prepare"
        /\ \/ /\ SchedulerEnabled /\ s \in Connected
              /\ conn' = [conn EXCEPT
                            ![s].next = next_slot(conn[s].cadence, job[w].born)]
              /\ IF slot = NoSlot
                 THEN Return(w)     \* manual or invalid cadence
                 ELSE Goto(w, "begin", [job[w] EXCEPT !.slot = slot])
           \/ /\ SchedulerEnabled /\ s \notin Connected
              /\ UNCHANGED conn
              /\ Return(w)
           \/ /\ UNCHANGED conn     \* disabled meanwhile, or a storage error
              /\ Leave(w)
        /\ UNCHANGED <<control, log, nextRun, ledger, clock>>

\* started is read before the sweep and the claim.  Monarch looks its
\* connection up first.
Begin(w) ==
    /\ pc[w] = "begin"
    /\ job[w].slug = "monarch" => "monarch" \in Connected
    /\ Goto(w, "sweep", [job[w] EXCEPT !.started = clock])
    /\ dbUnchanged /\ UNCHANGED <<control, clock>>

Running(s) == {r \in RunIds : log[r].status = "running" /\ log[r].slug = s}

\* Mutant: <= for <.
StaleAt_mutant(s, t) ==
    {r \in Running(s) : log[r].started <= t - StaleAfter[s]}
StaleAt(s, t) == {r \in Running(s) : log[r].started < t - StaleAfter[s]}
Interrupted(rs) ==
    [r \in RunIds |-> IF r \in rs THEN [log[r] EXCEPT !.status = "error"]
                                  ELSE log[r]]

\* Mutant: the age of the row is not tested.
interrupt_stale_mutant(w) ==
    /\ pc[w] = "sweep" /\ WritesEnabled
    /\ log' = Interrupted(Running(job[w].slug))
    /\ Goto(w, "claim", job[w])
    /\ UNCHANGED <<control, conn, nextRun, ledger, clock>>

\* interrupt_stale: the mode is read, the UPDATE tests it again and, when it
\* changed nothing, the mode is read a third time.  The second disjunct is a
\* mode that was read-only just for the UPDATE.
interrupt_stale(w) ==
    /\ pc[w] = "sweep" /\ WritesEnabled
    /\ \/ log' = Interrupted(StaleAt(job[w].slug, job[w].started))
       \/ UNCHANGED log
    /\ Goto(w, "claim", job[w])
    /\ UNCHANGED <<control, conn, nextRun, ledger, clock>>

-----------------------------------------------------------------------------
(* The claim: INSERT ... SELECT ... ON CONFLICT DO NOTHING.                *)

\* Mutant: only a success of the very slot counts.
Covering_mutant(s, slot) ==
    {r \in RunIds : /\ log[r].slug = s /\ log[r].status = "success"
                    /\ log[r].slot = slot}
Covering(s, slot) ==
    {r \in RunIds : /\ log[r].slug = s /\ log[r].status = "success"
                    /\ log[r].started >= slot}
ForSlot(s, slot) ==
    {r \in RunIds : log[r].slug = s /\ log[r].slot = slot
                    /\ log[r].status # "none"}

\* Mutant: the failures are counted over all slots.
FailedAttempts_mutant(s, slot) ==
    {r \in RunIds : log[r].slug = s /\ log[r].status = "error"}
FailedAttempts(s, slot) == {r \in ForSlot(s, slot) : log[r].status = "error"}

\* sync_log_one_running_per_connection_idx
RunningConflict(s) == Running(s) # {}
\* sync_log_one_scheduled_slot_idx, as migration 0006 declares it
SlotConflict(s, slot) ==
    \E r \in ForSlot(s, slot) : log[r].status \in {"running", "success"}

\* Mutant: the INSERT does not read operation_control.
claim_manual_mutant(s) == s \in Connected /\ ~RunningConflict(s)
claim_manual(s) == WritesEnabled /\ s \in Connected /\ ~RunningConflict(s)

\* Mutant: one attempt too many.
claim_scheduled_mutant(s, slot) ==
    /\ SchedulerEnabled /\ s \in Connected
    /\ Covering(s, slot) = {}
    /\ Cardinality(FailedAttempts(s, slot)) <= MaxAttempts
    /\ ~RunningConflict(s) /\ ~SlotConflict(s, slot)

claim_scheduled(s, slot) ==
    /\ SchedulerEnabled /\ s \in Connected
    /\ Covering(s, slot) = {}
    /\ Cardinality(FailedAttempts(s, slot)) < MaxAttempts
    /\ ~RunningConflict(s) /\ ~SlotConflict(s, slot)

Inserts(w) == IF job[w].slot = NoSlot
              THEN claim_manual(job[w].slug)
              ELSE claim_scheduled(job[w].slug, job[w].slot)

\* How a claim that inserted nothing is explained to the caller.
Refusal(w) ==
    LET s == job[w].slug
        slot == job[w].slot
    IN  CASE ~WritesEnabled -> "ReadOnly"
          [] WritesEnabled /\ slot # NoSlot /\ ~control.scheduler
                -> "SchedulerDisabled"
          [] OTHER ->
               IF s \notin Connected THEN "NotFound"
               ELSE IF RunningConflict(s)
               THEN IF slot # NoSlot /\ \E r \in Running(s) : log[r].slot = slot
                    THEN "AlreadyScheduled" ELSE "AlreadyRunning"
               ELSE IF slot = NoSlot THEN "Coordination"
               ELSE IF Covering(s, slot) # {} THEN "CoveredBySuccess"
               ELSE IF ForSlot(s, slot) # {} THEN "AlreadyScheduled"
               ELSE "Coordination"

\* The transaction of a claim.  When the answer to its commit is lost the
\* invocation reports an error and leaves the running row behind.  The slot
\* and the start are not needed after the claim.
Claim(w) ==
    /\ pc[w] = "claim" /\ Inserts(w) /\ nextRun <= MaxRuns
    /\ log' = [log EXCEPT ![nextRun] =
                 [slug |-> job[w].slug, slot |-> job[w].slot,
                  started |-> job[w].started, status |-> "running"]]
    /\ nextRun' = nextRun + 1
    /\ \/ Goto(w, "capture", [job[w] EXCEPT !.run = nextRun, !.slot = NoSlot,
                                            !.started = 0])
       \/ Return(w)
    /\ UNCHANGED <<control, conn, ledger, clock>>

ClaimRefused(w) ==
    /\ pc[w] = "claim" /\ ~Inserts(w)
    /\ Return(w)
    /\ dbUnchanged /\ UNCHANGED <<control, clock>>

\* A storage error, a missing connection or a closed gate before the claim.
BeforeClaim == {"begin", "sweep", "claim"}
GiveUp(w) ==
    /\ pc[w] \in BeforeClaim
    /\ Return(w)
    /\ dbUnchanged /\ UNCHANGED <<control, clock>>

-----------------------------------------------------------------------------
(* The claimed run: execute_claimed, capture, finish_success,              *)
(* finish_failure, recover_claim.                                          *)

\* base is a history variable: the import the fetched data is newer than.
capture(w) ==
    /\ pc[w] = "capture"
    /\ \/ Goto(w, "finish", [job[w] EXCEPT !.base = ledger[job[w].slug]])
       \/ Goto(w, "fail", job[w])
       \* load_tmo_connection failed: the connection id is not known
       \/ job[w].slug = "tmo" /\ Goto(w, "failnone", job[w])
    /\ dbUnchanged /\ UNCHANGED <<control, clock>>

SetStatus(r, status) == log' = [log EXCEPT ![r] = [@ EXCEPT !.status = status]]
Owned(w) == log[job[w].run].status = "running"

\* Mutant: the UPDATE does not require a running row.
complete_success_mutant(w) ==
    LET s == job[w].slug
    IN  /\ SetStatus(job[w].run, "success")
        /\ ledger' = [ledger EXCEPT ![s] = job[w].run]
        /\ conn' = [conn EXCEPT ![s].status = "ok"]

\* apply_tmo_sync or apply_monarch_balance, then complete_success, in one
\* transaction.  The connection's statuses active and degraded are both "ok".
complete_success(w) ==
    LET s == job[w].slug
    IN  /\ Owned(w)
        /\ SetStatus(job[w].run, "success")
        /\ ledger' = [ledger EXCEPT ![s] = job[w].run]
        /\ conn' = [conn EXCEPT ![s].status = "ok"]

\* The capture is dropped.
GotoFail(w) == Goto(w, "fail", [job[w] EXCEPT !.base = 0])

finish_success(w) ==
    /\ pc[w] = "finish"
    /\ \/ complete_success(w) /\ Return(w)
       \* committed, but the answer is lost
       \/ complete_success(w) /\ GotoFail(w)
       \* rolled back: storage error, invalid data, or no longer running
       \/ UNCHANGED <<log, ledger, conn>> /\ GotoFail(w)
    /\ UNCHANGED <<control, nextRun, clock>>

\* Mutant: the UPDATE does not require a running row.
complete_error_mutant(w) ==
    /\ SetStatus(job[w].run, "error")
    /\ UNCHANGED <<nextRun, ledger>>

complete_error(w) ==
    /\ Owned(w)
    /\ SetStatus(job[w].run, "error")
    /\ UNCHANGED <<nextRun, ledger>>

\* Only TMO has a second attempt at the terminal transition.
FailureUnrecorded(w) ==
    IF job[w].slug = "tmo" THEN Goto(w, "recover", job[w]) ELSE Return(w)

mark_error(w) ==
    IF pc[w] = "fail"
    THEN conn' = [conn EXCEPT ![job[w].slug].status = "error"]
    ELSE UNCHANGED conn

\* Mutant: the connection is marked outside the transaction that ends the
\* run.
finish_failure_mutant(w) ==
    /\ pc[w] \in {"fail", "failnone"}
    /\ mark_error(w)
    /\ \/ complete_error(w) /\ Return(w)
       \/ UNCHANGED <<log, nextRun, ledger>> /\ FailureUnrecorded(w)
    /\ UNCHANGED <<control, clock>>

finish_failure(w) ==
    /\ pc[w] \in {"fail", "failnone"}
    /\ \/ complete_error(w) /\ mark_error(w) /\ Return(w)
       \/ complete_error(w) /\ mark_error(w) /\ FailureUnrecorded(w)
       \/ dbUnchanged /\ FailureUnrecorded(w)
    /\ UNCHANGED <<control, clock>>

\* The execution deadline passed or the capture panicked.
Abort(w) ==
    /\ pc[w] \in {"capture", "finish", "fail", "failnone"}
    /\ job[w].slug = "tmo"
    /\ Goto(w, "recover", [job[w] EXCEPT !.base = 0])
    /\ dbUnchanged /\ UNCHANGED <<control, clock>>

recover_claim(w) ==
    /\ pc[w] = "recover"
    /\ \/ complete_error(w) /\ UNCHANGED conn
       \/ dbUnchanged
    /\ Return(w)
    /\ UNCHANGED <<control, clock>>

-----------------------------------------------------------------------------
(* The environment.                                                        *)

\* Mutant: the sweep requires the scheduler, not just writes.
recent_runs_mutant ==
    /\ SchedulerEnabled
    /\ StaleAt("tmo", clock) # {}
    /\ log' = Interrupted(StaleAt("tmo", clock))
    /\ workersUnchanged /\ UNCHANGED <<control, conn, nextRun, ledger, clock>>

\* A page that lists the TMO runs interrupts the stale ones.  It is one step:
\* a reader delayed between its clock and its UPDATE interrupts no more than
\* one that starts later.
recent_runs ==
    /\ WritesEnabled
    /\ StaleAt("tmo", clock) # {}
    /\ log' = Interrupted(StaleAt("tmo", clock))
    /\ workersUnchanged /\ UNCHANGED <<control, conn, nextRun, ledger, clock>>

\* The platform may end an invocation at any time.
Kill(w) ==
    /\ pc[w] # "idle"
    /\ Leave(w)
    /\ dbUnchanged /\ UNCHANGED <<control, clock>>

\* ... and does so when it has lasted MaxDuration.
Tick ==
    /\ clock < MaxClock
    /\ \A w \in Workers : pc[w] # "idle" => clock < job[w].born + MaxDuration
    /\ clock' = clock + 1
    /\ dbUnchanged /\ workersUnchanged /\ UNCHANGED control

Operator ==
    \/ enter_read_only
    \/ enable_writes
    \/ \E on \in BOOLEAN : set_scheduler_enabled(on)

Invocation(w) ==
    \/ \E s \in Slugs \cap Requests : ManualRequest(w, s)
    \/ "cron" \in Requests /\ CronRequest(w)
    \/ "cadence" \in Requests /\ CadenceRequest(w)
    \/ persist_cadence(w)
    \/ prepare_schedule(w)
    \/ Begin(w)
    \/ interrupt_stale(w)
    \/ Claim(w) \/ ClaimRefused(w) \/ GiveUp(w)
    \/ capture(w) \/ finish_success(w) \/ finish_failure(w)
    \/ Abort(w) \/ recover_claim(w)
    \/ Kill(w)

Next == Operator \/ (\E w \in Workers : Invocation(w)) \/ recent_runs \/ Tick

Spec == Init /\ [][Next]_vars

\* Fairness of the environment: time passes, the platform does end an
\* invocation that reaches its limit, and the status page is loaded again and
\* again while writes are enabled.  Nothing is assumed of the invocations.
Expire(w) == clock >= job[w].born + MaxDuration /\ Kill(w)
LiveSpec ==
    /\ Spec
    /\ WF_vars(Tick)
    /\ \A w \in Workers : WF_vars(Expire(w))
    /\ SF_vars(recent_runs)
-----------------------------------------------------------------------------
(* Properties.                                                             *)

Statuses == {"none", "running", "success", "error"}
Labels == {"idle", "cadence", "prepare", "capture", "finish", "fail",
           "failnone", "recover"} \cup BeforeClaim
Slots == Int \cup {NoSlot}

Connections == [cadence : CadenceValues, next : Slots, status : {"ok", "error"}]
Rows == [slug : Slugs, slot : Slots, started : Nat, status : Statuses]
Jobs == [cron : BOOLEAN, slug : Slugs, slot : Slots, born : Nat, started : Nat,
         run : 0..MaxRuns, base : 0..MaxRuns]

\* The type invariant: the columns, the local variables of the handlers and
\* the points where an invocation can be; the scheduler is never on while the
\* database is frozen, which operation_control CHECKs.
TypeOK ==
    /\ control \in [mode : {"read_only", "enabled"}, scheduler : BOOLEAN]
    /\ control.scheduler => control.mode = "enabled"
    /\ conn \in [Slugs -> Connections]
    /\ log \in [RunIds -> Rows]
    /\ nextRun \in 1..(MaxRuns + 1)
    /\ ledger \in [Slugs -> 0..MaxRuns]
    /\ clock \in Nat
    /\ pc \in [Workers -> Labels]
    /\ job \in [Workers -> Jobs]

\* The deployment's obligation, stated by the comments on both STALE_AFTER
\* constants: the stale boundary is not below the platform's limit.
PlatformBound == \A s \in Slugs : MaxDuration <= StaleAfter[s]

\* An invocation that is fetching from the provider or holds a capture that
\* it is going to write.
Executing(w) == pc[w] \in {"capture", "finish"}

\* No two live invocations work on the same integration at the same time,
\* although rows are interrupted while their owner may still be alive and
\* started_at is read well before the claim ("a connection can never overlap
\* itself", claim_manual; "a live owner always gets the first chance",
\* STALE_AFTER of the TMO runtime).
NoOverlap ==
    \A v, w \in Workers :
        /\ v # w /\ Executing(v) /\ Executing(w)
        => job[v].slug # job[w].slug

\* A run is interrupted only when no live invocation is executing it: the
\* row an executing invocation owns is still running.
OwnerKeepsRun == \A w \in Workers : Executing(w) => Owned(w)

\* The imported tables are replaced only by data fetched after the previous
\* import committed: an owner that was interrupted while it slept, woke up
\* and tried to commit its old capture is fenced by complete_success.
NoStaleOverwrite ==
    [][\A s \in Slugs : ledger'[s] # ledger[s] =>
         \E w \in Workers : /\ job[w].run = ledger'[s]
                            /\ job[w].base = ledger[s]]_vars

Successes(s) == {r \in RunIds : log[r].slug = s /\ log[r].status = "success"}

\* The imported tables are those of the last successful run in the log, and
\* the connection shows an error only if a run failed after that import:
\* import, status and log change in one transaction, also when the answer to
\* the commit is lost and the invocation goes on to record a failure.
ImportMatchesLog ==
    \A s \in Slugs :
        /\ ledger[s] \in Successes(s) \cup {0}
        /\ \A r \in Successes(s) : r <= ledger[s]
        /\ conn[s].status = "error" =>
              \E r \in RunIds : /\ r > ledger[s]
                               /\ log[r].slug = s /\ log[r].status = "error"

\* A run that ended keeps its outcome: no late transition of a slow owner, of
\* its recovery or of a sweep rewrites it.
OutcomeIsFinal ==
    [][\A r \in RunIds : log[r].status \in {"success", "error"}
                            => log'[r] = log[r]]_vars

\* A scheduled slot is attempted at most MaxAttempts times, whoever records
\* the failures (the owner, its recovery or a sweep after a kill).
SlotAttemptsBounded ==
    \A r \in RunIds :
        log[r].status # "none" /\ log[r].slot # NoSlot =>
            Cardinality(ForSlot(log[r].slug, log[r].slot)) <= MaxAttempts

\* No slot is run again once a success covers it: no scheduled run follows a
\* successful run that started at or after its slot.
CoveredSlotNotRepeated ==
    \A q, r \in RunIds :
        /\ q < r
        /\ log[r].status # "none" /\ log[r].slot # NoSlot
        /\ log[q].slug = log[r].slug /\ log[q].status = "success"
        => log[q].started < log[r].slot

\* Every refused claim has an explanation: the Coordination errors of
\* claim_manual and claim_scheduled are unreachable.
RefusalIsExplained ==
    \A w \in Workers : pc[w] = "claim" /\ ~Inserts(w)
                            => Refusal(w) # "Coordination"

\* Once the operator has entered read-only mode no run starts and none is
\* interrupted, although requests that passed the gate before are on their
\* way; the runs already claimed may only finish.
FreezeStopsClaims ==
    [][control.mode = "read_only" =>
         \A r \in RunIds : log'[r] # log[r] =>
            /\ log[r].status = "running"
            /\ \E w \in Workers : job[w].run = r /\ pc[w] # "idle"]_vars

\* The next slot shown to the user belongs to the cadence stored beside it,
\* although cron and the settings form both write it.
NextSlotIsTruthful ==
    \A s \in Slugs : conn[s].next # NoSlot =>
        /\ conn[s].cadence \in Scheduled
        /\ IsSlot(conn[s].cadence, conn[s].next)

\* A running row whose owner is gone does not block the integration for ever:
\* if writes are enabled again and again, every TMO run that becomes stale
\* before the last instant of the model stops being 'running'.
StaleRunIsReleased ==
    []<>WritesEnabled =>
      \A r \in RunIds :
        (/\ log[r].status = "running" /\ log[r].slug = "tmo"
         /\ log[r].started + StaleAfter["tmo"] < MaxClock)
        ~> log[r].status # "running"

-----------------------------------------------------------------------------
(* The inductive invariant behind NoStaleOverwrite, OutcomeIsFinal,        *)
(* OwnerKeepsRun and NoOverlap.                                            *)

\* An invocation that has claimed a run and has not yet given it up.
Holding(w) == pc[w] \in {"capture", "finish", "fail", "failnone", "recover"}

RowsInOrder == \A r \in RunIds : log[r].status = "none" <=> r >= nextRun
OneRunning ==
    \A q, r \in RunIds :
        /\ log[q].status = "running" /\ log[r].status = "running"
        /\ log[q].slug = log[r].slug
        => q = r
HoldersKnowRun ==
    \A w \in Workers : Holding(w) =>
        /\ job[w].run \in RunIds /\ job[w].run < nextRun
        /\ log[job[w].run].slug = job[w].slug
        /\ log[job[w].run].started >= job[w].born
OneHolder ==
    \A v, w \in Workers :
        Holding(v) /\ Holding(w) /\ job[v].run = job[w].run => v = w
CaptureIsCurrent ==
    \A w \in Workers :
        pc[w] = "finish" /\ Owned(w) => job[w].base = ledger[job[w].slug]
Lifetimes ==
    \A w \in Workers :
        /\ pc[w] # "idle" => /\ job[w].born <= clock
                             /\ clock <= job[w].born + MaxDuration
        /\ pc[w] \in {"sweep", "claim"} => /\ job[w].born <= job[w].started
                                           /\ job[w].started <= clock

Ownership == /\ RowsInOrder /\ OneRunning /\ HoldersKnowRun /\ OneHolder
             /\ CaptureIsCurrent /\ Lifetimes
=============================================================================
