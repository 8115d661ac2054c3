--------------------------- MODULE SyncRunsProofs ---------------------------
(***************************************************************************)
(* Theorems about SyncRuns, for every set of invocations, every bound and  *)
(* every choice of the time constants.                                     *)
(***************************************************************************)
EXTENDS SyncRuns, CalendarProofs, FiniteSetTheorems, TLAPS

-----------------------------------------------------------------------------
(* Types.                                                                  *)

\* The slot computations of Cadence return an instant, or no slot.
LEMMA SlotTypes ==
    ASSUME NEW c \in CadenceValues, NEW t \in Nat
    PROVE  most_recent_slot(c, t) \in Slots /\ next_slot(c, t) \in Slots
  <1>1. CASE c \in Scheduled
    <2>1. period(c) \in Nat \ {0} /\ offset(c) \in Nat
      BY <1>1, PeriodPositive
    <2>2. t - offset(c) \in Int
      BY <2>1
    <2>3. (t - offset(c)) \div period(c) \in Int
      BY <2>1, <2>2, RoundDown
    <2> QED BY <1>1, <2>1, <2>3, SMT DEF most_recent_slot, next_slot, Slots
  <1>2. CASE c \notin Scheduled
    BY <1>2 DEF most_recent_slot, next_slot, Slots
  <1> QED BY <1>1, <1>2

\* The initial state is typed.
LEMMA InitTypes == Init => TypeOK
  BY BoundsAssumption, SlugsAssumption, SMT
  DEF Init, TypeOK, NoRun, NoJob, Slots, Statuses, Labels, Connections, Rows,
      Jobs, Slugs, RunIds

\* The empty local variables are typed.
LEMMA NoJobType == NoJob \in Jobs
  BY BoundsAssumption, SMT DEF NoJob, Jobs, Slots, Slugs

\* A step of an invocation keeps the types of pc and job.
LEMMA GotoTypes ==
    ASSUME TypeOK, NEW w \in Workers, NEW label \in Labels, NEW j \in Jobs,
           Goto(w, label, j)
    PROVE  pc' \in [Workers -> Labels] /\ job' \in [Workers -> Jobs]
  BY DEF TypeOK, Goto

\* Return keeps the types of pc and job.
LEMMA ReturnTypes ==
    ASSUME TypeOK, NEW w \in Workers, Return(w) \/ Leave(w)
    PROVE  pc' \in [Workers -> Labels] /\ job' \in [Workers -> Jobs]
  <1> DEFINE j == [NoJob EXCEPT !.cron = TRUE, !.slug = "monarch",
                                !.born = job[w].born]
  <1>1. job[w] \in Jobs
    BY DEF TypeOK
  <1>2. j \in Jobs
    BY <1>1, NoJobType DEF Jobs, Slugs
  <1>3. "prepare" \in Labels /\ "idle" \in Labels
    BY DEF Labels
  <1>4. CASE Goto(w, "prepare", j)
    BY <1>2, <1>3, <1>4, GotoTypes
  <1>5. CASE Goto(w, "idle", NoJob)
    BY <1>3, <1>5, NoJobType, GotoTypes
  <1> QED BY <1>4, <1>5 DEF Return, Leave

\* The assignments to the tables keep their types.
LEMMA RowUpdate ==
    ASSUME TypeOK, NEW r, NEW st \in Statuses, SetStatus(r, st)
    PROVE  log' \in [RunIds -> Rows]
  <1>1. CASE r \in RunIds
    <2>1. log[r] \in Rows
      BY <1>1 DEF TypeOK
    <2>2. [log[r] EXCEPT !.status = st] \in Rows
      BY <2>1 DEF Rows
    <2> QED BY <1>1, <2>2 DEF TypeOK, SetStatus
  <1>2. CASE r \notin RunIds
    BY <1>2 DEF TypeOK, SetStatus
  <1> QED BY <1>1, <1>2

\* Assigning the columns of a connection keeps its type.
LEMMA ConnectionUpdate ==
    ASSUME NEW c \in [Slugs -> Connections], NEW s \in Slugs
    PROVE  /\ \A st \in {"ok", "error"} :
                [c EXCEPT ![s].status = st] \in [Slugs -> Connections]
           /\ \A t \in Slots : [c EXCEPT ![s].next = t] \in [Slugs -> Connections]
           /\ \A d \in CadenceValues, t \in Slots :
                [c EXCEPT ![s].cadence = d, ![s].next = t] \in [Slugs -> Connections]
  <1>1. c[s] \in Connections
    OBVIOUS
  <1>2. ASSUME NEW st \in {"ok", "error"}
        PROVE  [c EXCEPT ![s].status = st] \in [Slugs -> Connections]
    <2>1. [c[s] EXCEPT !.status = st] \in Connections
      BY <1>1 DEF Connections
    <2> QED BY <2>1
  <1>3. ASSUME NEW t \in Slots
        PROVE  [c EXCEPT ![s].next = t] \in [Slugs -> Connections]
    <2>1. [c[s] EXCEPT !.next = t] \in Connections
      BY <1>1 DEF Connections
    <2> QED BY <2>1
  <1>4. ASSUME NEW d \in CadenceValues, NEW t \in Slots
        PROVE  [c EXCEPT ![s].cadence = d, ![s].next = t] \in [Slugs -> Connections]
    <2>1. [c[s] EXCEPT !.cadence = d, !.next = t] \in Connections
      BY <1>1 DEF Connections
    <2>2. [c EXCEPT ![s].cadence = d, ![s].next = t]
            = [c EXCEPT ![s] = [c[s] EXCEPT !.cadence = d, !.next = t]]
      BY <1>1 DEF Connections
    <2> QED BY <2>1, <2>2
  <1> QED BY <1>2, <1>3, <1>4

\* A sweep keeps the type of the log.
LEMMA InterruptedTypes ==
    ASSUME TypeOK, NEW rs
    PROVE  Interrupted(rs) \in [RunIds -> Rows]
  BY SMT DEF TypeOK, Interrupted, Rows, Statuses

\* The local variables that the steps of an invocation assign are typed.
LEMMA JobTypes ==
    ASSUME TypeOK, NEW w \in Workers
    PROVE  /\ job[w] \in Jobs
           /\ \A s \in Slugs : [NoJob EXCEPT !.slug = s, !.born = clock] \in Jobs
           /\ [NoJob EXCEPT !.cron = TRUE, !.born = clock] \in Jobs
           /\ [NoJob EXCEPT !.born = clock] \in Jobs
           /\ \A t \in Slots : [job[w] EXCEPT !.slot = t] \in Jobs
           /\ [job[w] EXCEPT !.started = clock] \in Jobs
           /\ nextRun <= MaxRuns =>
                [job[w] EXCEPT !.run = nextRun, !.slot = NoSlot, !.started = 0] \in Jobs
           /\ [job[w] EXCEPT !.base = ledger[job[w].slug]] \in Jobs
           /\ [job[w] EXCEPT !.base = 0] \in Jobs
  <1>1. job[w] \in Jobs /\ NoJob \in Jobs /\ clock \in Nat
    BY NoJobType DEF TypeOK
  <1>2. \A s \in Slugs : [NoJob EXCEPT !.slug = s, !.born = clock] \in Jobs
    BY <1>1 DEF Jobs
  <1>3. /\ [NoJob EXCEPT !.cron = TRUE, !.born = clock] \in Jobs
        /\ [NoJob EXCEPT !.born = clock] \in Jobs
    BY <1>1 DEF Jobs
  <1>4. \A t \in Slots : [job[w] EXCEPT !.slot = t] \in Jobs
    BY <1>1 DEF Jobs
  <1>5. [job[w] EXCEPT !.started = clock] \in Jobs
    BY <1>1 DEF Jobs
  <1>6. ASSUME nextRun <= MaxRuns
        PROVE  [job[w] EXCEPT !.run = nextRun, !.slot = NoSlot, !.started = 0] \in Jobs
    <2>1. nextRun \in 0..MaxRuns
      BY <1>6, BoundsAssumption, SMT DEF TypeOK
    <2>2. NoSlot \in Slots
      BY DEF Slots
    <2> QED BY <1>1, <2>1, <2>2 DEF Jobs
  <1>7. ledger[job[w].slug] \in 0..MaxRuns
    BY <1>1 DEF TypeOK, Jobs
  <1>8. [job[w] EXCEPT !.base = ledger[job[w].slug]] \in Jobs
    BY <1>1, <1>7 DEF Jobs
  <1>9. [job[w] EXCEPT !.base = 0] \in Jobs
    BY <1>1, BoundsAssumption DEF Jobs
  <1> QED BY <1>1, <1>2, <1>3, <1>4, <1>5, <1>6, <1>8, <1>9

\* The labels that the actions assign.
LEMMA LabelFacts ==
    /\ {"idle", "cadence", "prepare", "capture", "finish", "fail", "failnone",
        "recover", "begin", "sweep", "claim"} \subseteq Labels
  BY DEF Labels, BeforeClaim

\* Every step keeps the types: one case per action.
LEMMA NextTypes == TypeOK /\ [Next]_vars => TypeOK'
  <1> SUFFICES ASSUME TypeOK, [Next]_vars PROVE TypeOK'
    OBVIOUS
  <1> DEFINE pj == pc' \in [Workers -> Labels] /\ job' \in [Workers -> Jobs]
  <1>1. CASE Operator
    <2>1. ASSUME NEW m \in {"read_only", "enabled"}, NEW b \in BOOLEAN,
                 b => m = "enabled", set_control(m, b)
          PROVE  TypeOK'
      BY <2>1 DEF set_control, dbUnchanged, workersUnchanged, TypeOK
    <2>2. control.mode \in {"read_only", "enabled"}
      BY DEF TypeOK
    <2> QED BY <1>1, <2>1, <2>2 DEF Operator, enter_read_only, enable_writes,
                                    set_scheduler_enabled
  <1>2. ASSUME NEW w \in Workers, Invocation(w) PROVE TypeOK'
    <2> USE LabelFacts
    <2>0. job[w] \in Jobs /\ conn \in [Slugs -> Connections]
      BY DEF TypeOK
    <2>1. ASSUME NEW s \in Slugs, ManualRequest(w, s) PROVE TypeOK'
      <3>1. pj
        BY <2>1, JobTypes, GotoTypes DEF ManualRequest
      <3> QED BY <2>1, <3>1 DEF ManualRequest, dbUnchanged, TypeOK
    <2>2. CASE CronRequest(w)
      <3>1. pj
        BY <2>2, JobTypes, GotoTypes DEF CronRequest
      <3> QED BY <2>2, <3>1 DEF CronRequest, dbUnchanged, TypeOK
    <2>3. CASE CadenceRequest(w)
      <3>1. pj
        BY <2>3, JobTypes, GotoTypes DEF CadenceRequest
      <3> QED BY <2>3, <3>1 DEF CadenceRequest, dbUnchanged, TypeOK
    <2>4. CASE persist_cadence(w)
      <3>1. ASSUME NEW c \in Cadences,
                   conn' = [conn EXCEPT !["tmo"].cadence = c,
                                        !["tmo"].next = next_slot(c, job[w].born)]
            PROVE  conn' \in [Slugs -> Connections]
        <4>1. c \in CadenceValues /\ job[w].born \in Nat /\ "tmo" \in Slugs
          BY <2>0, SlugsAssumption DEF Jobs, Slugs
        <4>2. next_slot(c, job[w].born) \in Slots
          BY <4>1, SlotTypes
        <4> QED BY <2>0, <3>1, <4>1, <4>2, ConnectionUpdate
      <3>2. conn' \in [Slugs -> Connections]
        BY <2>4, <3>1 DEF persist_cadence, TypeOK
      <3>3. pj
        BY <2>4, ReturnTypes DEF persist_cadence
      <3> QED BY <2>4, <3>2, <3>3 DEF persist_cadence, TypeOK
    <2>5. CASE prepare_schedule(w)
      <3> DEFINE s == job[w].slug
                 slot == most_recent_slot(conn[s].cadence, job[w].born)
                 next == next_slot(conn[s].cadence, job[w].born)
      <3>1. s \in Slugs /\ job[w].born \in Nat
        BY <2>0 DEF Jobs
      <3>2. conn[s].cadence \in CadenceValues
        BY <2>0, <3>1 DEF Connections
      <3>3. slot \in Slots /\ next \in Slots
        BY <3>1, <3>2, SlotTypes
      <3>4. conn' \in [Slugs -> Connections]
        <4>1. conn' = [conn EXCEPT ![s].next = next] \/ conn' = conn
          BY <2>5 DEF prepare_schedule
        <4> HIDE DEF s, next
        <4>2. [conn EXCEPT ![s].next = next] \in [Slugs -> Connections]
          BY <2>0, <3>1, <3>3, ConnectionUpdate
        <4> QED BY <2>0, <4>1, <4>2
      <3>5. pj
        <4>1. \/ Return(w) \/ Leave(w)
              \/ Goto(w, "begin", [job[w] EXCEPT !.slot = slot])
          BY <2>5 DEF prepare_schedule
        <4>2. [job[w] EXCEPT !.slot = slot] \in Jobs
          BY <3>3, JobTypes
        <4> HIDE DEF slot
        <4>3. CASE Return(w) \/ Leave(w)
          BY <4>3, ReturnTypes
        <4>4. CASE Goto(w, "begin", [job[w] EXCEPT !.slot = slot])
          BY <4>2, <4>4, GotoTypes
        <4> QED BY <4>1, <4>3, <4>4
      <3> QED BY <2>5, <3>4, <3>5 DEF prepare_schedule, TypeOK
    <2>6. CASE Begin(w)
      <3>1. pj
        BY <2>6, JobTypes, GotoTypes DEF Begin
      <3> QED BY <2>6, <3>1 DEF Begin, dbUnchanged, TypeOK
    <2>7. CASE interrupt_stale(w)
      <3>1. pj
        BY <2>7, JobTypes, GotoTypes DEF interrupt_stale
      <3>2. log' \in [RunIds -> Rows]
        BY <2>7, InterruptedTypes DEF interrupt_stale, TypeOK
      <3> QED BY <2>7, <3>1, <3>2 DEF interrupt_stale, TypeOK
    <2>8. CASE Claim(w)
      <3> DEFINE row == [slug |-> job[w].slug, slot |-> job[w].slot,
                         started |-> job[w].started, status |-> "running"]
      <3>1. row \in Rows
        BY <2>0 DEF Jobs, Rows, Statuses
      <3>2. log' \in [RunIds -> Rows]
        <4>1. log' = [log EXCEPT ![nextRun] = row]
          BY <2>8 DEF Claim
        <4> HIDE DEF row
        <4> QED BY <3>1, <4>1 DEF TypeOK
      <3>3. nextRun' \in 1..(MaxRuns + 1)
        <4>1. nextRun' = nextRun + 1 /\ nextRun <= MaxRuns
          BY <2>8 DEF Claim
        <4>2. nextRun \in 1..(MaxRuns + 1)
          BY DEF TypeOK
        <4> QED BY <4>1, <4>2, BoundsAssumption
      <3>4. pj
        BY <2>8, JobTypes, GotoTypes, ReturnTypes DEF Claim
      <3> QED BY <2>8, <3>2, <3>3, <3>4 DEF Claim, TypeOK
    <2>9. CASE ClaimRefused(w) \/ GiveUp(w) \/ Kill(w)
      <3>1. pj
        BY <2>9, ReturnTypes DEF ClaimRefused, GiveUp, Kill
      <3> QED BY <2>9, <3>1 DEF ClaimRefused, GiveUp, Kill, dbUnchanged, TypeOK
    <2>10. CASE capture(w)
      <3>1. pj
        BY <2>10, JobTypes, GotoTypes DEF capture
      <3> QED BY <2>10, <3>1 DEF capture, dbUnchanged, TypeOK
    <2>11. CASE finish_success(w)
      <3>1. "success" \in Statuses /\ job[w].slug \in Slugs /\ job[w].run \in 0..MaxRuns
        BY <2>0 DEF Statuses, Jobs
      <3>2. log' \in [RunIds -> Rows]
        BY <2>11, <3>1, RowUpdate DEF finish_success, complete_success, TypeOK
      <3>3. ledger' \in [Slugs -> 0..MaxRuns]
        BY <2>11, <3>1 DEF finish_success, complete_success, TypeOK
      <3>4. conn' \in [Slugs -> Connections]
        <4>1. [conn EXCEPT ![job[w].slug].status = "ok"] \in [Slugs -> Connections]
          BY <2>0, <3>1, ConnectionUpdate
        <4> QED BY <2>0, <2>11, <4>1 DEF finish_success, complete_success
      <3>5. pj
        BY <2>11, JobTypes, GotoTypes, ReturnTypes DEF finish_success, GotoFail
      <3> QED BY <2>11, <3>2, <3>3, <3>4, <3>5 DEF finish_success, TypeOK
    <2>12. CASE finish_failure(w)
      <3>1. "error" \in Statuses /\ job[w].slug \in Slugs
        BY <2>0 DEF Statuses, Jobs
      <3>2. log' \in [RunIds -> Rows]
        BY <2>12, <3>1, RowUpdate DEF finish_failure, complete_error, dbUnchanged, TypeOK
      <3>3. conn' \in [Slugs -> Connections]
        <4>1. [conn EXCEPT ![job[w].slug].status = "error"] \in [Slugs -> Connections]
          BY <2>0, <3>1, ConnectionUpdate
        <4> QED BY <2>0, <2>12, <4>1 DEF finish_failure, mark_error, dbUnchanged
      <3>4. pj
        BY <2>12, JobTypes, GotoTypes, ReturnTypes DEF finish_failure, FailureUnrecorded
      <3>5. UNCHANGED <<nextRun, ledger, control, clock>>
        BY <2>12 DEF finish_failure, complete_error, dbUnchanged
      <3> QED BY <3>2, <3>3, <3>4, <3>5 DEF TypeOK
    <2>13. CASE Abort(w)
      <3>1. pj
        BY <2>13, JobTypes, GotoTypes DEF Abort
      <3> QED BY <2>13, <3>1 DEF Abort, dbUnchanged, TypeOK
    <2>14. CASE recover_claim(w)
      <3>1. "error" \in Statuses
        BY DEF Statuses
      <3>2. log' \in [RunIds -> Rows]
        BY <2>14, <3>1, RowUpdate DEF recover_claim, complete_error, dbUnchanged, TypeOK
      <3>3. pj
        BY <2>14, ReturnTypes DEF recover_claim
      <3>4. UNCHANGED <<nextRun, ledger, control, clock, conn>>
        BY <2>14 DEF recover_claim, complete_error, dbUnchanged
      <3> QED BY <3>2, <3>3, <3>4 DEF TypeOK
    <2> QED BY <1>2, <2>1, <2>2, <2>3, <2>4, <2>5, <2>6, <2>7, <2>8, <2>9,
               <2>10, <2>11, <2>12, <2>13, <2>14 DEF Invocation
  <1>3. CASE recent_runs
    <2>1. log' \in [RunIds -> Rows]
      BY <1>3, InterruptedTypes DEF recent_runs
    <2> QED BY <1>3, <2>1 DEF recent_runs, workersUnchanged, TypeOK
  <1>4. CASE Tick
    <2>1. clock' \in Nat
      BY <1>4 DEF Tick, TypeOK
    <2> QED BY <1>4, <2>1 DEF Tick, dbUnchanged, workersUnchanged, TypeOK
  <1>5. CASE UNCHANGED vars
    BY <1>5 DEF vars, TypeOK
  <1> QED BY <1>1, <1>2, <1>3, <1>4, <1>5 DEF Next

\* The type invariant holds in every behaviour, for every value of the
\* constants; in particular the scheduler is never on in a frozen database.
THEOREM TypeCorrect == Spec => []TypeOK
  BY InitTypes, NextTypes, PTL DEF Spec

-----------------------------------------------------------------------------
(* What one step can do to a row and to an invocation.                     *)

\* A row stays as it is or ends.
Ends(r) == /\ log[r].status = "running"
           /\ log'[r].status \in {"success", "error"}
           /\ log'[r].slug = log[r].slug /\ log'[r].slot = log[r].slot
           /\ log'[r].started = log[r].started
RowsQuiet == /\ nextRun' = nextRun
             /\ \A r \in RunIds : log'[r] = log[r] \/ Ends(r)

\* A terminal transition changes only the status of one running row.
LEMMA SetStatusEnds ==
    ASSUME TypeOK, NEW w \in Workers, NEW st \in {"success", "error"},
           Owned(w), SetStatus(job[w].run, st), nextRun' = nextRun
    PROVE  /\ RowsQuiet
           /\ \A r \in RunIds : log'[r] # log[r] => r = job[w].run
  <1> SUFFICES ASSUME NEW r \in RunIds
               PROVE  /\ log'[r] = log[r] \/ Ends(r)
                      /\ log'[r] # log[r] => r = job[w].run
    BY DEF RowsQuiet
  <1>1. log[r] \in Rows /\ DOMAIN log = RunIds
    BY DEF TypeOK
  <1>2. log' = [log EXCEPT ![job[w].run] = [log[job[w].run] EXCEPT !.status = st]]
    BY DEF SetStatus
  <1>3. CASE r = job[w].run
    <2>1. log'[r] = [log[r] EXCEPT !.status = st]
      BY <1>1, <1>2, <1>3
    <2>2. Ends(r)
      BY <1>1, <1>3, <2>1 DEF Ends, Owned, Rows
    <2> QED BY <1>3, <2>2
  <1>4. CASE r # job[w].run
    BY <1>1, <1>2, <1>4
  <1> QED BY <1>3, <1>4

\* A sweep changes only running rows, and only to error.
LEMMA InterruptedEnds ==
    ASSUME TypeOK, NEW s \in Slugs, NEW t, log' = Interrupted(StaleAt(s, t)),
           nextRun' = nextRun
    PROVE  /\ RowsQuiet
           /\ \A r \in RunIds : log'[r] # log[r] =>
                 log[r].slug = s /\ log[r].started < t - StaleAfter[s]
  <1> SUFFICES ASSUME NEW r \in RunIds
               PROVE  /\ log'[r] = log[r] \/ Ends(r)
                      /\ log'[r] # log[r] =>
                           log[r].slug = s /\ log[r].started < t - StaleAfter[s]
    BY DEF RowsQuiet
  <1>1. log[r] \in Rows
    BY DEF TypeOK
  <1>2. CASE r \in StaleAt(s, t)
    <2>1. log'[r] = [log[r] EXCEPT !.status = "error"]
      BY <1>2 DEF Interrupted
    <2>2. /\ log[r].status = "running" /\ log[r].slug = s
          /\ log[r].started < t - StaleAfter[s]
      BY <1>2 DEF StaleAt, Running
    <2>3. Ends(r)
      BY <1>1, <2>1, <2>2 DEF Ends, Rows
    <2> QED BY <2>2, <2>3
  <1>3. CASE r \notin StaleAt(s, t)
    BY <1>3 DEF Interrupted
  <1> QED BY <1>2, <1>3

\* Rows change in three ways: their owner ends them, a sweep ends them because
\* they are stale, or a claim inserts the next one.
OwnerEnds(w) == /\ Holding(w) /\ Owned(w) /\ pc'[w] \notin {"capture", "finish"}
                /\ \A r \in RunIds : log'[r] # log[r] => r = job[w].run
SweepEnds(s, t) == \A r \in RunIds : log'[r] # log[r] =>
                      log[r].slug = s /\ log[r].started < t - StaleAfter[s]

\* What one step can do to the log: nothing, one insertion at nextRun, or
\* ending running rows; a sweep ends rows only while writes are enabled.
LEMMA RowSteps ==
    ASSUME TypeOK, [Next]_vars
    PROVE  \/ log' = log /\ nextRun' = nextRun
           \/ RowsQuiet /\ \E w \in Workers : OwnerEnds(w)
           \/ RowsQuiet /\ WritesEnabled /\ \E w \in Workers :
                  pc[w] = "sweep" /\ SweepEnds(job[w].slug, job[w].started)
           \/ RowsQuiet /\ WritesEnabled /\ SweepEnds("tmo", clock)
           \/ \E w \in Workers : Claim(w)
  <1>1. CASE Operator
    BY <1>1 DEF Operator, enter_read_only, enable_writes, set_scheduler_enabled,
                set_control, dbUnchanged
  <1>2. ASSUME NEW w \in Workers, Invocation(w)
        PROVE  \/ log' = log /\ nextRun' = nextRun
               \/ RowsQuiet /\ OwnerEnds(w)
               \/ /\ RowsQuiet /\ WritesEnabled
                  /\ pc[w] = "sweep" /\ SweepEnds(job[w].slug, job[w].started)
               \/ Claim(w)
    <2>0. job[w] \in Jobs /\ pc \in [Workers -> Labels]
      BY DEF TypeOK
    <2>1. CASE interrupt_stale(w)
      <3>1. job[w].slug \in Slugs
        BY <2>0 DEF Jobs
      <3> QED BY <2>1, <3>1, InterruptedEnds DEF interrupt_stale, SweepEnds
    <2>2. CASE finish_success(w)
      <3>1. CASE complete_success(w)
        <4>1. RowsQuiet /\ \A r \in RunIds : log'[r] # log[r] => r = job[w].run
          BY <2>2, <3>1, SetStatusEnds DEF finish_success, complete_success
        <4>2. pc'[w] \in {"prepare", "idle", "fail"}
          BY <2>0, <2>2, <3>1 DEF finish_success, GotoFail, Return, Leave, Goto
        <4> QED BY <2>2, <3>1, <4>1, <4>2
                DEF OwnerEnds, Holding, finish_success, complete_success
      <3>2. CASE log' = log
        BY <2>2, <3>2 DEF finish_success
      <3> QED BY <2>2, <3>1, <3>2 DEF finish_success
    <2>3. CASE finish_failure(w) \/ recover_claim(w)
      <3>1. CASE complete_error(w)
        <4>1. RowsQuiet /\ \A r \in RunIds : log'[r] # log[r] => r = job[w].run
          BY <3>1, SetStatusEnds DEF complete_error
        <4>2. pc'[w] \in {"prepare", "idle", "recover"}
          BY <2>0, <2>3 DEF finish_failure, recover_claim, FailureUnrecorded,
                            Return, Leave, Goto
        <4>3. Holding(w)
          BY <2>3 DEF Holding, finish_failure, recover_claim
        <4> QED BY <3>1, <4>1, <4>2, <4>3 DEF OwnerEnds, complete_error
      <3>2. CASE dbUnchanged
        BY <3>2 DEF dbUnchanged
      <3> QED BY <2>3, <3>1, <3>2 DEF finish_failure, recover_claim
    <2>4. CASE Claim(w)
      BY <2>4
    <2>5. CASE \/ \E s \in Slugs : ManualRequest(w, s)
               \/ CronRequest(w) \/ CadenceRequest(w) \/ persist_cadence(w)
               \/ prepare_schedule(w) \/ Begin(w) \/ ClaimRefused(w) \/ GiveUp(w)
               \/ capture(w) \/ Abort(w) \/ Kill(w)
      BY <2>5 DEF ManualRequest, CronRequest, CadenceRequest, persist_cadence,
         prepare_schedule, Begin, ClaimRefused, GiveUp, capture, Abort, Kill, dbUnchanged
    <2> QED BY <1>2, <2>1, <2>2, <2>3, <2>4, <2>5 DEF Invocation
  <1>3. CASE recent_runs
    <2>1. "tmo" \in Slugs
      BY DEF Slugs
    <2> QED BY <1>3, <2>1, InterruptedEnds DEF recent_runs, SweepEnds
  <1>4. CASE Tick \/ UNCHANGED vars
    BY <1>4 DEF Tick, dbUnchanged, vars
  <1> QED BY <1>1, <1>2, <1>3, <1>4 DEF Next

\* Every step of an invocation is a Goto of that invocation.
LEMMA InvocationGoes ==
    ASSUME NEW w \in Workers, Invocation(w)
    PROVE  \E label, j : Goto(w, label, j)
  BY DEF Invocation, ManualRequest, CronRequest, CadenceRequest, persist_cadence,
     prepare_schedule, Begin, interrupt_stale, Claim, ClaimRefused, GiveUp,
     capture, finish_success, finish_failure, Abort, recover_claim, Kill,
     Return, Leave, GotoFail, FailureUnrecorded

\* A step of an invocation leaves the other invocations alone.
LEMMA OthersStay ==
    ASSUME TypeOK, NEW w \in Workers, Invocation(w), NEW v \in Workers, v # w
    PROVE  pc'[v] = pc[v] /\ job'[v] = job[v]
  BY InvocationGoes DEF TypeOK, Goto

\* The label and the locals an invocation reaches with Goto.
LEMMA GotoGives ==
    ASSUME TypeOK, NEW w \in Workers, NEW label, NEW j, Goto(w, label, j)
    PROVE  pc'[w] = label /\ job'[w] = j
  BY DEF TypeOK, Goto

\* After Return an invocation holds no run.
LEMMA ReturnGives ==
    ASSUME TypeOK, NEW w \in Workers, Return(w) \/ Leave(w)
    PROVE  \/ pc'[w] = "idle"
           \/ pc'[w] = "prepare" /\ job'[w].born = job[w].born
  <1>1. CASE Leave(w)
    BY <1>1, GotoGives DEF Leave
  <1>2. CASE Goto(w, "prepare", [NoJob EXCEPT !.cron = TRUE, !.slug = "monarch",
                                             !.born = job[w].born])
    <2>1. job'[w] = [NoJob EXCEPT !.cron = TRUE, !.slug = "monarch",
                                  !.born = job[w].born]
      BY <1>2, GotoGives
    <2>2. job'[w].born = job[w].born
      BY <2>1, NoJobType DEF Jobs
    <2> QED BY <1>2, <2>2, GotoGives
  <1> QED BY <1>1, <1>2 DEF Return

\* The steps of an invocation along its own program.
Keeps(w) == /\ job'[w].run = job[w].run /\ job'[w].slug = job[w].slug
            /\ job'[w].born = job[w].born
OwnStep(w) ==
    \/ pc'[w] = "idle"
    \/ pc'[w] = "prepare" /\ pc[w] # "idle" /\ job'[w].born = job[w].born
    \/ /\ pc[w] = "idle" /\ pc'[w] \in {"begin", "prepare", "cadence"}
       /\ job'[w].born = clock
    \/ pc[w] = "prepare" /\ pc'[w] = "begin" /\ job'[w].born = job[w].born
    \/ /\ pc[w] = "begin" /\ pc'[w] = "sweep"
       /\ job'[w].born = job[w].born /\ job'[w].started = clock
    \/ pc[w] = "sweep" /\ pc'[w] = "claim" /\ job'[w] = job[w]
    \/ /\ Claim(w) /\ pc'[w] = "capture" /\ job'[w].run = nextRun
       /\ job'[w].slug = job[w].slug /\ job'[w].born = job[w].born
    \/ /\ pc[w] = "capture" /\ pc'[w] = "finish" /\ Keeps(w)
       /\ job'[w].base = ledger[job[w].slug]
       /\ UNCHANGED <<log, ledger, nextRun>>
    \/ /\ Holding(w) /\ pc'[w] \in {"fail", "failnone", "recover"} /\ Keeps(w)

\* How an invocation comes to hold a run and what it keeps while it holds it.
LEMMA OwnSteps ==
    ASSUME TypeOK, NEW w \in Workers, Invocation(w)
    PROVE  OwnStep(w)
  <1>0. job[w] \in Jobs
    BY DEF TypeOK
  <1>1. ASSUME NEW s \in Slugs, ManualRequest(w, s) PROVE OwnStep(w)
    <2>1. job'[w] = [NoJob EXCEPT !.slug = s, !.born = clock] /\ pc'[w] = "begin"
      BY <1>1, GotoGives DEF ManualRequest
    <2>2. job'[w].born = clock
      BY <2>1, NoJobType DEF Jobs
    <2> QED BY <1>1, <2>1, <2>2 DEF OwnStep, ManualRequest
  <1>2. CASE CronRequest(w)
    <2>1. job'[w] = [NoJob EXCEPT !.cron = TRUE, !.born = clock] /\ pc'[w] = "prepare"
      BY <1>2, GotoGives DEF CronRequest
    <2>2. job'[w].born = clock
      BY <2>1, NoJobType DEF Jobs
    <2> QED BY <1>2, <2>1, <2>2 DEF OwnStep, CronRequest
  <1>3. CASE CadenceRequest(w)
    <2>1. job'[w] = [NoJob EXCEPT !.born = clock] /\ pc'[w] = "cadence"
      BY <1>3, GotoGives DEF CadenceRequest
    <2>2. job'[w].born = clock
      BY <2>1, NoJobType DEF Jobs
    <2> QED BY <1>3, <2>1, <2>2 DEF OwnStep, CadenceRequest
  <1>4. ASSUME Return(w) \/ Leave(w), pc[w] # "idle" PROVE OwnStep(w)
    BY <1>4, ReturnGives DEF OwnStep
  <1>5. CASE persist_cadence(w) \/ ClaimRefused(w) \/ GiveUp(w) \/ recover_claim(w)
             \/ Kill(w)
    BY <1>4, <1>5 DEF persist_cadence, ClaimRefused, GiveUp, recover_claim, Kill,
                      BeforeClaim
  <1>6. CASE prepare_schedule(w)
    <2> DEFINE t == most_recent_slot(conn[job[w].slug].cadence, job[w].born)
    <2>1. CASE Goto(w, "begin", [job[w] EXCEPT !.slot = t])
      <3>1. pc'[w] = "begin" /\ job'[w] = [job[w] EXCEPT !.slot = t]
        BY <2>1, GotoGives
      <3>2. job'[w].born = job[w].born
        BY <1>0, <3>1 DEF Jobs
      <3> QED BY <1>6, <3>1, <3>2 DEF OwnStep, prepare_schedule
    <2> QED BY <1>4, <1>6, <2>1 DEF prepare_schedule
  <1>7. CASE Begin(w)
    <2>1. pc'[w] = "sweep" /\ job'[w] = [job[w] EXCEPT !.started = clock]
      BY <1>7, GotoGives DEF Begin
    <2>2. job'[w].born = job[w].born /\ job'[w].started = clock
      BY <1>0, <2>1 DEF Jobs
    <2> QED BY <1>7, <2>1, <2>2 DEF OwnStep, Begin
  <1>8. CASE interrupt_stale(w)
    BY <1>8, GotoGives DEF OwnStep, interrupt_stale
  <1>9. CASE Claim(w)
    <2>1. CASE Goto(w, "capture", [job[w] EXCEPT !.run = nextRun, !.slot = NoSlot,
                                                !.started = 0])
      <3>1. /\ pc'[w] = "capture"
            /\ job'[w] = [job[w] EXCEPT !.run = nextRun, !.slot = NoSlot, !.started = 0]
        BY <2>1, GotoGives
      <3>2. /\ job'[w].run = nextRun /\ job'[w].slug = job[w].slug
            /\ job'[w].born = job[w].born
        BY <1>0, <3>1 DEF Jobs
      <3> QED BY <1>9, <3>1, <3>2 DEF OwnStep
    <2> QED BY <1>4, <1>9, <2>1 DEF Claim
  <1>10. CASE capture(w)
    <2>1. CASE Goto(w, "finish", [job[w] EXCEPT !.base = ledger[job[w].slug]])
      <3>1. pc'[w] = "finish" /\ job'[w] = [job[w] EXCEPT !.base = ledger[job[w].slug]]
        BY <2>1, GotoGives
      <3>2. Keeps(w) /\ job'[w].base = ledger[job[w].slug]
        BY <1>0, <3>1 DEF Jobs, Keeps
      <3> QED BY <1>10, <3>1, <3>2 DEF OwnStep, capture, dbUnchanged
    <2>2. CASE Goto(w, "fail", job[w]) \/ Goto(w, "failnone", job[w])
      BY <1>10, <2>2, GotoGives DEF OwnStep, Keeps, capture, Holding
    <2> QED BY <1>10, <2>1, <2>2 DEF capture
  <1>11. CASE finish_success(w)
    <2>1. CASE GotoFail(w)
      <3>1. pc'[w] = "fail" /\ job'[w] = [job[w] EXCEPT !.base = 0]
        BY <2>1, GotoGives DEF GotoFail
      <3>2. Keeps(w)
        BY <1>0, <3>1 DEF Jobs, Keeps
      <3> QED BY <1>11, <3>1, <3>2 DEF OwnStep, finish_success, Holding
    <2> QED BY <1>4, <1>11, <2>1 DEF finish_success
  <1>12. CASE finish_failure(w)
    <2>1. CASE Goto(w, "recover", job[w])
      BY <1>12, <2>1, GotoGives DEF OwnStep, Keeps, finish_failure, Holding
    <2> QED BY <1>4, <1>12, <2>1 DEF finish_failure, FailureUnrecorded
  <1>13. CASE Abort(w)
    <2>1. pc'[w] = "recover" /\ job'[w] = [job[w] EXCEPT !.base = 0]
      BY <1>13, GotoGives DEF Abort
    <2>2. Keeps(w)
      BY <1>0, <2>1 DEF Jobs, Keeps
    <2> QED BY <1>13, <2>1, <2>2 DEF OwnStep, Abort, Holding
  <1> QED BY <1>1, <1>2, <1>3, <1>5, <1>6, <1>7, <1>8, <1>9, <1>10, <1>11, <1>12,
             <1>13 DEF Invocation

\* A step leaves an invocation alone or is a step of that invocation.
LEMMA WorkerSteps ==
    ASSUME TypeOK, [Next]_vars, NEW v \in Workers
    PROVE  \/ pc'[v] = pc[v] /\ job'[v] = job[v]
           \/ OwnStep(v) /\ clock' = clock
  <1>1. CASE Operator \/ recent_runs \/ Tick \/ UNCHANGED vars
    BY <1>1 DEF Operator, enter_read_only, enable_writes, set_scheduler_enabled,
       set_control, recent_runs, Tick, workersUnchanged, vars
  <1>2. ASSUME NEW w \in Workers, Invocation(w), v # w
        PROVE  pc'[v] = pc[v] /\ job'[v] = job[v]
    BY <1>2, OthersStay
  <1>3. CASE Invocation(v)
    <2>1. clock' = clock
      BY <1>3 DEF Invocation, ManualRequest, CronRequest, CadenceRequest,
         persist_cadence, prepare_schedule, Begin, interrupt_stale, Claim,
         ClaimRefused, GiveUp, capture, finish_success, finish_failure, Abort,
         recover_claim, Kill
    <2> QED BY <1>3, <2>1, OwnSteps
  <1> QED BY <1>1, <1>2, <1>3 DEF Next

-----------------------------------------------------------------------------
(* The invariant Ownership.                                                *)

\* The ownership invariant holds initially.
LEMMA InitOwnership == Init => Ownership
  BY BoundsAssumption
  DEF Init, Ownership, RowsInOrder, OneRunning, HoldersKnowRun, OneHolder,
      CaptureIsCurrent, Lifetimes, Holding, NoRun, RunIds

\* What a claim adds to the log.
LEMMA ClaimInserts ==
    ASSUME TypeOK, RowsInOrder, NEW w \in Workers, Claim(w)
    PROVE  /\ nextRun \in RunIds /\ nextRun' = nextRun + 1
           /\ log[nextRun].status = "none"
           /\ log'[nextRun].status = "running"
           /\ log'[nextRun].slug = job[w].slug /\ log'[nextRun].slot = job[w].slot
           /\ log'[nextRun].started = job[w].started
           /\ \A r \in RunIds : r # nextRun => log'[r] = log[r]
           /\ pc[w] = "claim"
           /\ \A r \in RunIds : ~(log[r].status = "running" /\ log[r].slug = job[w].slug)
  <1>1. nextRun \in RunIds
    BY BoundsAssumption DEF Claim, TypeOK, RunIds
  <1>2. \A r \in RunIds : ~(log[r].status = "running" /\ log[r].slug = job[w].slug)
    BY DEF Claim, Inserts, claim_manual, claim_scheduled, RunningConflict, Running
  <1>3. log[nextRun].status = "none"
    BY <1>1 DEF RowsInOrder, RunIds
  <1>4. log'[nextRun] = [slug |-> job[w].slug, slot |-> job[w].slot,
                         started |-> job[w].started, status |-> "running"]
    BY <1>1 DEF Claim, TypeOK
  <1>5. \A r \in RunIds : r # nextRun => log'[r] = log[r]
    BY <1>1 DEF Claim, TypeOK
  <1> QED BY <1>1, <1>2, <1>3, <1>4, <1>5 DEF Claim

\* Only one claim happens in a step, and it is a step of its invocation.
LEMMA ClaimIsOwn ==
    ASSUME TypeOK, NEW w \in Workers, Claim(w), NEW v \in Workers, v # w
    PROVE  pc'[v] = pc[v] /\ job'[v] = job[v]
  BY OthersStay DEF Invocation

\* Every step keeps the order of the log and its one running row per slug.
LEMMA RowsOk ==
    ASSUME TypeOK, RowsInOrder, OneRunning, [Next]_vars
    PROVE  RowsInOrder' /\ OneRunning'
  <1>1. CASE RowsQuiet
    BY <1>1 DEF RowsQuiet, Ends, RowsInOrder, OneRunning
  <1>2. ASSUME NEW w \in Workers, Claim(w) PROVE RowsInOrder' /\ OneRunning'
    <2>1. /\ nextRun \in RunIds /\ nextRun' = nextRun + 1
          /\ log'[nextRun].status = "running" /\ log'[nextRun].slug = job[w].slug
          /\ \A r \in RunIds : r # nextRun => log'[r] = log[r]
          /\ \A r \in RunIds : ~(log[r].status = "running" /\ log[r].slug = job[w].slug)
      BY <1>2, ClaimInserts
    <2>2. RowsInOrder'
      BY <2>1, BoundsAssumption DEF RowsInOrder, RunIds
    <2>3. OneRunning'
      BY <2>1 DEF OneRunning
    <2> QED BY <2>2, <2>3
  <1>3. CASE log' = log /\ nextRun' = nextRun
    BY <1>3 DEF RowsInOrder, OneRunning
  <1> QED BY <1>1, <1>2, <1>3, RowSteps

\* Every step keeps each held run known to one holder only.
LEMMA HoldersOk ==
    ASSUME TypeOK, TypeOK', RowsInOrder, HoldersKnowRun, OneHolder, Lifetimes,
           [Next]_vars
    PROVE  HoldersKnowRun' /\ OneHolder'
  \* An invocation that holds a run after the step held it before, or claims it.
  <1>1. ASSUME NEW v \in Workers, Holding(v)'
        PROVE  \/ Holding(v) /\ Keeps(v)
               \/ /\ Claim(v) /\ job'[v].run = nextRun
                  /\ job'[v].slug = job[v].slug /\ job'[v].born = job[v].born
    <2>1. CASE pc'[v] = pc[v] /\ job'[v] = job[v]
      BY <1>1, <2>1 DEF Holding, Keeps
    <2>2. CASE OwnStep(v)
      BY <1>1, <2>2 DEF OwnStep, Holding
    <2> QED BY <2>1, <2>2, WorkerSteps
  \* The rows that exist keep their slug and their start.
  <1>2. ASSUME NEW r \in RunIds, r < nextRun
        PROVE  log'[r].slug = log[r].slug /\ log'[r].started = log[r].started
    <2>1. ASSUME NEW w \in Workers, Claim(w) PROVE log'[r] = log[r]
      <3>1. r # nextRun
        BY <1>2, BoundsAssumption DEF TypeOK, RunIds
      <3> QED BY <2>1, <3>1, ClaimInserts
    <2>2. CASE RowsQuiet
      BY <2>2 DEF RowsQuiet, Ends
    <2> QED BY <2>1, <2>2, RowSteps
  <1>3. nextRun' >= nextRun
    <2>1. nextRun \in Nat
      BY BoundsAssumption DEF TypeOK
    <2>2. nextRun' = nextRun \/ nextRun' = nextRun + 1
      BY RowSteps DEF RowsQuiet, Claim
    <2> QED BY <2>1, <2>2
  <1>4. ASSUME NEW v \in Workers, Holding(v)'
        PROVE  /\ job'[v].run \in RunIds /\ job'[v].run < nextRun'
               /\ log'[job'[v].run].slug = job'[v].slug
               /\ log'[job'[v].run].started >= job'[v].born
    <2>1. CASE Holding(v) /\ Keeps(v)
      <3>1. /\ job[v].run \in RunIds /\ job[v].run < nextRun
            /\ log[job[v].run].slug = job[v].slug
            /\ log[job[v].run].started >= job[v].born
        BY <2>1 DEF HoldersKnowRun
      <3>2. job[v].run < nextRun'
        BY <1>3, <3>1, BoundsAssumption DEF TypeOK, RunIds
      <3> QED BY <1>2, <2>1, <3>1, <3>2 DEF Keeps
    <2>2. CASE /\ Claim(v) /\ job'[v].run = nextRun
               /\ job'[v].slug = job[v].slug /\ job'[v].born = job[v].born
      <3>1. /\ nextRun \in RunIds /\ nextRun' = nextRun + 1
            /\ log'[nextRun].slug = job[v].slug
            /\ log'[nextRun].started = job[v].started
            /\ pc[v] = "claim"
        BY <2>2, ClaimInserts
      <3>2. job[v].born \in Nat /\ job[v].started \in Nat
        BY DEF TypeOK, Jobs
      <3>3. job[v].born <= job[v].started
        BY <3>1 DEF Lifetimes
      <3>4. nextRun < nextRun'
        BY <3>1 DEF RunIds
      <3> QED BY <2>2, <3>1, <3>2, <3>3, <3>4
    <2> QED BY <1>1, <1>4, <2>1, <2>2
  <1>5. ASSUME NEW v \in Workers, NEW w \in Workers, Holding(v)', Holding(w)',
               job'[v].run = job'[w].run, v # w
        PROVE  FALSE
    <2>1. CASE Holding(v) /\ Keeps(v) /\ Holding(w) /\ Keeps(w)
      BY <1>5, <2>1 DEF OneHolder, Keeps
    <2>2. ASSUME NEW x \in Workers, NEW y \in Workers, x # y,
                 Claim(x), job'[x].run = nextRun, Holding(y), Keeps(y),
                 job'[x].run = job'[y].run
          PROVE  FALSE
      <3>1. job[y].run < nextRun /\ job[y].run \in RunIds
        BY <2>2 DEF HoldersKnowRun
      <3> QED BY <2>2, <3>1 DEF Keeps, TypeOK, RunIds
    <2>3. ASSUME Claim(v), Claim(w), Holding(v)' PROVE FALSE
      <3>1. pc[v] = "claim" /\ pc'[v] = pc[v]
        BY <1>5, <2>3, ClaimIsOwn DEF Claim
      <3> QED BY <2>3, <3>1 DEF Holding
    <2> QED BY <1>1, <1>5, <2>1, <2>2, <2>3
  <1> QED BY <1>4, <1>5 DEF HoldersKnowRun, OneHolder

\* Every step keeps the invocations within the platform's limit.
LEMMA LifetimesOk ==
    ASSUME TypeOK, TypeOK', Lifetimes, [Next]_vars
    PROVE  Lifetimes'
  <1>1. SUFFICES ASSUME NEW v \in Workers
        PROVE  /\ pc'[v] # "idle" => /\ job'[v].born <= clock'
                                     /\ clock' <= job'[v].born + MaxDuration
               /\ pc'[v] \in {"sweep", "claim"} =>
                     /\ job'[v].born <= job'[v].started
                     /\ job'[v].started <= clock'
    BY DEF Lifetimes
  <1>2. /\ job[v].born \in Nat /\ job[v].started \in Nat /\ clock \in Nat
        /\ job'[v].born \in Nat /\ job'[v].started \in Nat /\ clock' \in Nat
        /\ MaxDuration \in Nat
    BY BoundsAssumption DEF TypeOK, Jobs
  <1>3. /\ pc[v] # "idle" => /\ job[v].born <= clock
                             /\ clock <= job[v].born + MaxDuration
        /\ pc[v] \in {"sweep", "claim"} => /\ job[v].born <= job[v].started
                                           /\ job[v].started <= clock
    BY DEF Lifetimes
  <1>4. CASE Tick
    BY <1>2, <1>3, <1>4 DEF Tick, workersUnchanged
  <1>5. CASE clock' = clock /\ pc'[v] = pc[v] /\ job'[v] = job[v]
    BY <1>3, <1>5
  <1>6. CASE clock' = clock /\ OwnStep(v)
    BY <1>2, <1>3, <1>6 DEF OwnStep, Keeps, Claim, Holding
  <1>7. clock' = clock \/ Tick
    BY DEF Next, Operator, enter_read_only, enable_writes, set_scheduler_enabled,
       set_control, recent_runs, vars, Invocation, ManualRequest, CronRequest,
       CadenceRequest, persist_cadence, prepare_schedule, Begin, interrupt_stale,
       Claim, ClaimRefused, GiveUp, capture, finish_success, finish_failure,
       Abort, recover_claim, Kill
  <1> QED BY <1>4, <1>5, <1>6, <1>7, WorkerSteps

\* The imported tables are written only by an invocation that owns its run.
LEMMA LedgerSteps ==
    ASSUME TypeOK, [Next]_vars
    PROVE  \/ ledger' = ledger
           \/ \E w \in Workers :
                /\ pc[w] = "finish" /\ Owned(w) /\ pc'[w] # "finish"
                /\ ledger' = [ledger EXCEPT ![job[w].slug] = job[w].run]
  <1>1. ASSUME NEW w \in Workers, finish_success(w), complete_success(w)
        PROVE  /\ pc[w] = "finish" /\ Owned(w) /\ pc'[w] # "finish"
               /\ ledger' = [ledger EXCEPT ![job[w].slug] = job[w].run]
    <2>1. pc'[w] # "finish"
      BY <1>1 DEF finish_success, GotoFail, Return, Leave, Goto, TypeOK
    <2> QED BY <1>1, <2>1 DEF finish_success, complete_success
  <1>2. ASSUME NEW w \in Workers, finish_success(w), ~complete_success(w)
        PROVE  ledger' = ledger
    BY <1>2 DEF finish_success
  <1>3. ASSUME NEW w \in Workers, Invocation(w), ~finish_success(w)
        PROVE  ledger' = ledger
    BY <1>3 DEF Invocation, ManualRequest, CronRequest, CadenceRequest,
       persist_cadence, prepare_schedule, Begin, interrupt_stale, Claim,
       ClaimRefused, GiveUp, capture, finish_failure, complete_error, Abort,
       recover_claim, Kill, dbUnchanged
  <1>4. CASE Operator \/ recent_runs \/ Tick \/ UNCHANGED vars
    BY <1>4 DEF Operator, enter_read_only, enable_writes, set_scheduler_enabled,
       set_control, recent_runs, Tick, dbUnchanged, vars
  <1> QED BY <1>1, <1>2, <1>3, <1>4 DEF Next

\* Every step keeps the capture of an owner newer than the last import.
LEMMA CaptureOk ==
    ASSUME TypeOK, TypeOK', RowsInOrder, OneRunning, HoldersKnowRun, OneHolder,
           CaptureIsCurrent, [Next]_vars
    PROVE  CaptureIsCurrent'
  <1> SUFFICES ASSUME NEW v \in Workers, pc'[v] = "finish", Owned(v)'
               PROVE  job'[v].base = ledger'[job'[v].slug]
    BY DEF CaptureIsCurrent
  <1>1. CASE pc[v] = "capture" /\ OwnStep(v)
    BY <1>1 DEF OwnStep, Keeps, Claim
  <1>2. CASE pc[v] = "finish" /\ job'[v] = job[v]
    <2>1. Holding(v) /\ job[v].run \in RunIds /\ job[v].run < nextRun
          /\ log[job[v].run].slug = job[v].slug
      BY <1>2 DEF Holding, HoldersKnowRun
    \* The row was running before: rows only start when they are inserted.
    <2>2. log[job[v].run].status = "running"
      <3>1. log'[job[v].run].status = "running"
        BY <1>2 DEF Owned
      <3>2. job[v].run # nextRun
        BY <2>1 DEF TypeOK, RunIds
      <3>3. \/ log'[job[v].run] = log[job[v].run]
            \/ log[job[v].run].status = "running"
        BY <2>1, <3>2, RowSteps, ClaimInserts DEF RowsQuiet, Ends
      <3> QED BY <3>1, <3>3
    <2>3. job[v].base = ledger[job[v].slug]
      BY <1>2, <2>2 DEF CaptureIsCurrent, Owned
    \* Nobody else can write the tables of this integration meanwhile.
    <2>4. ASSUME NEW w \in Workers, pc[w] = "finish", Owned(w), pc'[w] # "finish",
                 ledger' = [ledger EXCEPT ![job[w].slug] = job[w].run]
          PROVE  ledger'[job[v].slug] = ledger[job[v].slug]
      <3>1. Holding(w) /\ job[w].run \in RunIds /\ log[job[w].run].slug = job[w].slug
        BY <2>4 DEF Holding, HoldersKnowRun
      <3>2. v # w
        BY <2>4
      <3>3. job[v].run # job[w].run
        BY <2>1, <3>1, <3>2 DEF OneHolder
      <3>4. job[v].slug # job[w].slug
        BY <2>1, <2>2, <2>4, <3>1, <3>3 DEF OneRunning, Owned
      <3>5. job[v].slug \in Slugs /\ ledger \in [Slugs -> 0..MaxRuns]
        BY DEF TypeOK, Jobs
      <3> QED BY <2>4, <3>4, <3>5
    <2> QED BY <1>2, <2>3, <2>4, LedgerSteps
  <1>3. \/ pc[v] = "finish" /\ job'[v] = job[v]
        \/ pc[v] = "capture" /\ OwnStep(v)
    <2>1. CASE pc'[v] = pc[v] /\ job'[v] = job[v]
      BY <2>1
    <2>2. CASE OwnStep(v)
      BY <2>2 DEF OwnStep
    <2> QED BY <2>1, <2>2, WorkerSteps
  <1> QED BY <1>1, <1>2, <1>3

\* Rows are inserted one at a time per integration, every claimed run has one
\* holder, a capture that may still be committed is newer than every import of
\* its integration, and no invocation outlives the platform's limit.
THEOREM OwnershipHolds == Spec => [](TypeOK /\ Ownership)
  <1>1. Init => TypeOK /\ Ownership
    BY InitTypes, InitOwnership
  <1>2. TypeOK /\ Ownership /\ [Next]_vars => TypeOK' /\ Ownership'
    <2> SUFFICES ASSUME TypeOK, Ownership, [Next]_vars PROVE TypeOK' /\ Ownership'
      OBVIOUS
    <2>1. TypeOK'
      BY NextTypes
    <2> QED BY <2>1, RowsOk, HoldersOk, LifetimesOk, CaptureOk DEF Ownership
  <1> QED BY <1>1, <1>2, PTL DEF Spec

-----------------------------------------------------------------------------
(* The theorems.                                                           *)

\* The imported tables are replaced only by data fetched after the previous
\* import committed, whatever the time constants are: the fence in
\* complete_success is enough, the platform's limit is not needed.
THEOREM ImportsAreFresh == Spec => NoStaleOverwrite
  <1>1. TypeOK /\ Ownership /\ [Next]_vars =>
          [\A s \in Slugs : ledger'[s] # ledger[s] =>
             \E w \in Workers : /\ job[w].run = ledger'[s]
                                /\ job[w].base = ledger[s]]_vars
    <2> SUFFICES ASSUME TypeOK, Ownership, [Next]_vars, NEW s \in Slugs,
                        ledger'[s] # ledger[s]
                 PROVE  \E w \in Workers : /\ job[w].run = ledger'[s]
                                           /\ job[w].base = ledger[s]
      OBVIOUS
    <2>1. PICK w \in Workers :
             /\ pc[w] = "finish" /\ Owned(w)
             /\ ledger' = [ledger EXCEPT ![job[w].slug] = job[w].run]
      BY LedgerSteps
    <2>2. s = job[w].slug /\ ledger'[s] = job[w].run
      BY <2>1 DEF TypeOK
    <2>3. job[w].base = ledger[s]
      BY <2>1, <2>2 DEF Ownership, CaptureIsCurrent
    <2> QED BY <2>2, <2>3
  <1> QED BY <1>1, OwnershipHolds, PTL DEF Spec, NoStaleOverwrite

\* A run that ended keeps its row for ever.
THEOREM OutcomesAreFinal == Spec => OutcomeIsFinal
  <1>1. TypeOK /\ Ownership /\ [Next]_vars =>
          [\A r \in RunIds : log[r].status \in {"success", "error"}
                                => log'[r] = log[r]]_vars
    <2> SUFFICES ASSUME TypeOK, Ownership, [Next]_vars, NEW r \in RunIds,
                        log[r].status \in {"success", "error"}
                 PROVE  log'[r] = log[r]
      OBVIOUS
    <2>1. CASE RowsQuiet
      BY <2>1 DEF RowsQuiet, Ends
    <2>2. ASSUME NEW w \in Workers, Claim(w) PROVE log'[r] = log[r]
      BY <2>2, ClaimInserts DEF Ownership
    <2> QED BY <2>1, <2>2, RowSteps
  <1> QED BY <1>1, OwnershipHolds, PTL DEF Spec, OutcomeIsFinal

\* With the stale boundaries at or above the platform's limit, a run is never
\* interrupted under the hands of the invocation that executes it.
THEOREM LiveOwnersKeepTheirRuns ==
    ASSUME PlatformBound
    PROVE  Spec => []OwnerKeepsRun
  <1>1. Init => OwnerKeepsRun
    BY DEF Init, OwnerKeepsRun, Executing
  <1>2. TypeOK /\ Ownership /\ OwnerKeepsRun /\ [Next]_vars => OwnerKeepsRun'
    <2> SUFFICES ASSUME TypeOK, Ownership, OwnerKeepsRun, [Next]_vars,
                        NEW v \in Workers, Executing(v)'
                 PROVE  Owned(v)'
      BY DEF OwnerKeepsRun
    <2>1. \/ Executing(v) /\ Keeps(v)
          \/ Claim(v) /\ job'[v].run = nextRun
      <3>1. CASE pc'[v] = pc[v] /\ job'[v] = job[v]
        BY <3>1 DEF Executing, Keeps
      <3>2. CASE OwnStep(v)
        BY <3>2 DEF OwnStep, Executing
      <3> QED BY <3>1, <3>2, WorkerSteps
    <2>2. CASE Claim(v) /\ job'[v].run = nextRun
      BY <2>2, ClaimInserts DEF Ownership, Owned
    <2>3. CASE Executing(v) /\ Keeps(v)
      <3> DEFINE r == job[v].run
      <3>1. /\ Holding(v) /\ r \in RunIds /\ r < nextRun
            /\ log[r].slug = job[v].slug /\ log[r].started >= job[v].born
            /\ log[r].status = "running"
        BY <2>3 DEF Ownership, HoldersKnowRun, OwnerKeepsRun, Owned, Executing, Holding
      <3>2. /\ job[v].born \in Nat /\ log[r].started \in Nat /\ clock \in Nat
            /\ job[v].slug \in Slugs /\ MaxDuration \in Nat
        BY <3>1, BoundsAssumption DEF TypeOK, Jobs, Rows
      <3>3. clock <= job[v].born + MaxDuration
        BY <2>3 DEF Ownership, Lifetimes, Executing
      \* No instant up to now makes the row stale.
      <3>4. ASSUME NEW t \in Nat, t <= clock, log[r].started < t - StaleAfter[log[r].slug]
            PROVE  FALSE
        <4>1. StaleAfter[job[v].slug] \in Nat /\ MaxDuration <= StaleAfter[job[v].slug]
          BY <3>2, SlugsAssumption DEF PlatformBound
        <4> QED BY <3>1, <3>2, <3>3, <3>4, <4>1
      <3>5. log'[r] = log[r]
        <4>1. ASSUME NEW w \in Workers, OwnerEnds(w), log'[r] # log[r] PROVE FALSE
          <5>1. w = v
            BY <3>1, <4>1 DEF OwnerEnds, Ownership, OneHolder
          <5> QED BY <4>1, <5>1 DEF OwnerEnds, Executing
        <4>2. ASSUME NEW w \in Workers, pc[w] = "sweep",
                     SweepEnds(job[w].slug, job[w].started), log'[r] # log[r]
              PROVE  FALSE
          <5>1. job[w].started \in Nat /\ job[w].started <= clock
            BY <4>2 DEF TypeOK, Jobs, Ownership, Lifetimes
          <5> QED BY <3>1, <3>4, <4>2, <5>1 DEF SweepEnds
        <4>3. ASSUME SweepEnds("tmo", clock), log'[r] # log[r] PROVE FALSE
          BY <3>1, <3>2, <3>4, <4>3 DEF SweepEnds
        <4>4. ASSUME NEW w \in Workers, Claim(w) PROVE log'[r] = log[r]
          <5>1. r # nextRun
            BY <3>1 DEF TypeOK, RunIds
          <5> QED BY <3>1, <4>4, <5>1, ClaimInserts DEF Ownership
        <4> QED BY <4>1, <4>2, <4>3, <4>4, RowSteps
      <3> QED BY <2>3, <3>1, <3>5 DEF Owned, Keeps
    <2> QED BY <2>1, <2>2, <2>3
  <1> QED BY <1>1, <1>2, OwnershipHolds, PTL DEF Spec

\* Mutual exclusion of live invocations on one integration, for every set of
\* invocations, under the same condition on the deployment.
THEOREM RunsExclude ==
    ASSUME PlatformBound
    PROVE  Spec => []NoOverlap
  <1>1. TypeOK /\ Ownership /\ OwnerKeepsRun => NoOverlap
    <2> SUFFICES ASSUME TypeOK, Ownership, OwnerKeepsRun,
                        NEW v \in Workers, NEW w \in Workers, v # w,
                        Executing(v), Executing(w), job[v].slug = job[w].slug
                 PROVE  FALSE
      BY DEF NoOverlap
    <2>1. Holding(v) /\ Holding(w)
      BY DEF Executing, Holding
    <2>2. /\ job[v].run \in RunIds /\ job[w].run \in RunIds
          /\ log[job[v].run].slug = log[job[w].run].slug
          /\ log[job[v].run].status = "running" /\ log[job[w].run].status = "running"
      BY <2>1 DEF Ownership, HoldersKnowRun, OwnerKeepsRun, Owned
    <2>3. job[v].run = job[w].run
      BY <2>2 DEF Ownership, OneRunning
    <2> QED BY <2>1, <2>3 DEF Ownership, OneHolder
  <1> QED BY <1>1, OwnershipHolds, LiveOwnersKeepTheirRuns, PTL
-----------------------------------------------------------------------------
(* The history of the log.                                                 *)

\* A running row is the newest of its integration: nothing is claimed while
\* it runs.
RunningIsNewest ==
    \A q, r \in RunIds :
        /\ log[q].status = "running" /\ log[r].status # "none"
        /\ log[r].slug = log[q].slug
        => r <= q

\* A step that ends no run with success and changes no connection's status.
NoOutcome == /\ ledger' = ledger
             /\ \A s \in Slugs : conn'[s].status = conn[s].status
             /\ \A r \in RunIds : log'[r].status = "success" => log'[r] = log[r]

\* The owner of a running row commits its import, or records its failure.
Commits(w) ==
    /\ Holding(w) /\ Owned(w)
    /\ log'[job[w].run].status = "success"
    /\ ledger' = [ledger EXCEPT ![job[w].slug] = job[w].run]
    /\ \A s \in Slugs : /\ s = job[w].slug => conn'[s].status = "ok"
                        /\ s # job[w].slug => conn'[s].status = conn[s].status
    /\ RowsQuiet /\ \A r \in RunIds : log'[r] # log[r] => r = job[w].run
Fails(w) ==
    /\ Holding(w) /\ Owned(w)
    /\ log'[job[w].run].status = "error"
    /\ ledger' = ledger
    /\ \A s \in Slugs : s # job[w].slug => conn'[s].status = conn[s].status
    /\ RowsQuiet /\ \A r \in RunIds : log'[r] # log[r] => r = job[w].run

\* The status SetStatus assigns.
LEMMA SetStatusGives ==
    ASSUME TypeOK, NEW r \in RunIds, NEW st, SetStatus(r, st)
    PROVE  log'[r].status = st
  <1>1. log[r] \in Rows /\ DOMAIN log = RunIds
    BY DEF TypeOK
  <1>2. log' = [log EXCEPT ![r] = [log[r] EXCEPT !.status = st]]
    BY DEF SetStatus
  <1>3. log'[r] = [log[r] EXCEPT !.status = st]
    BY <1>1, <1>2
  <1> QED BY <1>1, <1>3 DEF Rows

\* Assigning the status of a connection leaves the others alone.
LEMMA StatusGives ==
    ASSUME TypeOK, NEW w \in Workers, NEW x \in Slugs
    PROVE  /\ conn' = [conn EXCEPT ![job[w].slug].status = "ok"] =>
                /\ x = job[w].slug => conn'[x].status = "ok"
                /\ x # job[w].slug => conn'[x].status = conn[x].status
           /\ conn' = [conn EXCEPT ![job[w].slug].status = "error"] =>
                (x # job[w].slug => conn'[x].status = conn[x].status)
  <1>1. conn[x] \in Connections /\ DOMAIN conn = Slugs
    BY DEF TypeOK
  <1>2. ASSUME conn' = [conn EXCEPT ![job[w].slug].status = "ok"], x = job[w].slug
        PROVE  conn'[x].status = "ok"
    <2>1. conn'[x] = [conn[x] EXCEPT !.status = "ok"]
      BY <1>1, <1>2
    <2> QED BY <1>1, <2>1 DEF Connections
  <1>3. ASSUME x # job[w].slug,
               \/ conn' = [conn EXCEPT ![job[w].slug].status = "ok"]
               \/ conn' = [conn EXCEPT ![job[w].slug].status = "error"]
        PROVE  conn'[x].status = conn[x].status
    BY <1>1, <1>3
  <1> QED BY <1>2, <1>3

\* The settings form and cron change the slot and the cadence of a connection,
\* never its status; the slot they record is computed from that cadence.
LEMMA ScheduleSteps ==
    ASSUME TypeOK, NEW w \in Workers, persist_cadence(w) \/ prepare_schedule(w)
    PROVE  \A s \in Slugs :
             /\ conn'[s].status = conn[s].status
             /\ \/ conn'[s] = conn[s]
                \/ conn'[s].next = next_slot(conn'[s].cadence, job[w].born)
  <1> SUFFICES ASSUME NEW s \in Slugs
               PROVE  /\ conn'[s].status = conn[s].status
                      /\ \/ conn'[s] = conn[s]
                         \/ conn'[s].next = next_slot(conn'[s].cadence, job[w].born)
    OBVIOUS
  <1>1. conn[s] \in Connections /\ DOMAIN conn = Slugs /\ job[w].slug \in Slugs
    BY DEF TypeOK, Jobs
  <1>2. CASE persist_cadence(w)
    <2>1. ASSUME NEW c \in Cadences,
                 conn' = [conn EXCEPT !["tmo"].cadence = c,
                                      !["tmo"].next = next_slot(c, job[w].born)]
          PROVE  /\ conn'[s].status = conn[s].status
                 /\ \/ conn'[s] = conn[s]
                    \/ conn'[s].next = next_slot(conn'[s].cadence, job[w].born)
      <3>1. CASE s = "tmo"
        <4>1. conn'[s] = [conn[s] EXCEPT !.cadence = c,
                                         !.next = next_slot(c, job[w].born)]
          BY <1>1, <2>1, <3>1 DEF Connections
        <4>2. /\ conn'[s].cadence = c /\ conn'[s].next = next_slot(c, job[w].born)
              /\ conn'[s].status = conn[s].status
          BY <1>1, <4>1 DEF Connections
        <4> QED BY <4>2
      <3>2. CASE s # "tmo"
        BY <1>1, <2>1, <3>2
      <3> QED BY <3>1, <3>2
    <2> QED BY <1>2, <2>1 DEF persist_cadence
  <1>3. CASE prepare_schedule(w)
    <2>1. ASSUME conn' = [conn EXCEPT ![job[w].slug].next =
                                  next_slot(conn[job[w].slug].cadence, job[w].born)]
          PROVE  /\ conn'[s].status = conn[s].status
                 /\ \/ conn'[s] = conn[s]
                    \/ conn'[s].next = next_slot(conn'[s].cadence, job[w].born)
      <3>1. CASE s = job[w].slug
        <4>1. conn'[s] = [conn[s] EXCEPT !.next = next_slot(conn[s].cadence, job[w].born)]
          BY <1>1, <2>1, <3>1
        <4>2. /\ conn'[s].cadence = conn[s].cadence
              /\ conn'[s].next = next_slot(conn[s].cadence, job[w].born)
              /\ conn'[s].status = conn[s].status
          BY <1>1, <4>1 DEF Connections
        <4> QED BY <4>2
      <3>2. CASE s # job[w].slug
        BY <1>1, <2>1, <3>2
      <3> QED BY <3>1, <3>2
    <2> QED BY <1>3, <2>1 DEF prepare_schedule
  <1> QED BY <1>2, <1>3

\* A sweep ends no run with success.
LEMMA SweepFails ==
    ASSUME TypeOK, NEW s, NEW t, log' = Interrupted(StaleAt(s, t)),
           NEW r \in RunIds, log'[r].status = "success"
    PROVE  log'[r] = log[r]
  <1>1. log[r] \in Rows
    BY DEF TypeOK
  <1>2. CASE r \in StaleAt(s, t)
    <2>1. log'[r] = [log[r] EXCEPT !.status = "error"]
      BY <1>2 DEF Interrupted
    <2> QED BY <1>1, <2>1 DEF Rows
  <1>3. CASE r \notin StaleAt(s, t)
    BY <1>3 DEF Interrupted
  <1> QED BY <1>2, <1>3

\* The log, the imported tables and the statuses change together.
LEMMA OutcomeSteps ==
    ASSUME TypeOK, RowsInOrder, HoldersKnowRun, [Next]_vars
    PROVE  NoOutcome \/ \E w \in Workers : Commits(w) \/ Fails(w)
  <1>1. CASE Operator \/ Tick \/ UNCHANGED vars
    BY <1>1 DEF Operator, enter_read_only, enable_writes, set_scheduler_enabled,
       set_control, Tick, dbUnchanged, vars, NoOutcome
  <1>2. CASE recent_runs
    BY <1>2, SweepFails DEF recent_runs, NoOutcome
  <1>3. ASSUME NEW w \in Workers, Invocation(w)
        PROVE  NoOutcome \/ Commits(w) \/ Fails(w)
    <2>0. job[w] \in Jobs /\ job[w].slug \in Slugs
      BY DEF TypeOK, Jobs
    <2>1. CASE \/ \E s \in Slugs : ManualRequest(w, s)
               \/ CronRequest(w) \/ CadenceRequest(w) \/ Begin(w)
               \/ ClaimRefused(w) \/ GiveUp(w) \/ capture(w) \/ Abort(w) \/ Kill(w)
      BY <2>1 DEF ManualRequest, CronRequest, CadenceRequest, Begin, ClaimRefused,
         GiveUp, capture, Abort, Kill, dbUnchanged, NoOutcome
    <2>2. CASE persist_cadence(w) \/ prepare_schedule(w)
      <3>1. log' = log /\ ledger' = ledger
        BY <2>2 DEF persist_cadence, prepare_schedule
      <3> QED BY <2>2, <3>1, ScheduleSteps DEF NoOutcome
    <2>3. CASE interrupt_stale(w)
      BY <2>3, SweepFails DEF interrupt_stale, NoOutcome
    <2>4. CASE Claim(w)
      <3>1. \A r \in RunIds : log'[r].status = "success" => log'[r] = log[r]
        BY <2>4, ClaimInserts
      <3>2. conn' = conn /\ ledger' = ledger
        BY <2>4 DEF Claim
      <3> QED BY <3>1, <3>2 DEF NoOutcome
    <2>5. CASE finish_success(w)
      <3>1. CASE complete_success(w)
        <4>1. Holding(w) /\ job[w].run \in RunIds
          BY <2>5 DEF finish_success, Holding, HoldersKnowRun
        <4>2. log'[job[w].run].status = "success"
          BY <3>1, <4>1, SetStatusGives DEF complete_success
        <4>3. RowsQuiet /\ \A r \in RunIds : log'[r] # log[r] => r = job[w].run
          BY <2>5, <3>1, SetStatusEnds DEF finish_success, complete_success
        <4>4. \A s \in Slugs :
                /\ s = job[w].slug => conn'[s].status = "ok"
                /\ s # job[w].slug => conn'[s].status = conn[s].status
          <5>1. conn' = [conn EXCEPT ![job[w].slug].status = "ok"]
            BY <3>1 DEF complete_success
          <5> QED BY <5>1, StatusGives
        <4> QED BY <3>1, <4>1, <4>2, <4>3, <4>4 DEF complete_success, Commits
      <3>2. CASE UNCHANGED <<log, ledger, conn>>
        BY <3>2 DEF NoOutcome
      <3> QED BY <2>5, <3>1, <3>2 DEF finish_success
    <2>6. CASE finish_failure(w) \/ recover_claim(w)
      <3>1. CASE dbUnchanged
        BY <3>1 DEF dbUnchanged, NoOutcome
      <3>2. CASE complete_error(w) /\ (mark_error(w) \/ UNCHANGED conn)
        <4>1. Holding(w) /\ job[w].run \in RunIds
          BY <2>6 DEF finish_failure, recover_claim, Holding, HoldersKnowRun
        <4>2. log'[job[w].run].status = "error"
          BY <3>2, <4>1, SetStatusGives DEF complete_error
        <4>3. RowsQuiet /\ \A r \in RunIds : log'[r] # log[r] => r = job[w].run
          BY <3>2, SetStatusEnds DEF complete_error
        <4>4. \A s \in Slugs : s # job[w].slug => conn'[s].status = conn[s].status
          BY <2>0, <3>2, StatusGives DEF mark_error
        <4> QED BY <3>2, <4>1, <4>2, <4>3, <4>4 DEF complete_error, Fails
      <3> QED BY <2>6, <3>1, <3>2 DEF finish_failure, recover_claim
    <2> QED BY <1>3, <2>1, <2>2, <2>3, <2>4, <2>5, <2>6 DEF Invocation
  <1> QED BY <1>1, <1>2, <1>3 DEF Next

\* Every step keeps the running rows the newest.
LEMMA NewestOk ==
    ASSUME TypeOK, RowsInOrder, RunningIsNewest, [Next]_vars
    PROVE  RunningIsNewest'
  <1>1. CASE RowsQuiet
    BY <1>1 DEF RowsQuiet, Ends, RunningIsNewest
  <1>2. ASSUME NEW w \in Workers, Claim(w) PROVE RunningIsNewest'
    <2> SUFFICES ASSUME NEW q \in RunIds, NEW r \in RunIds,
                        log'[q].status = "running", log'[r].status # "none",
                        log'[r].slug = log'[q].slug
                 PROVE  r <= q
      BY DEF RunningIsNewest
    <2>1. /\ nextRun \in RunIds
          /\ log'[nextRun].slug = job[w].slug
          /\ \A i \in RunIds : i # nextRun => log'[i] = log[i]
          /\ \A i \in RunIds : ~(log[i].status = "running" /\ log[i].slug = job[w].slug)
      BY <1>2, ClaimInserts
    <2>2. CASE q = nextRun
      BY <2>1, <2>2 DEF RowsInOrder, RunIds
    <2>3. CASE q # nextRun
      <3>1. r # nextRun
        BY <2>1, <2>3
      <3> QED BY <2>1, <2>3, <3>1 DEF RunningIsNewest
    <2> QED BY <2>2, <2>3
  <1>3. CASE log' = log
    BY <1>3 DEF RunningIsNewest
  <1> QED BY <1>1, <1>2, <1>3, RowSteps

\* The rows that exist keep their slug, slot and start, and a row that ended
\* keeps its status.
LEMMA RowsPersist ==
    ASSUME TypeOK, RowsInOrder, [Next]_vars, NEW r \in RunIds,
           log[r].status # "none"
    PROVE  /\ log'[r].slug = log[r].slug /\ log'[r].slot = log[r].slot
           /\ log'[r].started = log[r].started
           /\ log'[r].status # "none"
           /\ log[r].status \in {"success", "error"} => log'[r] = log[r]
  <1>1. CASE RowsQuiet
    BY <1>1 DEF RowsQuiet, Ends
  <1>2. ASSUME NEW w \in Workers, Claim(w) PROVE log'[r] = log[r]
    BY <1>2, ClaimInserts
  <1> QED BY <1>1, <1>2, RowSteps

\* A run that is new or whose status is new is no older than a running row.
LEMMA OwnerIsNewest ==
    ASSUME TypeOK, RunningIsNewest, HoldersKnowRun, NEW w \in Workers,
           Holding(w), Owned(w), NEW r \in RunIds,
           log[r].status # "none", log[r].slug = job[w].slug
    PROVE  r <= job[w].run
  BY DEF RunningIsNewest, HoldersKnowRun, Owned

\* Every step keeps the imported tables those of the last success and the
\* status of the connection explained by the log.
LEMMA ImportOk ==
    ASSUME TypeOK, RowsInOrder, HoldersKnowRun, RunningIsNewest, ImportMatchesLog,
           [Next]_vars
    PROVE  ImportMatchesLog'
  <1> SUFFICES ASSUME NEW s \in Slugs
               PROVE  /\ ledger'[s] \in Successes(s)' \cup {0}
                      /\ \A r \in Successes(s)' : r <= ledger'[s]
                      /\ conn'[s].status = "error" =>
                            \E r \in RunIds : /\ r > ledger'[s]
                                              /\ log'[r].slug = s
                                              /\ log'[r].status = "error"
    BY DEF ImportMatchesLog
  <1>1. /\ ledger[s] \in Successes(s) \cup {0}
        /\ \A r \in RunIds : log[r].slug = s /\ log[r].status = "success" => r <= ledger[s]
        /\ conn[s].status = "error" =>
              \E r \in RunIds : /\ r > ledger[s]
                                /\ log[r].slug = s /\ log[r].status = "error"
    BY DEF ImportMatchesLog, Successes
  <1>2. \A r \in RunIds : log[r].status \in {"success", "error"} => log'[r] = log[r]
    BY RowsPersist
  \* What was a success of this integration still is.
  <1>3. Successes(s) \subseteq Successes(s)'
    BY <1>2 DEF Successes
  <1>4. ledger \in [Slugs -> 0..MaxRuns] /\ MaxRuns \in Nat
    BY BoundsAssumption DEF TypeOK
  <1>5. CASE NoOutcome
    <2>1. ledger'[s] = ledger[s] /\ conn'[s].status = conn[s].status
      BY <1>5 DEF NoOutcome
    <2>2. \A r \in Successes(s)' : r <= ledger[s]
      BY <1>1, <1>5 DEF NoOutcome, Successes
    <2>3. conn[s].status = "error" =>
              \E r \in RunIds : /\ r > ledger[s]
                                /\ log'[r].slug = s /\ log'[r].status = "error"
      BY <1>1, <1>2
    <2> QED BY <1>1, <1>3, <2>1, <2>2, <2>3
  <1>6. ASSUME NEW w \in Workers, Commits(w) \/ Fails(w)
        PROVE  /\ ledger'[s] \in Successes(s)' \cup {0}
               /\ \A r \in Successes(s)' : r <= ledger'[s]
               /\ conn'[s].status = "error" =>
                     \E r \in RunIds : /\ r > ledger'[s]
                                       /\ log'[r].slug = s /\ log'[r].status = "error"
    <2>1. /\ Holding(w) /\ Owned(w) /\ job[w].run \in RunIds
          /\ log[job[w].run].slug = job[w].slug /\ log[job[w].run].status = "running"
          /\ log'[job[w].run].slug = job[w].slug
      BY <1>6, RowsPersist DEF Commits, Fails, HoldersKnowRun, Owned
    <2>2. \A r \in RunIds : r # job[w].run => log'[r] = log[r]
      BY <1>6 DEF Commits, Fails
    <2>3. CASE s # job[w].slug
      <3>1. Successes(s)' = Successes(s)
        BY <2>1, <2>2, <2>3 DEF Successes
      <3>2. ledger'[s] = ledger[s] /\ conn'[s].status = conn[s].status
        BY <1>4, <1>6, <2>3 DEF Commits, Fails
      <3>3. \A r \in Successes(s)' : r <= ledger[s]
        BY <1>1, <3>1 DEF Successes
      <3>4. conn[s].status = "error" =>
              \E r \in RunIds : /\ r > ledger[s]
                                /\ log'[r].slug = s /\ log'[r].status = "error"
        BY <1>1, <1>2
      <3> QED BY <1>1, <3>1, <3>2, <3>3, <3>4
    <2>4. CASE s = job[w].slug /\ Commits(w)
      <3>1. ledger'[s] = job[w].run /\ conn'[s].status = "ok"
        BY <1>4, <2>4 DEF Commits
      <3>2. job[w].run \in Successes(s)'
        BY <2>1, <2>4 DEF Commits, Successes
      <3>3. ASSUME NEW r \in Successes(s)' PROVE r <= job[w].run
        <4>1. r \in RunIds /\ log'[r].slug = s /\ log'[r].status = "success"
          BY <3>3 DEF Successes
        <4>2. CASE r = job[w].run
          BY <4>1, <4>2 DEF RunIds
        <4>3. CASE r # job[w].run
          <5>1. log[r].slug = s /\ log[r].status # "none"
            BY <2>2, <4>1, <4>3
          <5> QED BY <2>1, <2>4, <4>1, <5>1, OwnerIsNewest
        <4> QED BY <4>2, <4>3
      <3> QED BY <3>1, <3>2, <3>3
    <2>5. CASE s = job[w].slug /\ Fails(w)
      <3>1. ledger'[s] = ledger[s]
        BY <2>5 DEF Fails
      <3>2. \A r \in Successes(s)' : r <= ledger[s]
        BY <1>1, <2>1, <2>2, <2>5 DEF Fails, Successes
      \* The run that fails was claimed after the last import.
      <3>3. job[w].run > ledger[s]
        <4>1. CASE ledger[s] = 0
          BY <2>1, <4>1 DEF RunIds
        <4>2. CASE ledger[s] \in Successes(s)
          <5>1. /\ ledger[s] \in RunIds /\ log[ledger[s]].slug = s
                /\ log[ledger[s]].status = "success"
            BY <4>2 DEF Successes
          <5>2. ledger[s] <= job[w].run
            BY <2>1, <2>5, <5>1, OwnerIsNewest
          <5>3. ledger[s] # job[w].run
            BY <2>1, <5>1
          <5> QED BY <2>1, <5>1, <5>2, <5>3 DEF RunIds
        <4> QED BY <1>1, <4>1, <4>2
      <3>4. log'[job[w].run].slug = s /\ log'[job[w].run].status = "error"
        BY <2>1, <2>5 DEF Fails
      <3> QED BY <1>1, <1>3, <2>1, <3>1, <3>2, <3>3, <3>4
    <2> QED BY <1>6, <2>3, <2>4, <2>5
  <1> QED BY <1>5, <1>6, OutcomeSteps

\* Every step keeps the covered slots from being run again.
LEMMA CoveredOk ==
    ASSUME TypeOK, RowsInOrder, RunningIsNewest, CoveredSlotNotRepeated, [Next]_vars
    PROVE  CoveredSlotNotRepeated'
  <1> SUFFICES ASSUME NEW q \in RunIds, NEW r \in RunIds, q < r,
                      log'[r].status # "none", log'[r].slot # NoSlot,
                      log'[q].slug = log'[r].slug, log'[q].status = "success"
               PROVE  log'[q].started < log'[r].slot
    BY DEF CoveredSlotNotRepeated
  <1>1. CASE RowsQuiet
    <2>1. /\ log'[q].slug = log[q].slug /\ log'[q].started = log[q].started
          /\ log'[r].slug = log[r].slug /\ log'[r].slot = log[r].slot
          /\ log[r].status # "none"
      BY <1>1 DEF RowsQuiet, Ends
    <2>2. CASE log[q].status = "success"
      BY <2>1, <2>2 DEF CoveredSlotNotRepeated
    <2>3. CASE log[q].status = "running"
      <3>1. r <= q
        BY <2>1, <2>3 DEF RunningIsNewest
      <3> QED BY <3>1 DEF RunIds
    <2> QED BY <1>1, <2>2, <2>3 DEF RowsQuiet, Ends
  <1>2. ASSUME NEW w \in Workers, Claim(w)
        PROVE  log'[q].started < log'[r].slot
    <2>1. /\ nextRun \in RunIds /\ log'[nextRun].status = "running"
          /\ log'[nextRun].slug = job[w].slug /\ log'[nextRun].slot = job[w].slot
          /\ \A i \in RunIds : i # nextRun => log'[i] = log[i]
      BY <1>2, ClaimInserts
    <2>2. q # nextRun /\ log'[q] = log[q]
      BY <2>1
    <2>3. CASE r # nextRun
      BY <2>1, <2>2, <2>3 DEF CoveredSlotNotRepeated
    <2>4. CASE r = nextRun
      <3>1. job[w].slot # NoSlot /\ log[q].slug = job[w].slug /\ log[q].status = "success"
        BY <2>1, <2>2, <2>4
      <3>2. Covering(job[w].slug, job[w].slot) = {}
        BY <1>2, <3>1 DEF Claim, Inserts, claim_scheduled
      <3>3. ~(log[q].started >= job[w].slot)
        BY <3>1, <3>2 DEF Covering
      <3>4. log[q].started \in Nat /\ job[w].slot \in Int
        BY <3>1 DEF TypeOK, Rows, Jobs, Slots
      <3> QED BY <2>1, <2>2, <2>4, <3>3, <3>4
    <2> QED BY <2>3, <2>4
  <1>3. CASE log' = log
    BY <1>3 DEF CoveredSlotNotRepeated
  <1> QED BY <1>1, <1>2, <1>3, RowSteps

\* No slot of an integration has more rows than there are attempts.
AttemptsBounded ==
    \A s \in Slugs, slot \in Int : Cardinality(ForSlot(s, slot)) <= MaxAttempts

\* The rows of a slot are finitely many.
LEMMA ForSlotFinite ==
    ASSUME NEW s, NEW slot
    PROVE  /\ IsFiniteSet(ForSlot(s, slot)) /\ Cardinality(ForSlot(s, slot)) \in Nat
           /\ IsFiniteSet(FailedAttempts(s, slot))
           /\ Cardinality(FailedAttempts(s, slot)) \in Nat
  <1>1. IsFiniteSet(RunIds)
    BY BoundsAssumption, FS_Interval DEF RunIds
  <1>2. ForSlot(s, slot) \subseteq RunIds /\ FailedAttempts(s, slot) \subseteq RunIds
    BY DEF ForSlot, FailedAttempts
  <1> QED BY <1>1, <1>2, FS_Subset, FS_CardinalityType

\* A slot that may be claimed has only failed attempts.
LEMMA ClaimableHasFailed ==
    ASSUME TypeOK, NEW s \in Slugs, NEW slot, claim_scheduled(s, slot)
    PROVE  /\ ForSlot(s, slot) = FailedAttempts(s, slot)
           /\ Cardinality(ForSlot(s, slot)) < MaxAttempts
  <1>1. ASSUME NEW r \in ForSlot(s, slot) PROVE log[r].status = "error"
    <2>1. r \in RunIds /\ log[r].status # "none"
      BY DEF ForSlot
    <2>2. log[r].status \in Statuses
      BY <2>1 DEF TypeOK, Rows
    <2>3. log[r].status \notin {"running", "success"}
      BY DEF claim_scheduled, SlotConflict
    <2> QED BY <2>1, <2>2, <2>3 DEF Statuses
  <1>2. ForSlot(s, slot) = FailedAttempts(s, slot)
    BY <1>1 DEF FailedAttempts
  <1> QED BY <1>2 DEF claim_scheduled

\* Every step keeps the attempts of a slot bounded.
LEMMA AttemptsOk ==
    ASSUME TypeOK, TypeOK', RowsInOrder, AttemptsBounded, [Next]_vars
    PROVE  AttemptsBounded'
  <1> SUFFICES ASSUME NEW s \in Slugs, NEW slot \in Int
               PROVE  Cardinality(ForSlot(s, slot)') <= MaxAttempts
    BY DEF AttemptsBounded
  <1>0. Cardinality(ForSlot(s, slot)) <= MaxAttempts
    BY DEF AttemptsBounded
  <1>1. CASE RowsQuiet
    <2>1. ForSlot(s, slot)' = ForSlot(s, slot)
      BY <1>1 DEF RowsQuiet, Ends, ForSlot
    <2> QED BY <1>0, <2>1
  <1>2. ASSUME NEW w \in Workers, Claim(w)
        PROVE  Cardinality(ForSlot(s, slot)') <= MaxAttempts
    <2>1. /\ nextRun \in RunIds /\ log[nextRun].status = "none"
          /\ log'[nextRun].status = "running"
          /\ log'[nextRun].slug = job[w].slug /\ log'[nextRun].slot = job[w].slot
          /\ \A i \in RunIds : i # nextRun => log'[i] = log[i]
      BY <1>2, ClaimInserts
    <2>2. CASE job[w].slug = s /\ job[w].slot = slot
      <3>1. slot # NoSlot
        BY NoSlotAssumption
      <3>2. claim_scheduled(s, slot)
        BY <1>2, <2>2, <3>1 DEF Claim, Inserts
      <3>3. Cardinality(ForSlot(s, slot)) < MaxAttempts
        BY <3>2, ClaimableHasFailed
      <3>4. ForSlot(s, slot)' = ForSlot(s, slot) \cup {nextRun} /\ nextRun \notin ForSlot(s, slot)
        BY <2>1, <2>2 DEF ForSlot
      <3>5. Cardinality(ForSlot(s, slot) \cup {nextRun}) = Cardinality(ForSlot(s, slot)) + 1
        BY <3>4, ForSlotFinite, FS_AddElement
      <3>6. Cardinality(ForSlot(s, slot)) \in Nat
        BY ForSlotFinite
      <3> QED BY <3>3, <3>4, <3>5, <3>6, BoundsAssumption
    <2>3. CASE ~(job[w].slug = s /\ job[w].slot = slot)
      <3>1. ForSlot(s, slot)' = ForSlot(s, slot)
        BY <2>1, <2>3 DEF ForSlot
      <3> QED BY <1>0, <3>1
    <2> QED BY <2>2, <2>3
  <1>3. CASE log' = log
    BY <1>0, <1>3 DEF ForSlot
  <1> QED BY <1>1, <1>2, <1>3, RowSteps

\* The invariant about the history of the log.
LogHistory == /\ RunningIsNewest /\ ImportMatchesLog /\ CoveredSlotNotRepeated
              /\ AttemptsBounded

\* The history of the log: a running row is the newest of its integration,
\* the imported tables are those of the last success, no covered slot is run
\* again and no slot has more rows than attempts.
THEOREM HistoryHolds == Spec => [](TypeOK /\ Ownership /\ LogHistory)
  <1>1. Init => LogHistory
    <2> SUFFICES ASSUME Init PROVE LogHistory
      OBVIOUS
    <2>1. /\ \A r \in RunIds : log[r].status = "none"
          /\ \A s \in Slugs : ledger[s] = 0 /\ conn[s].status = "ok"
      BY DEF Init, NoRun
    <2>2. RunningIsNewest /\ CoveredSlotNotRepeated
      BY <2>1 DEF RunningIsNewest, CoveredSlotNotRepeated
    <2>3. ImportMatchesLog
      BY <2>1 DEF ImportMatchesLog, Successes
    <2>4. ASSUME NEW s \in Slugs, NEW slot \in Int
          PROVE  Cardinality(ForSlot(s, slot)) <= MaxAttempts
      <3>1. ForSlot(s, slot) = {}
        BY <2>1 DEF ForSlot
      <3> QED BY <3>1, FS_EmptySet, BoundsAssumption
    <2> QED BY <2>2, <2>3, <2>4 DEF LogHistory, AttemptsBounded
  <1>2. TypeOK /\ TypeOK' /\ Ownership /\ LogHistory /\ [Next]_vars => LogHistory'
    BY NewestOk, ImportOk, CoveredOk, AttemptsOk DEF LogHistory, Ownership
  <1> QED BY <1>1, <1>2, OwnershipHolds, PTL DEF Spec

\* The imported tables, the status of the connection and the log agree after
\* every step, also when the answer to a commit is lost.
THEOREM ImportsMatchTheLog == Spec => []ImportMatchesLog
  <1>1. LogHistory => ImportMatchesLog
    BY DEF LogHistory
  <1> QED BY <1>1, HistoryHolds, PTL

\* No scheduled run follows a success that covers its slot.
THEOREM CoveredSlotsAreNotRepeated == Spec => []CoveredSlotNotRepeated
  <1>1. LogHistory => CoveredSlotNotRepeated
    BY DEF LogHistory
  <1> QED BY <1>1, HistoryHolds, PTL

\* A scheduled slot is attempted at most MaxAttempts times, whoever records
\* the failures.
THEOREM AttemptsAreBounded == Spec => []SlotAttemptsBounded
  <1>1. TypeOK /\ LogHistory => SlotAttemptsBounded
    BY DEF LogHistory, AttemptsBounded, SlotAttemptsBounded, TypeOK, Rows, Slots
  <1> QED BY <1>1, HistoryHolds, PTL

\* In read-only mode no run starts and none is interrupted: a row changes only
\* by the hand of the live invocation that owns it.
THEOREM FreezeAlwaysStopsClaims == Spec => FreezeStopsClaims
  <1>1. TypeOK /\ [Next]_vars =>
          [control.mode = "read_only" =>
             \A r \in RunIds : log'[r] # log[r] =>
                /\ log[r].status = "running"
                /\ \E w \in Workers : job[w].run = r /\ pc[w] # "idle"]_vars
    <2> SUFFICES ASSUME TypeOK, [Next]_vars, control.mode = "read_only",
                        NEW r \in RunIds, log'[r] # log[r]
                 PROVE  /\ log[r].status = "running"
                        /\ \E w \in Workers : job[w].run = r /\ pc[w] # "idle"
      OBVIOUS
    <2>1. ~WritesEnabled
      BY DEF WritesEnabled
    <2>2. ASSUME NEW w \in Workers PROVE ~Claim(w)
      BY <2>1 DEF Claim, Inserts, claim_manual, claim_scheduled, SchedulerEnabled
    <2>3. RowsQuiet /\ \E w \in Workers : OwnerEnds(w)
      BY <2>1, <2>2, RowSteps
    <2> QED BY <2>3 DEF RowsQuiet, Ends, OwnerEnds, Holding
  <1> QED BY <1>1, TypeCorrect, PTL DEF Spec, FreezeStopsClaims

\* The claim of a slot is refused without an explanation only if no attempt at
\* all were allowed.
THEOREM RefusalsAreExplained ==
    ASSUME MaxAttempts > 0
    PROVE  Spec => []RefusalIsExplained
  <1>1. TypeOK => RefusalIsExplained
    <2> SUFFICES ASSUME TypeOK, NEW w \in Workers, ~Inserts(w),
                        Refusal(w) = "Coordination"
                 PROVE  FALSE
      BY DEF RefusalIsExplained
    <2> DEFINE s == job[w].slug
               slot == job[w].slot
    <2>1. /\ WritesEnabled /\ s \in Connected /\ ~RunningConflict(s)
          /\ slot # NoSlot => control.scheduler /\ Covering(s, slot) = {}
                              /\ ForSlot(s, slot) = {}
      BY DEF Refusal
    <2>2. slot # NoSlot
      BY <2>1 DEF Inserts, claim_manual
    <2>3. FailedAttempts(s, slot) = {} /\ ~SlotConflict(s, slot)
      BY <2>1, <2>2 DEF FailedAttempts, SlotConflict
    <2>4. Cardinality(FailedAttempts(s, slot)) < MaxAttempts
      BY <2>3, FS_EmptySet, BoundsAssumption
    <2> QED BY <2>1, <2>2, <2>3, <2>4 DEF Inserts, claim_scheduled, SchedulerEnabled
  <1> QED BY <1>1, TypeCorrect, PTL

\* The slot computed for a cadence is on its grid, or there is none.
LEMMA NextSlotOnGrid ==
    ASSUME NEW c \in CadenceValues, NEW t \in Int, next_slot(c, t) # NoSlot
    PROVE  c \in Scheduled /\ IsSlot(c, next_slot(c, t))
  <1>1. c \in Scheduled
    BY DEF next_slot
  <1> QED BY <1>1, SlotBracketsNow

\* The schedule of a connection is kept, or a slot of its new cadence is
\* recorded.
LEMMA ConnSteps ==
    ASSUME TypeOK, [Next]_vars, NEW s \in Slugs
    PROVE  \/ conn'[s].cadence = conn[s].cadence /\ conn'[s].next = conn[s].next
           \/ \E w \in Workers : conn'[s].next = next_slot(conn'[s].cadence, job[w].born)
  <1>0. conn[s] \in Connections /\ DOMAIN conn = Slugs
    BY DEF TypeOK
  <1>1. CASE Operator \/ Tick \/ recent_runs \/ UNCHANGED vars
    BY <1>1 DEF Operator, enter_read_only, enable_writes, set_scheduler_enabled,
       set_control, Tick, recent_runs, dbUnchanged, vars
  <1>2. ASSUME NEW w \in Workers, Invocation(w)
        PROVE  \/ conn'[s].cadence = conn[s].cadence /\ conn'[s].next = conn[s].next
               \/ conn'[s].next = next_slot(conn'[s].cadence, job[w].born)
    <2>1. CASE persist_cadence(w) \/ prepare_schedule(w)
      BY <2>1, ScheduleSteps
    <2>2. CASE conn' = conn
      BY <2>2
    <2>3. ASSUME \/ conn' = [conn EXCEPT ![job[w].slug].status = "ok"]
                 \/ conn' = [conn EXCEPT ![job[w].slug].status = "error"]
          PROVE  conn'[s].cadence = conn[s].cadence /\ conn'[s].next = conn[s].next
      <3>1. CASE s = job[w].slug
        <4>1. \/ conn'[s] = [conn[s] EXCEPT !.status = "ok"]
              \/ conn'[s] = [conn[s] EXCEPT !.status = "error"]
          BY <1>0, <2>3, <3>1
        <4> QED BY <1>0, <4>1 DEF Connections
      <3>2. CASE s # job[w].slug
        BY <1>0, <2>3, <3>2
      <3> QED BY <3>1, <3>2
    <2>4. CASE finish_success(w)
      BY <2>2, <2>3, <2>4 DEF finish_success, complete_success
    <2>5. CASE finish_failure(w) \/ recover_claim(w)
      BY <2>2, <2>3, <2>5 DEF finish_failure, recover_claim, mark_error, dbUnchanged
    <2>6. CASE \/ \E r \in Slugs : ManualRequest(w, r)
               \/ CronRequest(w) \/ CadenceRequest(w) \/ Begin(w)
               \/ interrupt_stale(w) \/ Claim(w) \/ ClaimRefused(w) \/ GiveUp(w)
               \/ capture(w) \/ Abort(w) \/ Kill(w)
      BY <2>2, <2>6 DEF ManualRequest, CronRequest, CadenceRequest, Begin,
         interrupt_stale, Claim, ClaimRefused, GiveUp, capture, Abort, Kill, dbUnchanged
    <2> QED BY <1>2, <2>1, <2>4, <2>5, <2>6 DEF Invocation
  <1> QED BY <1>1, <1>2 DEF Next

\* The next slot shown beside a cadence is a slot of that cadence, although
\* cron and the settings form both write it.
THEOREM NextSlotsAreTruthful == Spec => []NextSlotIsTruthful
  <1>1. Init => NextSlotIsTruthful
    BY DEF Init, NextSlotIsTruthful
  <1>2. TypeOK /\ TypeOK' /\ NextSlotIsTruthful /\ [Next]_vars => NextSlotIsTruthful'
    <2> SUFFICES ASSUME TypeOK, TypeOK', NextSlotIsTruthful, [Next]_vars,
                        NEW s \in Slugs, conn'[s].next # NoSlot
                 PROVE  /\ conn'[s].cadence \in Scheduled
                        /\ IsSlot(conn'[s].cadence, conn'[s].next)
      BY DEF NextSlotIsTruthful
    <2>1. CASE conn'[s].cadence = conn[s].cadence /\ conn'[s].next = conn[s].next
      BY <2>1 DEF NextSlotIsTruthful
    <2>2. ASSUME NEW w \in Workers,
                 conn'[s].next = next_slot(conn'[s].cadence, job[w].born)
          PROVE  /\ conn'[s].cadence \in Scheduled
                 /\ IsSlot(conn'[s].cadence, conn'[s].next)
      <3>1. conn'[s].cadence \in CadenceValues /\ job[w].born \in Int
        BY DEF TypeOK, Connections, Jobs
      <3> QED BY <2>2, <3>1, NextSlotOnGrid
    <2> QED BY <2>1, <2>2, ConnSteps
  <1> QED BY <1>1, <1>2, TypeCorrect, PTL DEF Spec
=============================================================================
