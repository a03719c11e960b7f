--------------------------- MODULE ScanExecution ---------------------------
(***************************************************************************)
(* The execution of scans: PostgreSQL rows as the queue, Redis "bells" as   *)
(* hints, Celery tasks that claim one row each and run it, the cancellation *)
(* watcher, the pump that replaces lost bells and the reaper that fails the *)
(* rows of dead workers.                                                    *)
(*                                                                          *)
(* One committed SQL transaction is one step.  Where a transaction stays    *)
(* open across awaits (the executor's findings and its completion), the     *)
(* open part lives in pc, job and draft and reaches the table with the      *)
(* commit; what it locks meanwhile is Locked and KeyShared.                 *)
(***************************************************************************)
EXTENDS Integers, FiniteSets

CONSTANTS
    Scans,          \* identities of scan rows (UUIDs, never used twice)
    Workers,        \* Celery pool processes consuming the scans queue
    NoScan,         \* the job of a process that holds no scan
    MaxStamp,       \* bound: dispatch timestamps the model tells apart
    MaxBells,       \* bound: wake messages in the broker at one time
    PumpMaxBells,   \* PUMP_MAX_BELLS
    SoftLimit,      \* task_soft_time_limit, in ticks
    HardLimit,      \* task_time_limit, in ticks
    StaleLimit      \* STALE_SCAN_SECONDS, in ticks

ASSUME NoScanAssumption == NoScan \notin Scans

ASSUME BoundsAssumption ==
    /\ MaxStamp \in Nat \ {0}
    /\ MaxBells \in Nat \ {0}
    /\ PumpMaxBells \in Nat \ {0}

\* celery_app.py derives the three limits from one another with a positive
\* margin between each two, so their order is a fact of the configuration.
ASSUME LimitsAssumption ==
    /\ SoftLimit \in Nat \ {0}
    /\ HardLimit \in Nat
    /\ StaleLimit \in Nat
    /\ SoftLimit < HardLimit
    /\ HardLimit < StaleLimit

VARIABLES
    enabled,     \* SCAN_EXECUTION_ENABLED as deployed
    status,      \* scans.status; "absent" before the INSERT, "deleted" after
    dispatched,  \* scans.dispatched_at; 0 is NULL
    reason,      \* scans.failure_reason; "none" is NULL
    findings,    \* the row has findings committed by its executor
    age,         \* ticks since scans.started_at, for running rows
    bells,       \* wake messages waiting in the broker
    enriched,    \* scans whose findings were sent to the enrichment queue
    pc,          \* where each pool process is in its wake task
    job,         \* the scan that task claimed
    draft,       \* its open transaction holds findings
    taskAge      \* ticks since the task started

rowVars == <<status, dispatched, reason, findings, age>>
taskVars == <<pc, job, draft, taskAge>>
vars == <<enabled, rowVars, bells, enriched, taskVars>>

Statuses == {"pending", "running", "completed", "failed", "cancelled"}
RowStates == Statuses \cup {"absent", "deleted"}

\* "run_error" stands for every code the executor itself writes.
Reasons == {"none", "run_error", "worker_lost"}

TaskStates == {"idle", "woken", "loading", "graph", "persisted", "completing",
               "publishing", "failing", "cancelling"}

-----------------------------------------------------------------------------
(* The scan state machine *)

SCAN_TRANSITIONS == [st \in Statuses |->
    IF st = "pending" THEN {"running", "cancelled", "failed"}
    ELSE IF st = "running" THEN {"completed", "failed", "cancelled"}
    ELSE {}]

TERMINAL_STATUSES == {"completed", "failed", "cancelled"}

\* Fault: the UPDATE forgets its condition on the status.
AllowedFromAny(to) == Statuses \ {to}

AllowedFrom(to) == {st \in Statuses : to \in SCAN_TRANSITIONS[st]}

\* Fault: the target status is written into failure_reason.
TransitionSwapped(s, to, why) ==
    IF status[s] \in AllowedFrom(to)
    THEN /\ status' = [status EXCEPT ![s] = to]
         /\ reason' = [reason EXCEPT ![s] = to]
         /\ age' = [age EXCEPT ![s] = 0]
    ELSE UNCHANGED <<status, reason, age>>

\* transition_scan: one conditional UPDATE, a no-op when the row is not in a
\* state the map allows.  The age only matters while the row is running.
Transition(s, to, why) ==
    IF status[s] \in AllowedFrom(to)
    THEN /\ status' = [status EXCEPT ![s] = to]
         /\ reason' = [reason EXCEPT ![s] = why]
         /\ age' = [age EXCEPT ![s] = 0]
    ELSE UNCHANGED <<status, reason, age>>

Ready(s) == status[s] = "pending" /\ dispatched[s] # 0

\* Any of the oldest ready rows: equal timestamps fall back to the random id.
Oldest(s) == Ready(s) /\ \A r \in Scans : Ready(r) => dispatched[s] <= dispatched[r]

\* The completing UPDATE holds the row lock until the executor commits.
Locked(s) == \E w \in Workers : job[w] = s /\ pc[w] = "completing"

\* The inserted findings hold a key-share lock on their scan: a DELETE waits,
\* an UPDATE of the status does not.
KeyShared(s) == \E w \in Workers :
    job[w] = s /\ draft[w] /\ pc[w] \in {"persisted", "completing"}

AtMost(bound, n) == IF n > bound THEN bound ELSE n

\* Ringing above the bound is the same as losing the bell.
Ring(n) == bells' = AtMost(MaxBells, bells + n)

Init ==
    /\ enabled = TRUE
    /\ status = [s \in Scans |-> "absent"]
    /\ dispatched = [s \in Scans |-> 0]
    /\ reason = [s \in Scans |-> "none"]
    /\ findings = [s \in Scans |-> FALSE]
    /\ age = [s \in Scans |-> 0]
    /\ bells = 0
    /\ enriched = {}
    /\ pc = [w \in Workers |-> "idle"]
    /\ job = [w \in Workers |-> NoScan]
    /\ draft = [w \in Workers |-> FALSE]
    /\ taskAge = [w \in Workers |-> 0]

-----------------------------------------------------------------------------
(* Requests of the API *)

CreateScan(s) ==
    /\ status[s] = "absent"
    /\ status' = [status EXCEPT ![s] = "pending"]
    /\ UNCHANGED <<enabled, dispatched, reason, findings, age, bells, enriched, taskVars>>

\* run_scan: the dispatch commits first; the bell after it is best effort.
\* The timestamp is the start of the transaction, so dispatches need not
\* commit in the order of their timestamps.
RunScan(s, stamp) ==
    /\ enabled
    /\ status[s] = "pending"
    /\ dispatched[s] = 0
    /\ dispatched' = [dispatched EXCEPT ![s] = stamp]
    /\ \/ Ring(1)
       \/ UNCHANGED bells
    /\ UNCHANGED <<enabled, status, reason, findings, age, enriched, taskVars>>

CancelScan(s) ==
    /\ status[s] \in AllowedFrom("cancelled")
    /\ ~Locked(s)
    /\ Transition(s, "cancelled", "none")
    /\ UNCHANGED <<enabled, dispatched, findings, bells, enriched, taskVars>>

\* DELETE of the row, by delete_scan or by the cascade from its asset; the
\* findings go with it.
DeleteScan(s) ==
    /\ status[s] \in Statuses
    /\ ~Locked(s)
    /\ ~KeyShared(s)
    /\ status' = [status EXCEPT ![s] = "deleted"]
    /\ dispatched' = [dispatched EXCEPT ![s] = 0]
    /\ reason' = [reason EXCEPT ![s] = "none"]
    /\ findings' = [findings EXCEPT ![s] = FALSE]
    /\ age' = [age EXCEPT ![s] = 0]
    /\ UNCHANGED <<enabled, bells, enriched, taskVars>>

\* The operator deploys another value of the kill switch.
ToggleSwitch ==
    /\ enabled' = ~enabled
    /\ UNCHANGED <<rowVars, bells, enriched, taskVars>>

-----------------------------------------------------------------------------
(* A wake task *)

EndTask(w) ==
    /\ pc' = [pc EXCEPT ![w] = "idle"]
    /\ job' = [job EXCEPT ![w] = NoScan]
    /\ draft' = [draft EXCEPT ![w] = FALSE]
    /\ taskAge' = [taskAge EXCEPT ![w] = 0]

Goto(w, label) ==
    /\ pc' = [pc EXCEPT ![w] = label]
    /\ UNCHANGED <<job, taskAge>>

WakeDisabled(w) ==
    /\ pc[w] = "idle" /\ bells > 0
    /\ ~enabled
    /\ bells' = bells - 1
    /\ UNCHANGED <<enabled, rowVars, enriched, taskVars>>

Wake(w) ==
    /\ pc[w] = "idle" /\ bells > 0
    /\ enabled
    /\ bells' = bells - 1
    /\ Goto(w, "woken")
    /\ UNCHANGED <<enabled, rowVars, enriched, draft>>

\* Fault: the claim does not recheck that the row is still pending.
ClaimDispatched(w, s) ==
    /\ pc[w] = "woken"
    /\ status[s] \in {"pending", "running"} /\ dispatched[s] # 0
    /\ Transition(s, "running", "none")
    /\ pc' = [pc EXCEPT ![w] = "loading"]
    /\ job' = [job EXCEPT ![w] = s]
    /\ UNCHANGED <<enabled, dispatched, findings, bells, enriched, draft, taskAge>>

\* claim_next_scan: one UPDATE that selects, rechecks and moves the row.
ClaimNextScan(w, s) ==
    /\ pc[w] = "woken"
    /\ Oldest(s)
    /\ Transition(s, "running", "none")
    /\ pc' = [pc EXCEPT ![w] = "loading"]
    /\ job' = [job EXCEPT ![w] = s]
    /\ UNCHANGED <<enabled, dispatched, findings, bells, enriched, draft, taskAge>>

NothingToClaim(w) ==
    /\ pc[w] = "woken"
    /\ \A s \in Scans : ~Ready(s)
    /\ EndTask(w)
    /\ UNCHANGED <<enabled, rowVars, bells, enriched>>

\* _load_scan joins the scan with its asset: no row when either was deleted.
LoadScan(w) ==
    /\ pc[w] = "loading"
    /\ Goto(w, IF status[job[w]] = "deleted" THEN "failing" ELSE "graph")
    /\ UNCHANGED <<enabled, rowVars, bells, enriched, draft>>

\* The graph's scan, parse and persist nodes stop with an error: a rejected
\* target, Nmap's failure, unreadable output, an exception in any node.
GraphError(w) ==
    /\ pc[w] = "graph"
    /\ Goto(w, "failing")
    /\ UNCHANGED <<enabled, rowVars, bells, enriched, draft>>

\* persist_node flushes its findings without a commit.  With nothing to insert
\* no row of the scan is touched; with findings the foreign key needs the row.
GraphPersist(w, some) ==
    /\ pc[w] = "graph"
    /\ some => status[job[w]] # "deleted"
    /\ draft' = [draft EXCEPT ![w] = some]
    /\ Goto(w, "persisted")
    /\ UNCHANGED <<enabled, rowVars, bells, enriched>>

\* Fault: the enrichment is enqueued before the commit.
CompleteAndPublish(w) ==
    /\ pc[w] = "persisted"
    /\ status[job[w]] \in AllowedFrom("completed")
    /\ Goto(w, "completing")
    /\ enriched' = enriched \cup {job[w]}
    /\ UNCHANGED <<enabled, rowVars, bells, draft>>

\* The conditional UPDATE to completed, not yet committed.
CompleteScan(w) ==
    /\ pc[w] = "persisted"
    /\ status[job[w]] \in AllowedFrom("completed")
    /\ Goto(w, "completing")
    /\ UNCHANGED <<enabled, rowVars, bells, enriched, draft>>

\* Fault: the findings are committed although the completion matched no row.
CompleteTooLateCommits(w) ==
    /\ pc[w] = "persisted"
    /\ status[job[w]] \notin AllowedFrom("completed")
    /\ findings' = [findings EXCEPT ![job[w]] = draft[w]]
    /\ EndTask(w)
    /\ UNCHANGED <<enabled, status, dispatched, reason, age, bells, enriched>>

\* Its row left "running" meanwhile: roll the findings back.
CompleteTooLate(w) ==
    /\ pc[w] = "persisted"
    /\ status[job[w]] \notin AllowedFrom("completed")
    /\ EndTask(w)
    /\ UNCHANGED <<enabled, rowVars, bells, enriched>>

\* The single commit of the run: the findings and the completion together.
CommitRun(w) ==
    /\ status' = [status EXCEPT ![job[w]] = "completed"]
    /\ findings' = [findings EXCEPT ![job[w]] = draft[w]]
    /\ age' = [age EXCEPT ![job[w]] = 0]
    /\ draft' = [draft EXCEPT ![w] = FALSE]

CommitScan(w) ==
    /\ pc[w] = "completing"
    /\ CommitRun(w)
    /\ Goto(w, "publishing")
    /\ UNCHANGED <<enabled, dispatched, reason, bells, enriched>>

\* _wake reads the committed findings and enqueues their enrichment, unless it
\* is disabled or the lookup or the broker fails.
PublishEnrichment(w) ==
    /\ pc[w] = "publishing"
    /\ \/ findings[job[w]] /\ enriched' = enriched \cup {job[w]}
       \/ UNCHANGED enriched
    /\ EndTask(w)
    /\ UNCHANGED <<enabled, rowVars, bells>>

\* fail(): roll back, then the conditional UPDATE to failed.
FailScan(w) ==
    /\ pc[w] = "failing"
    /\ ~Locked(job[w])
    /\ Transition(job[w], "failed", "run_error")
    /\ EndTask(w)
    /\ UNCHANGED <<enabled, dispatched, findings, bells, enriched>>

\* cancel(): roll back, then the conditional UPDATE to cancelled.
CancelRun(w) ==
    /\ pc[w] = "cancelling"
    /\ ~Locked(job[w])
    /\ Transition(job[w], "cancelled", "none")
    /\ EndTask(w)
    /\ UNCHANGED <<enabled, dispatched, findings, bells, enriched>>

\* The executor's own code, where an interruption is not shielded.
Interruptible == {"loading", "graph", "persisted", "completing"}

\* Fault: the watcher waits for the row to disappear instead.
WatcherMissesCancel(w) ==
    /\ pc[w] \in Interruptible
    /\ status[job[w]] = "deleted"
    /\ draft' = [draft EXCEPT ![w] = FALSE]
    /\ Goto(w, "cancelling")
    /\ UNCHANGED <<enabled, rowVars, bells, enriched>>

\* _wait_for_cancel read "cancelled": the executor is cancelled and rolls back.
WatcherCancels(w) ==
    /\ pc[w] \in Interruptible
    /\ status[job[w]] = "cancelled"
    /\ draft' = [draft EXCEPT ![w] = FALSE]
    /\ Goto(w, "cancelling")
    /\ UNCHANGED <<enabled, rowVars, bells, enriched>>

\* An exception ends the executor's transaction.  While the COMMIT is in
\* flight the server may already have applied it.
Interrupt(w, label) ==
    /\ \/ /\ draft' = [draft EXCEPT ![w] = FALSE]
          /\ UNCHANGED <<status, findings, age>>
       \/ /\ pc[w] = "completing"
          /\ CommitRun(w)
    /\ Goto(w, label)
    /\ UNCHANGED <<enabled, dispatched, reason, bells, enriched>>

\* Outside the graph an ordinary exception reaches the executor's own handler.
ExecutorError(w) ==
    /\ pc[w] \in Interruptible \ {"graph"}
    /\ Interrupt(w, "failing")

\* SoftTimeLimitExceeded, raised wherever the event loop happens to be: it
\* cancels the executor, or is one more exception the executor fails with.
SoftTimeLimit(w) ==
    /\ pc[w] \in Interruptible
    /\ taskAge[w] >= SoftLimit
    /\ \E label \in {"cancelling", "failing"} : Interrupt(w, label)

\* The process dies at any point and its open transaction with it.  The late
\* acknowledgement returns the message to the queue, or the message is lost.
WorkerLost(w) ==
    /\ pc[w] # "idle"
    /\ EndTask(w)
    /\ \/ Ring(1)
       \/ UNCHANGED bells
    /\ UNCHANGED <<enabled, rowVars, enriched>>

\* Celery kills the task at the hard limit; its message counts as handled.
HardTimeLimit(w) ==
    /\ pc[w] # "idle"
    /\ taskAge[w] >= HardLimit
    /\ EndTask(w)
    /\ UNCHANGED <<enabled, rowVars, bells, enriched>>

-----------------------------------------------------------------------------
(* The broker, the maintenance tasks and time *)

LoseBell ==
    /\ bells > 0
    /\ bells' = bells - 1
    /\ UNCHANGED <<enabled, rowVars, enriched, taskVars>>

\* Fault: one bell too few.
PumpOffByOne(rung) ==
    /\ enabled
    /\ LET count == AtMost(PumpMaxBells, Cardinality({s \in Scans : Ready(s)}))
       IN  rung \in 1 .. count - 1
    /\ Ring(rung)
    /\ UNCHANGED <<enabled, rowVars, enriched, taskVars>>

\* _pump: count a bounded batch of ready rows, then ring once for each; the
\* broker may refuse from some bell on.
Pump(rung) ==
    /\ enabled
    /\ LET count == AtMost(PumpMaxBells, Cardinality({s \in Scans : Ready(s)}))
       IN  rung \in 1 .. count
    /\ Ring(rung)
    /\ UNCHANGED <<enabled, rowVars, enriched, taskVars>>

\* Fault: the cut-off is the soft limit.
StaleAtSoftLimit(s) == status[s] = "running" /\ age[s] >= SoftLimit

Stale(s) == status[s] = "running" /\ age[s] >= StaleLimit

\* Fault: the kill switch stops the reaper too.
ReapIfEnabled ==
    /\ enabled
    /\ \E s \in Scans : Stale(s)
    /\ status' = [s \in Scans |-> IF Stale(s) THEN "failed" ELSE status[s]]
    /\ reason' = [s \in Scans |-> IF Stale(s) THEN "worker_lost" ELSE reason[s]]
    /\ age' = [s \in Scans |-> IF Stale(s) THEN 0 ELSE age[s]]
    /\ UNCHANGED <<enabled, dispatched, findings, bells, enriched, taskVars>>

\* reap_stale_scans: one UPDATE of every stale row.
Reap ==
    /\ \E s \in Scans : Stale(s)
    /\ \A s \in Scans : Stale(s) => ~Locked(s)
    /\ status' = [s \in Scans |-> IF Stale(s) THEN "failed" ELSE status[s]]
    /\ reason' = [s \in Scans |-> IF Stale(s) THEN "worker_lost" ELSE reason[s]]
    /\ age' = [s \in Scans |-> IF Stale(s) THEN 0 ELSE age[s]]
    /\ UNCHANGED <<enabled, dispatched, findings, bells, enriched, taskVars>>

\* Time passes alike for the database clock and the task timers, and not past
\* the moment Celery kills a task.  A row's age saturates once it is stale.
Tick ==
    /\ \A w \in Workers : pc[w] # "idle" => taskAge[w] < HardLimit
    /\ \/ \E w \in Workers : pc[w] # "idle"
       \/ \E s \in Scans : status[s] = "running" /\ age[s] < StaleLimit
    /\ taskAge' = [w \in Workers |->
                      IF pc[w] = "idle" THEN taskAge[w] ELSE taskAge[w] + 1]
    /\ age' = [s \in Scans |->
                  IF status[s] = "running" THEN AtMost(StaleLimit, age[s] + 1)
                  ELSE age[s]]
    /\ UNCHANGED <<enabled, status, dispatched, reason, findings, bells, enriched,
                   pc, job, draft>>

-----------------------------------------------------------------------------
ApiStep == \E s \in Scans :
    \/ CreateScan(s)
    \/ \E stamp \in 1 .. MaxStamp : RunScan(s, stamp)
    \/ CancelScan(s)
    \/ DeleteScan(s)

TaskStep(w) ==
    \/ WakeDisabled(w) \/ Wake(w)
    \/ \E s \in Scans : ClaimNextScan(w, s)
    \/ NothingToClaim(w) \/ LoadScan(w) \/ GraphError(w)
    \/ \E some \in BOOLEAN : GraphPersist(w, some)
    \/ CompleteScan(w) \/ CompleteTooLate(w) \/ CommitScan(w)
    \/ PublishEnrichment(w) \/ FailScan(w) \/ CancelRun(w)
    \/ WatcherCancels(w) \/ ExecutorError(w) \/ SoftTimeLimit(w)
    \/ WorkerLost(w) \/ HardTimeLimit(w)

MaintenanceStep ==
    \/ \E rung \in 1 .. PumpMaxBells : Pump(rung)
    \/ Reap

Next ==
    \/ ApiStep
    \/ ToggleSwitch
    \/ \E w \in Workers : TaskStep(w)
    \/ MaintenanceStep
    \/ LoseBell
    \/ Tick

Spec == Init /\ [][Next]_vars

-----------------------------------------------------------------------------
(* Safety *)

TypeOK ==
    /\ enabled \in BOOLEAN
    /\ status \in [Scans -> RowStates]
    /\ dispatched \in [Scans -> 0 .. MaxStamp]
    /\ reason \in [Scans -> Reasons]
    /\ findings \in [Scans -> BOOLEAN]
    /\ age \in [Scans -> 0 .. StaleLimit]
    /\ bells \in 0 .. MaxBells
    /\ enriched \in SUBSET Scans
    /\ pc \in [Workers -> TaskStates]
    /\ job \in [Workers -> Scans \cup {NoScan}]
    /\ draft \in [Workers -> BOOLEAN]
    /\ taskAge \in [Workers -> 0 .. HardLimit]

\* "Two claims can never both win", "duplicate bells cannot execute an
\* already-claimed row again": however many bells are rung, lost or
\* redelivered after a crash, a scan has at most one live executor.
OneExecutorPerScan == \A v, w \in Workers :
    job[v] = job[w] /\ job[v] # NoScan => v = w

\* "A cancelled or failed scan stores no findings": the executor's findings
\* are visible exactly when its completion committed, whichever of cancel,
\* reap, crash, timeout and commit came first.
FindingsOnlyIfCompleted == \A s \in Scans :
    findings[s] => status[s] = "completed"

\* "Past the Celery hard limit, no task for a stale row can still be alive":
\* a row the reaper failed has no executor left that could still scan for it.
ReapedHasNoExecutor == \A s \in Scans :
    reason[s] = "worker_lost" => \A w \in Workers : job[w] # s

\* The enrichment queue is told only of scans whose findings were committed
\* (the row may have been deleted since, never be open, failed or cancelled).
EnrichedOnlyAfterCommit == \A s \in enriched : status[s] \in {"completed", "deleted"}

-----------------------------------------------------------------------------
(* The inductive invariant behind the four properties above *)

\* A task holds a scan exactly from its claim to its end.
JobsOfClaims == \A w \in Workers :
    job[w] = NoScan <=> pc[w] \in {"idle", "woken"}

\* A row that a task holds is past "pending", where no claim finds it again.
HeldIsClaimed == \A w \in Workers :
    job[w] # NoScan => status[job[w]] \notin {"absent", "pending"}

\* What the row looks like to a task at the end of its run.
HeldStatus == \A w \in Workers :
    /\ pc[w] = "completing" => status[job[w]] = "running"
    /\ pc[w] = "publishing" => status[job[w]] \in {"completed", "deleted"}

\* A task never lived shorter than its row has been running.
TaskIsOlder == \A w \in Workers :
    job[w] # NoScan /\ status[job[w]] = "running" => age[job[w]] <= taskAge[w]

\* A row is inserted with no dispatch timestamp.
BornUndispatched == \A s \in Scans : status[s] = "absent" => dispatched[s] = 0

ReapedIsFailed == \A s \in Scans : reason[s] = "worker_lost" => status[s] = "failed"

Inv ==
    /\ TypeOK
    /\ JobsOfClaims
    /\ HeldIsClaimed
    /\ HeldStatus
    /\ TaskIsOlder
    /\ BornUndispatched
    /\ ReapedIsFailed
    /\ OneExecutorPerScan
    /\ FindingsOnlyIfCompleted
    /\ ReapedHasNoExecutor
    /\ EnrichedOnlyAfterCommit

-----------------------------------------------------------------------------
(* The abstract specification *)

\* The life of the scan that a row shows.
LifeOf(s) ==
    IF status[s] # "pending" THEN status[s]
    ELSE IF dispatched[s] = 0 THEN "defined" ELSE "queued"

Life == INSTANCE ScanLife WITH life <- [s \in Scans |-> LifeOf(s)]

\* The table, read through LifeOf, behaves as the promise of ScanLife: every
\* scan is started at most once, a terminal status is never left, and the
\* findings appear in the very step that completes the scan.
ImplementsScanLife == Life!Spec

-----------------------------------------------------------------------------
(* Liveness *)

\* Time advances, Celery enforces its hard limit and Beat keeps the reaper
\* running.  Nothing is assumed of the executor, which may hang anywhere.
RecoveryFairness ==
    /\ WF_vars(Tick)
    /\ \A w \in Workers : WF_vars(HardTimeLimit(w))
    /\ WF_vars(Reap)

\* Beat keeps the pump running, and neither every bell is lost nor every
\* woken process dies before its claim.
QueueFairness ==
    /\ WF_vars(\E rung \in 1 .. PumpMaxBells : Pump(rung))
    /\ SF_vars(\E w \in Workers : Wake(w))
    /\ SF_vars(\E w \in Workers, s \in Scans : ClaimNextScan(w, s))

\* The watcher polls until its executor ends; neither time nor the kill at the
\* hard limit is needed for what rests on it.
WatcherFairness == \A w \in Workers : WF_vars(WatcherCancels(w))

\* The shielded clean-ups run to their end.  What else must keep happening is
\* the hypothesis of each property, so that none borrows another's fairness.
FairSpec == Spec /\ \A w \in Workers : WF_vars(CancelRun(w) \/ FailScan(w))

\* "Lost bells leave work in PostgreSQL for the pump to rediscover": once the
\* switch stays on, a dispatched scan does not wait for ever.
QueuedScanIsTaken ==
    RecoveryFairness /\ QueueFairness =>
        (<>[]enabled => \A s \in Scans : Ready(s) ~> ~Ready(s))

\* Whatever happens to its worker, a running scan does not run for ever: time,
\* the kill at the hard limit and the reaper are enough.
RunningScanEnds ==
    RecoveryFairness =>
        \A s \in Scans : status[s] = "running" ~> status[s] # "running"

\* "The worker observes cancellation": an executor whose row is cancelled stops,
\* unless the row is deleted before the watcher reads it.
CancelStopsExecutor ==
    WatcherFairness => \A w \in Workers, s \in Scans :
    (job[w] = s /\ status[s] = "cancelled") ~> (job[w] # s \/ status[s] = "deleted")
=============================================================================
