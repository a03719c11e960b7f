------------------------ MODULE ScanExecutionProofs ------------------------
(***************************************************************************)
(* The invariant of ScanExecution is inductive, for any number of scans and *)
(* workers and for all time limits in the order celery_app.py gives them;   *)
(* and ScanExecution implements ScanLife: initial states map to initial     *)
(* states, and every step maps to a step of the promise or changes nothing  *)
(* there.  The second part proves ScanDispatch, the launch that puts a scan *)
(* into the queue.                                                          *)
(***************************************************************************)
EXTENDS ScanExecution, FiniteSetTheorems, TLAPS

\* What the transition map allows, spelled out for the targets in use.
LEMMA AllowedFromFacts ==
    /\ AllowedFrom("running") = {"pending"}
    /\ AllowedFrom("completed") = {"running"}
    /\ AllowedFrom("failed") = {"pending", "running"}
    /\ AllowedFrom("cancelled") = {"pending", "running"}
BY DEF AllowedFrom, SCAN_TRANSITIONS, Statuses

\* Capping a counter keeps it in its range.
LEMMA AtMostInRange ==
    ASSUME NEW bound \in Nat, NEW n \in Nat
    PROVE  AtMost(bound, n) \in 0 .. bound /\ AtMost(bound, n) <= n
BY DEF AtMost

\* Ringing keeps the number of bells in its range.
LEMMA RingInRange ==
    ASSUME NEW n \in Nat, bells \in 0 .. MaxBells, Ring(n)
    PROVE  bells' \in 0 .. MaxBells
BY BoundsAssumption DEF Ring, AtMost

\* The empty system satisfies the invariant.
LEMMA InitInv == Init => Inv
BY NoScanAssumption, BoundsAssumption, LimitsAssumption
DEF Init, Inv, TypeOK, JobsOfClaims, HeldIsClaimed, HeldStatus, TaskIsOlder,
    ReapedIsFailed, BornUndispatched, OneExecutorPerScan, FindingsOnlyIfCompleted,
    ReapedHasNoExecutor, EnrichedOnlyAfterCommit, RowStates, Statuses,
    Reasons, TaskStates

\* The requests of the API preserve it.
LEMMA ApiInv ==
    ASSUME Inv, ApiStep
    PROVE  Inv'
<1> USE NoScanAssumption, BoundsAssumption, LimitsAssumption
    DEF Inv, TypeOK, JobsOfClaims, HeldIsClaimed, HeldStatus, TaskIsOlder,
        ReapedIsFailed, BornUndispatched, OneExecutorPerScan, FindingsOnlyIfCompleted,
        ReapedHasNoExecutor, EnrichedOnlyAfterCommit, RowStates, Statuses,
        Reasons, TaskStates, taskVars
<1>1. PICK s \in Scans :
        \/ CreateScan(s)
        \/ \E stamp \in 1 .. MaxStamp : RunScan(s, stamp)
        \/ CancelScan(s)
        \/ DeleteScan(s)
  BY DEF ApiStep
<1>2. CASE CreateScan(s)
  BY <1>2 DEF CreateScan
<1>3. ASSUME NEW stamp \in 1 .. MaxStamp, RunScan(s, stamp)
      PROVE  Inv'
  <2>1. bells' \in 0 .. MaxBells
    BY <1>3, RingInRange DEF RunScan
  <2> QED
    BY <1>3, <2>1 DEF RunScan
<1>4. CASE CancelScan(s)
  BY <1>4, AllowedFromFacts DEF CancelScan, Transition, Locked
<1>5. CASE DeleteScan(s)
  BY <1>5 DEF DeleteScan, Locked
<1> QED
  BY <1>1, <1>2, <1>3, <1>4, <1>5

\* A task up to its claim preserves it: here a scan gets its only executor.
LEMMA ClaimInv ==
    ASSUME Inv, NEW w \in Workers,
           \/ WakeDisabled(w) \/ Wake(w) \/ NothingToClaim(w)
           \/ \E s \in Scans : ClaimNextScan(w, s)
    PROVE  Inv'
<1> USE NoScanAssumption, BoundsAssumption, LimitsAssumption
    DEF Inv, TypeOK, JobsOfClaims, HeldIsClaimed, HeldStatus, TaskIsOlder,
        ReapedIsFailed, BornUndispatched, OneExecutorPerScan, FindingsOnlyIfCompleted,
        ReapedHasNoExecutor, EnrichedOnlyAfterCommit, RowStates, Statuses,
        Reasons, TaskStates
<1>1. CASE WakeDisabled(w)
  BY <1>1 DEF WakeDisabled, rowVars, taskVars
<1>2. CASE Wake(w)
  BY <1>2 DEF Wake, Goto, rowVars
<1>3. CASE NothingToClaim(w)
  BY <1>3 DEF NothingToClaim, EndTask, rowVars
<1>4. ASSUME NEW s \in Scans, ClaimNextScan(w, s)
      PROVE  Inv'
  <2>1. /\ status[s] = "pending"
        /\ status' = [status EXCEPT ![s] = "running"]
        /\ reason' = [reason EXCEPT ![s] = "none"]
        /\ age' = [age EXCEPT ![s] = 0]
    BY <1>4, AllowedFromFacts DEF ClaimNextScan, Oldest, Ready, Transition
  <2>2. \A v \in Workers : job[v] # s
    BY <2>1
  <2> QED
    BY <1>4, <2>1, <2>2 DEF ClaimNextScan
<1> QED
  BY <1>1, <1>2, <1>3, <1>4

\* The executor's own steps preserve it, its single commit among them.
LEMMA ExecutorInv ==
    ASSUME Inv, NEW w \in Workers,
           \/ LoadScan(w) \/ GraphError(w) \/ CompleteScan(w)
           \/ \E some \in BOOLEAN : GraphPersist(w, some)
           \/ CompleteTooLate(w) \/ CommitScan(w) \/ PublishEnrichment(w)
           \/ FailScan(w) \/ CancelRun(w)
    PROVE  Inv'
<1> USE NoScanAssumption, BoundsAssumption, LimitsAssumption
    DEF Inv, TypeOK, JobsOfClaims, HeldIsClaimed, HeldStatus, TaskIsOlder,
        ReapedIsFailed, BornUndispatched, OneExecutorPerScan, FindingsOnlyIfCompleted,
        ReapedHasNoExecutor, EnrichedOnlyAfterCommit, RowStates, Statuses,
        Reasons, TaskStates
<1>1. CASE LoadScan(w)
  BY <1>1 DEF LoadScan, Goto, rowVars
<1>2. CASE GraphError(w)
  BY <1>2 DEF GraphError, Goto, rowVars
<1>3. CASE CompleteScan(w)
  BY <1>3, AllowedFromFacts DEF CompleteScan, Goto, rowVars
<1>4. ASSUME NEW some \in BOOLEAN, GraphPersist(w, some)
      PROVE  Inv'
  BY <1>4 DEF GraphPersist, Goto, rowVars
<1>5. CASE CompleteTooLate(w)
  BY <1>5 DEF CompleteTooLate, EndTask, rowVars
<1>6. CASE CommitScan(w)
  BY <1>6 DEF CommitScan, CommitRun, Goto
<1>7. CASE PublishEnrichment(w)
  BY <1>7 DEF PublishEnrichment, EndTask, rowVars
<1>8. CASE FailScan(w)
  BY <1>8, AllowedFromFacts DEF FailScan, Transition, EndTask, Locked
<1>9. CASE CancelRun(w)
  BY <1>9, AllowedFromFacts DEF CancelRun, Transition, EndTask, Locked
<1> QED
  BY <1>1, <1>2, <1>3, <1>4, <1>5, <1>6, <1>7, <1>8, <1>9

\* Interruptions, deaths and the time limits preserve it.
LEMMA InterruptInv ==
    ASSUME Inv, NEW w \in Workers,
           \/ WatcherCancels(w) \/ ExecutorError(w) \/ SoftTimeLimit(w)
           \/ WorkerLost(w) \/ HardTimeLimit(w)
    PROVE  Inv'
<1> USE NoScanAssumption, BoundsAssumption, LimitsAssumption
    DEF Inv, TypeOK, JobsOfClaims, HeldIsClaimed, HeldStatus, TaskIsOlder,
        ReapedIsFailed, BornUndispatched, OneExecutorPerScan, FindingsOnlyIfCompleted,
        ReapedHasNoExecutor, EnrichedOnlyAfterCommit, RowStates, Statuses,
        Reasons, TaskStates
<1>1. CASE WatcherCancels(w)
  BY <1>1 DEF WatcherCancels, Interruptible, Goto, rowVars
<1>2. ASSUME NEW label \in {"cancelling", "failing"}, Interrupt(w, label),
             pc[w] \in Interruptible
      PROVE  Inv'
  <2>1. CASE /\ draft' = [draft EXCEPT ![w] = FALSE]
             /\ UNCHANGED <<status, findings, age>>
    BY <1>2, <2>1 DEF Interrupt, Interruptible, Goto
  <2>2. CASE pc[w] = "completing" /\ CommitRun(w)
    BY <1>2, <2>2 DEF Interrupt, CommitRun, Goto
  <2> QED
    BY <1>2, <2>1, <2>2 DEF Interrupt
<1>3. CASE ExecutorError(w)
  BY <1>2, <1>3 DEF ExecutorError
<1>4. CASE SoftTimeLimit(w)
  BY <1>2, <1>4 DEF SoftTimeLimit
<1>5. CASE WorkerLost(w)
  <2>1. bells' \in 0 .. MaxBells
    BY <1>5, RingInRange DEF WorkerLost
  <2> QED
    BY <1>5, <2>1 DEF WorkerLost, EndTask, rowVars
<1>6. CASE HardTimeLimit(w)
  BY <1>6 DEF HardTimeLimit, EndTask, rowVars
<1> QED
  BY <1>1, <1>3, <1>4, <1>5, <1>6

\* The reaper preserves it: TaskIsOlder keeps every held row below the cut-off.
LEMMA ReapInv ==
    ASSUME Inv, Reap
    PROVE  Inv'
<1> USE NoScanAssumption, BoundsAssumption, LimitsAssumption
    DEF Inv, TypeOK, JobsOfClaims, HeldIsClaimed, HeldStatus, TaskIsOlder,
        ReapedIsFailed, BornUndispatched, OneExecutorPerScan, FindingsOnlyIfCompleted,
        ReapedHasNoExecutor, EnrichedOnlyAfterCommit, RowStates, Statuses,
        Reasons, TaskStates
<1>1. \A s \in Scans : Stale(s) => \A w \in Workers : job[w] # s
  BY DEF Stale
<1> QED
  BY <1>1 DEF Reap, Stale, taskVars

\* So does the passing of time.
LEMMA TickInv ==
    ASSUME Inv, Tick
    PROVE  Inv'
<1> USE NoScanAssumption, BoundsAssumption, LimitsAssumption
    DEF Inv, TypeOK, JobsOfClaims, HeldIsClaimed, HeldStatus, TaskIsOlder,
        ReapedIsFailed, BornUndispatched, OneExecutorPerScan, FindingsOnlyIfCompleted,
        ReapedHasNoExecutor, EnrichedOnlyAfterCommit, RowStates, Statuses,
        Reasons, TaskStates
<1>1. \A s \in Scans : /\ AtMost(StaleLimit, age[s] + 1) \in 0 .. StaleLimit
                       /\ AtMost(StaleLimit, age[s] + 1) <= age[s] + 1
  <2> TAKE s \in Scans
  <2>1. age[s] + 1 \in Nat /\ StaleLimit \in Nat
    OBVIOUS
  <2> QED
    BY <2>1, AtMostInRange
<1>2. age' \in [Scans -> 0 .. StaleLimit]
  BY <1>1 DEF Tick
<1>3. taskAge' \in [Workers -> 0 .. HardLimit]
  BY DEF Tick
<1>4. TaskIsOlder'
  BY <1>1 DEF Tick
<1> QED
  BY <1>2, <1>3, <1>4 DEF Tick

\* Every step preserves the invariant.
LEMMA NextInv == Inv /\ [Next]_vars => Inv'
<1> SUFFICES ASSUME Inv, [Next]_vars
             PROVE  Inv'
  OBVIOUS
<1>1. CASE ApiStep
  BY <1>1, ApiInv
<1>2. ASSUME NEW w \in Workers, TaskStep(w)
      PROVE  Inv'
  BY <1>2, ClaimInv, ExecutorInv, InterruptInv DEF TaskStep
<1>3. ASSUME enabled' \in BOOLEAN, bells' \in 0 .. MaxBells,
             UNCHANGED <<rowVars, enriched, taskVars>>
      PROVE  Inv'
  BY <1>3 DEF rowVars, taskVars, Inv, TypeOK, JobsOfClaims, HeldIsClaimed,
     HeldStatus, TaskIsOlder, ReapedIsFailed, BornUndispatched, OneExecutorPerScan,
     FindingsOnlyIfCompleted, ReapedHasNoExecutor, EnrichedOnlyAfterCommit
<1>4. ASSUME NEW rung \in 1 .. PumpMaxBells, Pump(rung)
      PROVE  Inv'
  BY <1>3, <1>4, RingInRange, BoundsAssumption DEF Pump, Inv, TypeOK
<1>5. CASE Reap
  BY <1>5, ReapInv
<1>6. CASE Tick
  BY <1>6, TickInv
<1>7. CASE ToggleSwitch
  BY <1>3, <1>7 DEF ToggleSwitch, Inv, TypeOK
<1>8. CASE LoseBell
  BY <1>3, <1>8, BoundsAssumption DEF LoseBell, Inv, TypeOK
<1>9. CASE UNCHANGED vars
  BY <1>3, <1>9 DEF vars, Inv, TypeOK
<1> QED
  BY <1>1, <1>2, <1>4, <1>5, <1>6, <1>7, <1>8, <1>9 DEF Next, MaintenanceStep

\* The invariant holds in every reachable state.
THEOREM InvariantHolds == Spec => []Inv
  BY InitInv, NextInv, PTL DEF Spec

\* Every variable keeps its type: bells stay within the bound, no task lives
\* past the hard limit and no row grows older than the cut-off.
THEOREM TypeCorrect == Spec => []TypeOK
<1>1. Inv => TypeOK
  BY DEF Inv
<1> QED
  BY <1>1, InvariantHolds, PTL

\* However bells are duplicated, lost and redelivered, and however workers die,
\* no two of them ever execute the same scan.
THEOREM OneExecutor == Spec => []OneExecutorPerScan
<1>1. Inv => OneExecutorPerScan
  BY DEF Inv
<1> QED
  BY <1>1, InvariantHolds, PTL

\* A scan that shows findings of its executor is completed: cancelled and
\* failed scans store none, wherever the run was interrupted.
THEOREM FindingsAtomic == Spec => []FindingsOnlyIfCompleted
<1>1. Inv => FindingsOnlyIfCompleted
  BY DEF Inv
<1> QED
  BY <1>1, InvariantHolds, PTL

\* The reaper never fails a row whose executor is alive, for all limits with
\* HardLimit < StaleLimit.
THEOREM ReaperIsRight == Spec => []ReapedHasNoExecutor
<1>1. Inv => ReapedHasNoExecutor
  BY DEF Inv
<1> QED
  BY <1>1, InvariantHolds, PTL

\* Only scans whose findings were committed reach the enrichment queue.
THEOREM EnrichmentFollowsCommit == Spec => []EnrichedOnlyAfterCommit
<1>1. Inv => EnrichedOnlyAfterCommit
  BY DEF Inv
<1> QED
  BY <1>1, InvariantHolds, PTL

-----------------------------------------------------------------------------
(* The refinement *)

\* The value that stands for the abstract variable life.
life == [s \in Scans |-> LifeOf(s)]

\* What one abstract step of the row s is.
RowStep(s) ==
    \/ Life!Define(s) \/ Life!Queue(s) \/ Life!Start(s) \/ Life!Cancel(s)
    \/ Life!Delete(s)
    \/ \E some \in BOOLEAN : Life!Complete(s, some)

\* An abstract step of one row is a step of the promise.
LEMMA RowStepIsNext ==
    ASSUME NEW s \in Scans, RowStep(s)
    PROVE  Life!Next
BY DEF RowStep, Life!Next

\* A step that leaves the columns read by LifeOf alone changes nothing.
LEMMA LifeStutters ==
    ASSUME UNCHANGED <<status, dispatched, findings>>
    PROVE  UNCHANGED <<life, findings>>
BY DEF life, LifeOf

\* A step that touches the columns of one row moves the life of that row.
LEMMA LifeMoves ==
    ASSUME NEW s \in Scans, NEW from, NEW to,
           \A r \in Scans \ {s} : status'[r] = status[r] /\ dispatched'[r] = dispatched[r],
           LifeOf(s) \in from, LifeOf(s)' = to
    PROVE  Life!Move(s, from, to)
<1>1. life' = [life EXCEPT ![s] = to]
  BY DEF life, LifeOf
<1> QED
  BY <1>1 DEF life, Life!Move

\* The initial state shows every scan as absent.
LEMMA InitRefines == Init => Life!Init
BY DEF Init, Life!Init, LifeOf

\* The requests of the API are steps of the promise.
LEMMA ApiRefines ==
    ASSUME Inv, ApiStep
    PROVE  Life!Next
<1> USE DEF Inv, TypeOK, LifeOf
<1>1. PICK s \in Scans :
        \/ CreateScan(s)
        \/ \E stamp \in 1 .. MaxStamp : RunScan(s, stamp)
        \/ CancelScan(s)
        \/ DeleteScan(s)
  BY DEF ApiStep
<1>2. CASE CreateScan(s)
  <2>1. dispatched[s] = 0
    BY <1>2 DEF CreateScan, BornUndispatched
  <2>2. Life!Move(s, {"absent"}, "defined")
    BY <1>2, <2>1, LifeMoves DEF CreateScan
  <2> QED
    BY <1>2, <2>2, RowStepIsNext DEF CreateScan, RowStep, Life!Define
<1>3. ASSUME NEW stamp \in 1 .. MaxStamp, RunScan(s, stamp)
      PROVE  Life!Next
  <2>1. stamp # 0
    BY BoundsAssumption
  <2>2. LifeOf(s) = "defined" /\ LifeOf(s)' = "queued"
    BY <1>3, <2>1 DEF RunScan
  <2>3. Life!Move(s, {"defined"}, "queued")
    BY <1>3, <2>2, LifeMoves DEF RunScan
  <2> QED
    BY <1>3, <2>3, RowStepIsNext DEF RunScan, RowStep, Life!Queue
<1>4. CASE CancelScan(s)
  <2>1. Life!Move(s, Life!Open, "cancelled")
    BY <1>4, AllowedFromFacts, LifeMoves DEF CancelScan, Transition, Life!Open
  <2> QED
    BY <1>4, <2>1, RowStepIsNext DEF CancelScan, RowStep, Life!Cancel
<1>5. CASE DeleteScan(s)
  <2>1. Life!Move(s, Life!Lives \ {"absent", "deleted"}, "deleted")
    BY <1>5, LifeMoves DEF DeleteScan, Statuses, Life!Lives
  <2> QED
    BY <1>5, <2>1, RowStepIsNext DEF DeleteScan, RowStep, Life!Delete
<1> QED
  BY <1>1, <1>2, <1>3, <1>4, <1>5

\* The claim starts the scan.
LEMMA ClaimRefines ==
    ASSUME Inv, NEW w \in Workers, NEW s \in Scans, ClaimNextScan(w, s)
    PROVE  Life!Next
<1>1. Life!Move(s, {"queued"}, "running")
  BY AllowedFromFacts, LifeMoves
  DEF Inv, TypeOK, LifeOf, ClaimNextScan, Oldest, Ready, Transition
<1> QED
  BY <1>1, RowStepIsNext DEF ClaimNextScan, RowStep, Life!Start

\* The commit of a run completes the scan and shows its findings.
LEMMA CommitRefines ==
    ASSUME Inv, NEW w \in Workers, pc[w] = "completing", CommitRun(w),
           UNCHANGED dispatched
    PROVE  Life!Next
<1>1. job[w] \in Scans /\ status[job[w]] = "running"
  BY DEF Inv, TypeOK, JobsOfClaims, HeldStatus
<1>2. Life!Move(job[w], {"running"}, "completed")
  BY <1>1, LifeMoves DEF Inv, TypeOK, LifeOf, CommitRun
<1>3. draft[w] \in BOOLEAN
  BY DEF Inv, TypeOK
<1>4. Life!Complete(job[w], draft[w])
  BY <1>2 DEF CommitRun, Life!Complete
<1> QED
  BY <1>1, <1>3, <1>4, RowStepIsNext DEF RowStep

\* The clean-ups fail or cancel a running scan, or find it ended already.
LEMMA CleanupRefines ==
    ASSUME Inv, NEW w \in Workers, FailScan(w) \/ CancelRun(w)
    PROVE  Life!Next \/ UNCHANGED <<life, findings>>
<1>1. /\ job[w] \in Scans
      /\ status[job[w]] # "pending"
  BY DEF Inv, TypeOK, JobsOfClaims, HeldIsClaimed, FailScan, CancelRun
<1>2. CASE status[job[w]] # "running"
  BY <1>1, <1>2, AllowedFromFacts, LifeStutters
  DEF FailScan, CancelRun, Transition
<1>3. CASE status[job[w]] = "running" /\ CancelRun(w)
  <2>1. Life!Move(job[w], Life!Open, "cancelled")
    BY <1>1, <1>3, AllowedFromFacts, LifeMoves
    DEF Inv, TypeOK, LifeOf, CancelRun, Transition, Life!Open
  <2> QED
    BY <1>1, <1>3, <2>1, RowStepIsNext DEF CancelRun, RowStep, Life!Cancel
<1>4. CASE status[job[w]] = "running" /\ FailScan(w)
  <2>1. life' = [s \in Scans |-> IF s \in {job[w]} THEN "failed" ELSE life[s]]
    BY <1>1, <1>4, AllowedFromFacts
    DEF Inv, TypeOK, life, LifeOf, FailScan, Transition
  <2>2. Life!Fail({job[w]})
    BY <1>1, <1>4, <2>1 DEF life, LifeOf, FailScan, Life!Fail
  <2> QED
    BY <1>1, <2>2 DEF Life!Next
<1> QED
  BY <1>2, <1>3, <1>4

\* The reaper fails the stale scans in one step.
LEMMA ReapRefines ==
    ASSUME Inv, Reap
    PROVE  Life!Next
<1> DEFINE lost == {s \in Scans : Stale(s)}
<1>1. life' = [s \in Scans |-> IF s \in lost THEN "failed" ELSE life[s]]
  BY DEF life, LifeOf, Reap, Stale
<1>2. Life!Fail(lost)
  BY <1>1 DEF life, LifeOf, Reap, Stale, Life!Fail
<1> QED
  BY <1>2 DEF Life!Next

\* Every step of the execution is a step of the promise or a stutter.
LEMMA NextRefines ==
    ASSUME Inv, [Next]_vars
    PROVE  Life!Next \/ UNCHANGED <<life, findings>>
<1>1. CASE ApiStep
  BY <1>1, ApiRefines
<1>2. ASSUME NEW w \in Workers, TaskStep(w)
      PROVE  Life!Next \/ UNCHANGED <<life, findings>>
  <2>1. ASSUME NEW s \in Scans, ClaimNextScan(w, s)
        PROVE  Life!Next
    BY <2>1, ClaimRefines
  <2>2. CASE CommitScan(w)
    BY <2>2, CommitRefines DEF CommitScan
  <2>3. ASSUME NEW label, Interrupt(w, label)
        PROVE  Life!Next \/ UNCHANGED <<life, findings>>
    BY <2>3, CommitRefines, LifeStutters DEF Interrupt
  <2>4. CASE ExecutorError(w) \/ SoftTimeLimit(w)
    BY <2>3, <2>4 DEF ExecutorError, SoftTimeLimit
  <2>5. CASE FailScan(w) \/ CancelRun(w)
    BY <2>5, CleanupRefines
  <2>6. CASE \/ WakeDisabled(w) \/ Wake(w) \/ NothingToClaim(w) \/ LoadScan(w)
             \/ GraphError(w) \/ \E some \in BOOLEAN : GraphPersist(w, some)
             \/ CompleteScan(w) \/ CompleteTooLate(w) \/ PublishEnrichment(w)
             \/ WatcherCancels(w) \/ WorkerLost(w) \/ HardTimeLimit(w)
    BY <2>6, LifeStutters
    DEF WakeDisabled, Wake, NothingToClaim, LoadScan, GraphError, GraphPersist,
        CompleteScan, CompleteTooLate, PublishEnrichment, WatcherCancels,
        WorkerLost, HardTimeLimit, rowVars
  <2> QED
    BY <1>2, <2>1, <2>2, <2>4, <2>5, <2>6 DEF TaskStep
<1>3. CASE Reap
  BY <1>3, ReapRefines
<1>4. CASE \/ ToggleSwitch \/ LoseBell \/ Tick \/ UNCHANGED vars
           \/ \E rung \in 1 .. PumpMaxBells : Pump(rung)
  BY <1>4, LifeStutters DEF ToggleSwitch, LoseBell, Tick, Pump, vars, rowVars
<1> QED
  BY <1>1, <1>2, <1>3, <1>4 DEF Next, MaintenanceStep

\* The rows, whoever writes them and whatever dies meanwhile, keep the promise
\* of ScanLife for any number of scans and workers.
THEOREM ExecutionImplementsLife == Spec => ImplementsScanLife
<1>1. Inv /\ [Next]_vars => [Life!Next]_<<life, findings>>
  BY NextRefines
<1> QED
  BY <1>1, InitRefines, InvariantHolds, PTL DEF Spec, ImplementsScanLife, Life!Spec, life

-----------------------------------------------------------------------------
(* The launch of scans, RunScan of ScanExecution statement by statement: the *)
(* daily quota holds for any scans, tenants, plans and concurrent requests,  *)
(* since the count is made under the lock of the tenant row and nothing but  *)
(* a holder of that lock adds a reservation.  The state of ScanDispatch is   *)
(* its own; the variables that share a name with the executor's are renamed. *)

CONSTANTS Tenants, Requests, TenantOf, scans_per_day, MaxDay, NoRequest
VARIABLES day, rowStatus, dispatchedDay, started, uncommitted, tenantLock, stage, target, now
Q == INSTANCE ScanDispatch
        WITH status <- rowStatus, dispatched <- dispatchedDay, pc <- stage

\* What ScanDispatch assumes of its constants.
LaunchAssumptions ==
    /\ Q!TenantAssumption /\ Q!LimitAssumption /\ Q!DayAssumption
    /\ Q!NullAssumption /\ Q!FiniteAssumption

\* What is counted there is what is counted here.
LEMMA SameCounts ==
    \A S : Q!Cardinality(S) = Cardinality(S) /\ (Q!IsFiniteSet(S) <=> IsFiniteSet(S))
<1>1. ASSUME NEW S PROVE Q!Cardinality(S) = Cardinality(S)
  BY DEF Q!Cardinality, Cardinality
<1>2. ASSUME NEW S PROVE Q!IsFiniteSet(S) <=> IsFiniteSet(S)
  BY DEF Q!IsFiniteSet, IsFiniteSet
<1> QED
  BY <1>1, <1>2

\* A request that is past its lock holds it.
HoldsTenant == \A r \in Requests :
    /\ stage[r] # "idle" => target[r] \in Scans
    /\ stage[r] \in {"updating", "counting", "committing"} =>
           tenantLock[TenantOf[target[r]]] = r

\* A row that does not exist yet is not dispatched.
AbsentIsFree == \A s \in Scans : rowStatus[s] = "absent" => dispatchedDay[s] = 0

\* Only a row that exists is cancelled or deleted.
WritesExist == \A s \in Scans : uncommitted[s] # "none" => Q!Exists(s)

\* What the conditional UPDATE found stays true until the COMMIT.
StillDispatchable == \A r \in Requests :
    stage[r] \in {"counting", "committing"} => Q!Dispatchable(target[r])

\* Its lock keeps the writes of others off the row until then.
NobodyWrites == \A r \in Requests :
    stage[r] \in {"counting", "committing"} => uncommitted[target[r]] = "none"

\* What the count found stays true until the COMMIT.
RoomLeft == \A r \in Requests : stage[r] = "committing" => Q!WithinQuota(r)

LaunchInv ==
    /\ Q!TypeOK
    /\ HoldsTenant
    /\ AbsentIsFree
    /\ WritesExist
    /\ StillDispatchable
    /\ NobodyWrites
    /\ RoomLeft
    /\ Q!QuotaRespected

DaySet(t, d) == {s \in Q!Reserved(t, d) : dispatchedDay[s] = d}

-----------------------------------------------------------------------------
(* Reservations *)

\* The sets that are counted are finite, and a smaller one counts less.
LEMMA ReservedFinite ==
    ASSUME LaunchAssumptions, NEW S \in SUBSET Scans, NEW T \in SUBSET S
    PROVE  /\ Cardinality(S) \in Nat /\ Cardinality(T) \in Nat
           /\ Cardinality(T) <= Cardinality(S)
<1>1. IsFiniteSet(S)
  BY FS_Subset, SameCounts DEF LaunchAssumptions, Q!FiniteAssumption
<1> QED
  BY <1>1, FS_Subset, FS_CardinalityType

\* A step that adds no reservation keeps the quota and the room that was counted.
LEMMA FewerReservations ==
    ASSUME LaunchAssumptions, LaunchInv, Q!TypeOK', HoldsTenant',
           \A t \in Tenants, d \in 1 .. MaxDay :
               /\ Q!Reserved(t, d)' \subseteq Q!Reserved(t, d)
               /\ DaySet(t, d)' \subseteq DaySet(t, d),
           \A r \in Requests : stage'[r] = "committing" =>
               /\ target'[r] = target[r] /\ now'[r] = now[r]
               /\ stage[r] = "committing" \/ Q!WithinQuota(r)
    PROVE  RoomLeft' /\ Q!QuotaRespected'
<1>1. \A t \in Tenants, d \in 1 .. MaxDay :
        /\ Q!Reserved(t, d) \subseteq Scans /\ DaySet(t, d) \subseteq Scans
        /\ Q!Reserved(t, d)' \subseteq Scans /\ DaySet(t, d)' \subseteq Scans
  BY DEF Q!Reserved, DaySet
<1>2. Q!QuotaRespected'
  <2> SUFFICES ASSUME NEW t \in Tenants, NEW d \in 1 .. MaxDay
               PROVE  Cardinality(DaySet(t, d)') <= scans_per_day[t]
    BY SameCounts DEF Q!QuotaRespected, DaySet
  <2>1. Cardinality(DaySet(t, d)) <= scans_per_day[t]
    BY SameCounts DEF LaunchInv, Q!QuotaRespected, DaySet
  <2>2. /\ Cardinality(DaySet(t, d)) \in Nat /\ Cardinality(DaySet(t, d)') \in Nat
        /\ Cardinality(DaySet(t, d)') <= Cardinality(DaySet(t, d))
    BY <1>1, ReservedFinite
  <2> QED
    BY <2>1, <2>2 DEF LaunchAssumptions, Q!LimitAssumption
<1>3. RoomLeft'
  <2> SUFFICES ASSUME NEW r \in Requests, stage'[r] = "committing"
               PROVE  Q!WithinQuota(r)'
    BY DEF RoomLeft
  <2> DEFINE t == TenantOf[target[r]]
             d == now[r]
  <2>1. t \in Tenants /\ d \in 1 .. MaxDay /\ target'[r] = target[r] /\ now'[r] = now[r]
    BY DEF LaunchAssumptions, Q!TenantAssumption, HoldsTenant, Q!TypeOK, LaunchInv
  <2>2. Cardinality(Q!Reserved(t, d)) + 1 <= scans_per_day[t]
    BY SameCounts DEF LaunchInv, RoomLeft, Q!WithinQuota
  <2>3. /\ Cardinality(Q!Reserved(t, d)) \in Nat /\ Cardinality(Q!Reserved(t, d)') \in Nat
        /\ Cardinality(Q!Reserved(t, d)') <= Cardinality(Q!Reserved(t, d))
    BY <1>1, <2>1, ReservedFinite
  <2>4. Cardinality(Q!Reserved(t, d)') + 1 <= scans_per_day[t]
    BY <2>1, <2>2, <2>3 DEF LaunchAssumptions, Q!LimitAssumption
  <2> QED
    BY <2>1, <2>4, SameCounts DEF Q!WithinQuota, Q!Reserved, Q!Exists
<1> QED
  BY <1>2, <1>3

\* A step that leaves the rows alone adds no reservation.
LEMMA SameReservations ==
    ASSUME LaunchAssumptions, UNCHANGED Q!rowVars
    PROVE  \A t \in Tenants, d \in 1 .. MaxDay :
               Q!Reserved(t, d)' = Q!Reserved(t, d) /\ DaySet(t, d)' = DaySet(t, d)
BY DEF Q!Reserved, DaySet, Q!Exists, Q!rowVars

-----------------------------------------------------------------------------
(* The invariant is inductive *)

LEMMA LaunchInit ==
    ASSUME LaunchAssumptions
    PROVE  Q!Init => LaunchInv
<1> SUFFICES ASSUME Q!Init PROVE LaunchInv
  OBVIOUS
<1>1. \A t \in Tenants, d \in 1 .. MaxDay : DaySet(t, d) = {}
  BY DEF Q!Init, DaySet, Q!Reserved, Q!Exists
<1>2. Q!QuotaRespected
  <2> SUFFICES ASSUME NEW t \in Tenants, NEW d \in 1 .. MaxDay
               PROVE  Cardinality(DaySet(t, d)) <= scans_per_day[t]
    BY SameCounts DEF Q!QuotaRespected, DaySet
  <2>1. Cardinality(DaySet(t, d)) = 0
    BY <1>1, FS_EmptySet
  <2> QED
    BY <2>1 DEF LaunchAssumptions, Q!LimitAssumption
<1> QED
  BY <1>2
     DEF LaunchAssumptions, Q!DayAssumption, Q!Init, LaunchInv, Q!TypeOK, HoldsTenant,
         AbsentIsFree, WritesExist, Q!Exists, StillDispatchable, NobodyWrites, RoomLeft,
         Q!RowStates, Q!RequestStates

\* The end of a request frees what it held and leaves the others alone.
LEMMA EndKeeps ==
    ASSUME LaunchAssumptions, LaunchInv, NEW r \in Requests, Q!EndRequest(r)
    PROVE  /\ HoldsTenant'
           /\ stage' \in [Requests -> Q!RequestStates]
           /\ target' \in [Requests -> Scans \cup {NoScan}]
           /\ now' \in [Requests -> 1 .. MaxDay]
           /\ tenantLock' \in [Tenants -> Requests \cup {NoRequest}]
           /\ \A q \in Requests : stage'[q] # "idle" =>
                  /\ q # r /\ stage'[q] = stage[q]
                  /\ target'[q] = target[q] /\ now'[q] = now[q]
<1> USE DEF LaunchInv
<1>1. /\ stage' \in [Requests -> Q!RequestStates]
      /\ target' \in [Requests -> Scans \cup {NoScan}]
      /\ now' \in [Requests -> 1 .. MaxDay]
      /\ tenantLock' \in [Tenants -> Requests \cup {NoRequest}]
  BY DEF LaunchAssumptions, Q!DayAssumption, Q!EndRequest, Q!TypeOK, Q!RequestStates
<1>2. \A q \in Requests : stage'[q] # "idle" =>
          /\ q # r /\ stage'[q] = stage[q]
          /\ target'[q] = target[q] /\ now'[q] = now[q]
  BY DEF Q!EndRequest, Q!TypeOK
<1>3. \A t \in Tenants : tenantLock[t] # r => tenantLock'[t] = tenantLock[t]
  BY DEF Q!EndRequest
<1>4. HoldsTenant'
  BY <1>2, <1>3 DEF LaunchAssumptions, Q!TenantAssumption, HoldsTenant
<1> QED
  BY <1>1, <1>2, <1>4

\* A request that ends without a COMMIT.
LEMMA LaunchRollback ==
    ASSUME LaunchAssumptions, LaunchInv, NEW r \in Requests, Q!EndRequest(r),
           UNCHANGED <<day, Q!rowVars>>
    PROVE  LaunchInv'
<1>1. Q!TypeOK' /\ HoldsTenant'
  BY EndKeeps DEF LaunchInv, Q!TypeOK, Q!rowVars
<1>2. AbsentIsFree' /\ WritesExist' /\ StillDispatchable' /\ NobodyWrites'
  BY EndKeeps DEF LaunchInv, AbsentIsFree, WritesExist, Q!Exists, StillDispatchable, NobodyWrites, Q!Dispatchable,
                  Q!rowVars
<1>3. RoomLeft' /\ Q!QuotaRespected'
  BY <1>1, EndKeeps, SameReservations, FewerReservations
<1> QED
  BY <1>1, <1>2, <1>3 DEF LaunchInv

\* The COMMIT adds one reservation, on the day that was counted.
LEMMA LaunchCommit ==
    ASSUME LaunchAssumptions, LaunchInv, NEW r \in Requests, Q!CommitDispatch(r)
    PROVE  LaunchInv'
<1> DEFINE x == target[r]
           t == TenantOf[x]
           n == now[r]
<1>1. /\ x \in Scans /\ t \in Tenants /\ n \in 1 .. MaxDay
      /\ tenantLock[t] = r /\ rowStatus[x] = "pending" /\ dispatchedDay[x] = 0
      /\ Cardinality(Q!Reserved(t, n)) + 1 <= scans_per_day[t]
  BY SameCounts
     DEF LaunchAssumptions, Q!TenantAssumption, LaunchInv, Q!TypeOK, Q!CommitDispatch,
         HoldsTenant, StillDispatchable,
     Q!Dispatchable, RoomLeft, Q!WithinQuota
<1>2. /\ dispatchedDay' = [dispatchedDay EXCEPT ![x] = n] /\ Q!EndRequest(r)
      /\ UNCHANGED <<day, rowStatus, started, uncommitted>>
  BY DEF Q!CommitDispatch
<1>3. Q!TypeOK' /\ HoldsTenant'
  BY <1>1, <1>2, EndKeeps DEF LaunchInv, Q!TypeOK
<1>4. AbsentIsFree' /\ WritesExist'
  BY <1>1, <1>2 DEF LaunchInv, Q!TypeOK, AbsentIsFree, WritesExist, Q!Exists
\* Whoever else is past its lock works for another tenant.
<1>5. \A q \in Requests : stage'[q] \in {"counting", "committing"} =>
          /\ stage[q] = stage'[q] /\ target'[q] = target[q] /\ now'[q] = now[q]
          /\ target[q] \in Scans /\ TenantOf[target[q]] # t
  BY <1>1, <1>2, EndKeeps DEF LaunchInv, HoldsTenant
<1>6. StillDispatchable' /\ NobodyWrites'
  BY <1>1, <1>2, <1>5 DEF LaunchInv, Q!TypeOK, StillDispatchable, NobodyWrites, Q!Dispatchable
<1>7. \A s \in Scans : s # x => dispatchedDay'[s] = dispatchedDay[s]
  BY <1>2 DEF LaunchInv, Q!TypeOK
<1>8. \A u \in Tenants, d \in 1 .. MaxDay : u # t => Q!Reserved(u, d)' = Q!Reserved(u, d)
  BY <1>2, <1>7 DEF Q!Reserved, Q!Exists
<1>9. RoomLeft'
  <2> SUFFICES ASSUME NEW q \in Requests, stage'[q] = "committing" PROVE Q!WithinQuota(q)'
    BY DEF RoomLeft
  <2>1. /\ Q!WithinQuota(q) /\ target'[q] = target[q] /\ now'[q] = now[q]
        /\ TenantOf[target[q]] \in Tenants \ {t} /\ now[q] \in 1 .. MaxDay
    BY <1>5 DEF LaunchAssumptions, Q!TenantAssumption, LaunchInv, RoomLeft, Q!TypeOK
  <2>2. Q!Reserved(TenantOf[target[q]], now[q])' = Q!Reserved(TenantOf[target[q]], now[q])
    BY <2>1, <1>8
  <2> QED
    BY <2>1, <2>2 DEF Q!WithinQuota, Q!Reserved, Q!Exists
<1>10. Q!QuotaRespected'
  <2> SUFFICES ASSUME NEW u \in Tenants, NEW d \in 1 .. MaxDay
               PROVE  Cardinality(DaySet(u, d)') <= scans_per_day[u]
    BY SameCounts DEF Q!QuotaRespected, DaySet
  <2>1. DaySet(u, d) \subseteq Scans /\ DaySet(u, d)' \subseteq Scans
        /\ Q!Reserved(u, d) \subseteq Scans
    BY DEF DaySet, Q!Reserved
  <2>2. CASE u = t /\ d = n
    <3>1. DaySet(u, d)' \subseteq Q!Reserved(u, d) \cup {x}
      BY <1>2, <1>7, <2>2 DEF DaySet, Q!Reserved, Q!Exists
    <3>2. IsFiniteSet(Q!Reserved(u, d))
      BY <2>1, FS_Subset, SameCounts DEF LaunchAssumptions, Q!FiniteAssumption
    <3>3. /\ IsFiniteSet(Q!Reserved(u, d) \cup {x})
          /\ Cardinality(Q!Reserved(u, d)) \in Nat
          /\ Cardinality(Q!Reserved(u, d) \cup {x}) <= Cardinality(Q!Reserved(u, d)) + 1
      <4> HIDE DEF x
      <4>1. Cardinality(Q!Reserved(u, d)) \in Nat
        BY <3>2, FS_CardinalityType
      <4>2. /\ IsFiniteSet(Q!Reserved(u, d) \cup {x})
            /\ Cardinality(Q!Reserved(u, d) \cup {x}) =
                 IF x \in Q!Reserved(u, d) THEN Cardinality(Q!Reserved(u, d))
                 ELSE Cardinality(Q!Reserved(u, d)) + 1
        BY <3>2, FS_AddElement
      <4> QED
        BY <4>1, <4>2
    <3>4. Cardinality(DaySet(u, d)') <= Cardinality(Q!Reserved(u, d) \cup {x})
      BY <3>1, <3>3, FS_Subset
    <3>5. /\ Cardinality(DaySet(u, d)') \in Nat
          /\ Cardinality(Q!Reserved(u, d) \cup {x}) \in Nat
      BY <2>1, <3>3, ReservedFinite, FS_CardinalityType
    <3> QED
      BY <1>1, <2>2, <3>3, <3>4, <3>5 DEF LaunchAssumptions, Q!LimitAssumption
  <2>3. CASE ~(u = t /\ d = n)
    <3>1. DaySet(u, d)' \subseteq DaySet(u, d)
      BY <1>1, <1>2, <1>7, <2>3 DEF DaySet, Q!Reserved, Q!Exists, LaunchInv, Q!TypeOK
    <3>2. /\ Cardinality(DaySet(u, d)) \in Nat /\ Cardinality(DaySet(u, d)') \in Nat
          /\ Cardinality(DaySet(u, d)') <= Cardinality(DaySet(u, d))
      BY <2>1, <3>1, ReservedFinite
    <3>3. Cardinality(DaySet(u, d)) <= scans_per_day[u]
      BY SameCounts DEF LaunchInv, Q!QuotaRespected, DaySet
    <3> QED
      BY <3>2, <3>3 DEF LaunchAssumptions, Q!LimitAssumption
  <2> QED
    BY <2>2, <2>3
<1> QED
  BY <1>3, <1>4, <1>6, <1>9, <1>10 DEF LaunchInv

\* The statements of a request before its end.
LEMMA LaunchStatement ==
    ASSUME LaunchAssumptions, LaunchInv, NEW r \in Requests,
           \/ \E s \in Scans : Q!BeginRun(r, s)
           \/ Q!LockTenant(r) \/ Q!SetDispatched(r) \/ Q!CountQuota(r)
    PROVE  LaunchInv'
<1> USE DEF LaunchInv
<1>1. UNCHANGED <<day, Q!rowVars>>
  BY DEF Q!BeginRun, Q!LockTenant, Q!SetDispatched, Q!CountQuota
<1>2. Q!TypeOK'
  BY <1>1
     DEF LaunchAssumptions, Q!TenantAssumption, Q!BeginRun, Q!LockTenant, Q!SetDispatched,
         Q!CountQuota, Q!TypeOK, Q!RequestStates, Q!rowVars,
         HoldsTenant
<1>3. HoldsTenant'
  BY
     DEF LaunchAssumptions, Q!TenantAssumption, Q!NullAssumption, Q!BeginRun,
         Q!LockTenant, Q!SetDispatched, Q!CountQuota, Q!TypeOK, HoldsTenant
<1>4. AbsentIsFree' /\ WritesExist' /\ StillDispatchable' /\ NobodyWrites'
  BY <1>1 DEF Q!BeginRun, Q!LockTenant, Q!SetDispatched, Q!CountQuota, Q!TypeOK, AbsentIsFree,
              WritesExist, Q!Exists, StillDispatchable, NobodyWrites, Q!Dispatchable, Q!Locked, Q!rowVars
<1>5. \A q \in Requests : stage'[q] = "committing" =>
          /\ target'[q] = target[q] /\ now'[q] = now[q]
          /\ stage[q] = "committing" \/ Q!WithinQuota(q)
  BY DEF Q!BeginRun, Q!LockTenant, Q!SetDispatched, Q!CountQuota, Q!TypeOK
<1>6. RoomLeft' /\ Q!QuotaRespected'
  BY <1>1, <1>2, <1>3, <1>5, SameReservations, FewerReservations
<1> QED
  BY <1>2, <1>3, <1>4, <1>6

\* Whatever else happens to a row takes a reservation away or leaves it.
LEMMA LaunchRow ==
    ASSUME LaunchAssumptions, LaunchInv, NEW s \in Scans, Q!RowStep(s)
    PROVE  LaunchInv'
<1> USE DEF LaunchInv
<1>1. UNCHANGED <<day, dispatchedDay, Q!requestVars>>
  BY DEF Q!RowStep, Q!CreateScan, Q!ClaimScan, Q!CancelScan, Q!DeleteScan, Q!Write,
         Q!CommitWrite, Q!RollbackWrite, Q!EndRun
<1>2. /\ rowStatus' \in [Scans -> Q!RowStates] /\ started' \in [Scans -> BOOLEAN]
      /\ uncommitted' \in [Scans -> {"none", "cancelled", "deleted"}]
      /\ \A x \in Scans \ {s} :
            /\ rowStatus'[x] = rowStatus[x] /\ started'[x] = started[x]
            /\ uncommitted'[x] = uncommitted[x]
      /\ rowStatus'[s] = "absent" => rowStatus[s] = "absent"
  BY DEF Q!RowStep, Q!CreateScan, Q!ClaimScan, Q!CancelScan, Q!DeleteScan, Q!Write,
         Q!CommitWrite, Q!RollbackWrite, Q!EndRun, Q!TypeOK, Q!RowStates
<1>3. Q!TypeOK' /\ HoldsTenant' /\ AbsentIsFree'
  BY <1>1, <1>2 DEF Q!TypeOK, HoldsTenant, AbsentIsFree, Q!requestVars
\* A row that is being dispatched is left alone; only one that is absent is created.
<1>4. Q!Dispatching(s) => rowStatus[s] = "absent"
  BY DEF Q!RowStep, Q!CreateScan, Q!ClaimScan, Q!CancelScan, Q!DeleteScan, Q!Write,
         Q!CommitWrite, Q!RollbackWrite, Q!EndRun, Q!Locked, Q!Dispatching, NobodyWrites
<1>e. WritesExist'
  BY <1>2 DEF Q!RowStep, Q!CreateScan, Q!ClaimScan, Q!CancelScan, Q!DeleteScan, Q!Write,
         Q!CommitWrite, Q!RollbackWrite, Q!EndRun, Q!Locked, WritesExist, Q!Exists, Q!TypeOK
<1>5. StillDispatchable' /\ NobodyWrites'
  BY <1>1, <1>2, <1>4
     DEF StillDispatchable, NobodyWrites, Q!Dispatchable, Q!Dispatching, Q!requestVars, HoldsTenant
<1>6. \A t \in Tenants, d \in 1 .. MaxDay :
        /\ Q!Reserved(t, d)' \subseteq Q!Reserved(t, d)
        /\ DaySet(t, d)' \subseteq DaySet(t, d)
  <2>1. dispatchedDay[s] # 0 /\ rowStatus'[s] # "deleted"
          /\ ~(rowStatus'[s] \in {"failed", "cancelled"} /\ ~started'[s])
        => Q!Exists(s) /\ ~(rowStatus[s] \in {"failed", "cancelled"} /\ ~started[s])
    BY DEF Q!RowStep, Q!CreateScan, Q!ClaimScan, Q!CancelScan, Q!DeleteScan, Q!Write,
         Q!CommitWrite, Q!RollbackWrite, Q!EndRun, AbsentIsFree, WritesExist, Q!Exists, Q!TypeOK
  <2> QED
    BY <1>1, <1>2, <2>1 DEF Q!Reserved, DaySet, Q!Exists
<1>7. RoomLeft' /\ Q!QuotaRespected'
  BY <1>1, <1>3, <1>6, FewerReservations DEF Q!requestVars
<1> QED
  BY <1>3, <1>e, <1>5, <1>7

LEMMA LaunchNext ==
    ASSUME LaunchAssumptions
    PROVE  LaunchInv /\ [Q!Next]_(Q!vars) => LaunchInv'
<1> SUFFICES ASSUME LaunchInv, [Q!Next]_(Q!vars) PROVE LaunchInv'
  OBVIOUS
<1>1. ASSUME NEW r \in Requests, Q!RequestStep(r) PROVE LaunchInv'
  <2>1. CASE Q!NotDispatchable(r) \/ Q!QuotaExceeded(r) \/ Q!AbortRun(r)
    BY <2>1, LaunchRollback DEF Q!NotDispatchable, Q!QuotaExceeded, Q!AbortRun
  <2> QED
    BY <1>1, <2>1, LaunchStatement, LaunchCommit DEF Q!RequestStep
<1>2. ASSUME NEW s \in Scans, Q!RowStep(s) PROVE LaunchInv'
  BY <1>2, LaunchRow
<1>3. CASE Q!Midnight \/ UNCHANGED Q!vars
  <2>1. UNCHANGED <<Q!rowVars, Q!requestVars>> /\ day' \in 1 .. MaxDay
    BY <1>3 DEF LaunchAssumptions, Q!DayAssumption, Q!Midnight, Q!vars, LaunchInv, Q!TypeOK
  <2>2. Q!TypeOK' /\ HoldsTenant' /\ AbsentIsFree' /\ WritesExist' /\ StillDispatchable' /\ NobodyWrites'
    BY <2>1 DEF LaunchInv, Q!TypeOK, HoldsTenant, AbsentIsFree, WritesExist,
                Q!Exists, StillDispatchable, NobodyWrites,
                Q!Dispatchable, Q!rowVars, Q!requestVars
  <2>3. RoomLeft' /\ Q!QuotaRespected'
    BY <2>1, <2>2, SameReservations, FewerReservations DEF Q!requestVars
  <2> QED
    BY <2>2, <2>3 DEF LaunchInv
<1> QED
  BY <1>1, <1>2, <1>3 DEF Q!Next

LEMMA LaunchInvariance ==
    ASSUME LaunchAssumptions
    PROVE  Q!Spec => []LaunchInv
BY LaunchInit, LaunchNext, PTL DEF Q!Spec

-----------------------------------------------------------------------------
\* dispatch_scan: no tenant ever holds more reservations of a day than its plan
\* allows, for any number of tenants, scans and concurrent requests.
THEOREM QuotaHolds ==
    ASSUME LaunchAssumptions
    PROVE  Q!Spec => []Q!QuotaRespected
<1>1. LaunchInv => Q!QuotaRespected
  BY DEF LaunchInv
<1> QED
  BY <1>1, LaunchInvariance, PTL

\* dispatch_scan: what commits is a dispatch of a row that was pending and free when
\* the conditional UPDATE looked and still is.
THEOREM OnlyPendingDispatched ==
    ASSUME LaunchAssumptions
    PROVE  Q!Spec => Q!DispatchesOnlyPending
<1>1. LaunchInv /\ [Q!Next]_(Q!vars) => [\A s \in Scans : dispatchedDay'[s] # dispatchedDay[s] =>
          dispatchedDay[s] = 0 /\ rowStatus[s] = "pending" /\ rowStatus'[s] = "pending"]_(Q!vars)
  <2> SUFFICES ASSUME LaunchInv, Q!Next, NEW s \in Scans, dispatchedDay'[s] # dispatchedDay[s]
               PROVE  dispatchedDay[s] = 0 /\ rowStatus[s] = "pending" /\ rowStatus'[s] = "pending"
    OBVIOUS
  <2>1. PICK r \in Requests : Q!CommitDispatch(r)
    BY DEF Q!Next, Q!RequestStep, Q!RowStep, Q!Midnight, Q!BeginRun, Q!LockTenant, Q!SetDispatched,
           Q!NotDispatchable, Q!CountQuota, Q!QuotaExceeded, Q!AbortRun, Q!CreateScan, Q!ClaimScan,
           Q!CancelScan, Q!DeleteScan, Q!Write, Q!CommitWrite, Q!RollbackWrite, Q!EndRun,
           Q!rowVars
  <2>2. target[r] = s
    BY <2>1 DEF Q!CommitDispatch, LaunchInv, Q!TypeOK
  <2> QED
    BY <2>1, <2>2 DEF Q!CommitDispatch, LaunchInv, StillDispatchable, Q!Dispatchable
<1> QED
  BY <1>1, LaunchInvariance, PTL DEF Q!Spec, Q!DispatchesOnlyPending
=============================================================================
