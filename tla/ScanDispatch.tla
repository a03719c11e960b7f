---------------------------- MODULE ScanDispatch ----------------------------
(***************************************************************************)
(* The daily quota: POST /scans/{id}/run as the database transaction it is, *)
(* interleaved with other such requests, with cancellation, execution and   *)
(* deletion of scans, and with midnight.                                    *)
(*                                                                          *)
(* Timestamps are modelled by their UTC day, the only part of them the      *)
(* quota looks at.  now() is the start of the transaction that calls it.    *)
(***************************************************************************)
EXTENDS Integers, FiniteSets

CONSTANTS
    Scans, Tenants, Requests,
    TenantOf,       \* the tenant of each scan
    scans_per_day,  \* the plan limit of each tenant
    MaxDay,         \* bound: days the model lives through
    NoScan, NoRequest

ASSUME TenantAssumption == TenantOf \in [Scans -> Tenants]
ASSUME LimitAssumption == scans_per_day \in [Tenants -> Nat]
ASSUME DayAssumption == MaxDay \in Nat \ {0}
ASSUME NullAssumption == NoScan \notin Scans /\ NoRequest \notin Requests
ASSUME FiniteAssumption == IsFiniteSet(Scans)

VARIABLES
    day,         \* the database clock
    status,      \* scans.status; "absent" before the INSERT, "deleted" after
    dispatched,  \* day of scans.dispatched_at; 0 is NULL
    started,     \* scans.started_at is set
    uncommitted, \* what an open cancellation or deletion makes of a row, or "none"
    tenantLock,  \* the request holding FOR NO KEY UPDATE on a tenant row
    pc,          \* where each request is in dispatch_scan
    target,      \* the scan it wants to run
    now          \* the day its transaction started

rowVars == <<status, dispatched, started, uncommitted>>
requestVars == <<tenantLock, pc, target, now>>
vars == <<day, rowVars, requestVars>>

RowStates == {"absent", "pending", "running", "completed", "failed", "cancelled", "deleted"}
RequestStates == {"idle", "locking", "updating", "counting", "committing"}

Exists(s) == status[s] \notin {"absent", "deleted"}

\* The conditional UPDATE of an open dispatch holds the lock of its row, and so does
\* the statement of an open cancellation or deletion.
Dispatching(s) == \E r \in Requests : target[r] = s /\ pc[r] \in {"counting", "committing"}
Locked(s) == Dispatching(s) \/ uncommitted[s] # "none"

\* The rows dispatch_scan counts for a tenant from a day on: all but those
\* that failed or were cancelled before they started.
Reserved(t, from) == {s \in Scans :
    /\ Exists(s)
    /\ TenantOf[s] = t
    /\ dispatched[s] # 0
    /\ dispatched[s] >= from
    /\ ~(status[s] \in {"failed", "cancelled"} /\ ~started[s])}

Init ==
    /\ day = 1
    /\ status = [s \in Scans |-> "absent"]
    /\ dispatched = [s \in Scans |-> 0]
    /\ started = [s \in Scans |-> FALSE]
    /\ uncommitted = [s \in Scans |-> "none"]
    /\ tenantLock = [t \in Tenants |-> NoRequest]
    /\ pc = [r \in Requests |-> "idle"]
    /\ target = [r \in Requests |-> NoScan]
    /\ now = [r \in Requests |-> 1]

-----------------------------------------------------------------------------
(* POST /scans/{id}/run *)

\* Commit and rollback both end the transaction and free what it locked.
EndRequest(r) ==
    /\ pc' = [pc EXCEPT ![r] = "idle"]
    /\ target' = [target EXCEPT ![r] = NoScan]
    /\ now' = [now EXCEPT ![r] = 1]
    /\ tenantLock' = [t \in Tenants |->
          IF tenantLock[t] = r THEN NoRequest ELSE tenantLock[t]]

\* The first statement, get_scan, fixes now(); a missing scan is a 404.
BeginRun(r, s) ==
    /\ pc[r] = "idle"
    /\ Exists(s)
    /\ pc' = [pc EXCEPT ![r] = "locking"]
    /\ target' = [target EXCEPT ![r] = s]
    /\ now' = [now EXCEPT ![r] = day]
    /\ UNCHANGED <<day, rowVars, tenantLock>>

LockTenant(r) ==
    /\ pc[r] = "locking"
    /\ tenantLock[TenantOf[target[r]]] = NoRequest
    /\ tenantLock' = [tenantLock EXCEPT ![TenantOf[target[r]]] = r]
    /\ pc' = [pc EXCEPT ![r] = "updating"]
    /\ UNCHANGED <<day, rowVars, target, now>>

Dispatchable(s) == status[s] = "pending" /\ dispatched[s] = 0

\* Fault: the UPDATE names the row without the condition on its state.
SetDispatchedBlindly(r) ==
    /\ pc[r] = "updating"
    /\ ~Locked(target[r])
    /\ pc' = [pc EXCEPT ![r] = "counting"]
    /\ UNCHANGED <<day, rowVars, tenantLock, target, now>>

\* The UPDATE waits for the lock of the row, then looks at it again.
SetDispatched(r) ==
    /\ pc[r] = "updating"
    /\ ~Locked(target[r])
    /\ Dispatchable(target[r])
    /\ pc' = [pc EXCEPT ![r] = "counting"]
    /\ UNCHANGED <<day, rowVars, tenantLock, target, now>>

\* Fault: the transaction is left open, and its lock with it.
NotDispatchableKeepsLock(r) ==
    /\ pc[r] = "updating"
    /\ ~Locked(target[r])
    /\ ~Dispatchable(target[r])
    /\ pc' = [pc EXCEPT ![r] = "idle"]
    /\ UNCHANGED <<day, rowVars, tenantLock, target, now>>

NotDispatchable(r) ==
    /\ pc[r] = "updating"
    /\ ~Locked(target[r])
    /\ ~Dispatchable(target[r])
    /\ EndRequest(r)
    /\ UNCHANGED <<day, rowVars>>

\* Fault: the comparison forgets that the count includes this very scan.
WithinQuotaOffByOne(r) ==
    LET t == TenantOf[target[r]]
    IN  Cardinality(Reserved(t, now[r])) <= scans_per_day[t]

\* The count sees the committed rows and the row this transaction updated.
WithinQuota(r) ==
    LET t == TenantOf[target[r]]
    IN  Cardinality(Reserved(t, now[r])) + 1 <= scans_per_day[t]

CountQuota(r) ==
    /\ pc[r] = "counting"
    /\ WithinQuota(r)
    /\ pc' = [pc EXCEPT ![r] = "committing"]
    /\ UNCHANGED <<day, rowVars, tenantLock, target, now>>

QuotaExceeded(r) ==
    /\ pc[r] = "counting"
    /\ ~WithinQuota(r)
    /\ EndRequest(r)
    /\ UNCHANGED <<day, rowVars>>

CommitDispatch(r) ==
    /\ pc[r] = "committing"
    /\ dispatched' = [dispatched EXCEPT ![target[r]] = now[r]]
    /\ EndRequest(r)
    /\ UNCHANGED <<day, status, started, uncommitted>>

\* A statement or lock timeout, or the death of the API process.
AbortRun(r) ==
    /\ pc[r] # "idle"
    /\ EndRequest(r)
    /\ UNCHANGED <<day, rowVars>>

-----------------------------------------------------------------------------
(* What else happens to the rows meanwhile *)

CreateScan(s) ==
    /\ status[s] = "absent"
    /\ status' = [status EXCEPT ![s] = "pending"]
    /\ UNCHANGED <<day, dispatched, started, uncommitted, requestVars>>

\* A locked row is skipped, not waited for.
ClaimScan(s) ==
    /\ status[s] = "pending" /\ dispatched[s] # 0
    /\ ~Locked(s)
    /\ status' = [status EXCEPT ![s] = "running"]
    /\ started' = [started EXCEPT ![s] = TRUE]
    /\ UNCHANGED <<day, dispatched, uncommitted, requestVars>>

EndRun(s, outcome) ==
    /\ status[s] = "running"
    /\ ~Locked(s)
    /\ status' = [status EXCEPT ![s] = outcome]
    /\ UNCHANGED <<day, dispatched, started, uncommitted, requestVars>>

\* A statement of another request gets the lock of the row and changes it, ...
Write(s, outcome) ==
    /\ ~Locked(s)
    /\ uncommitted' = [uncommitted EXCEPT ![s] = outcome]
    /\ UNCHANGED <<day, status, dispatched, started, requestVars>>

CancelScan(s) == status[s] \in {"pending", "running"} /\ Write(s, "cancelled")
DeleteScan(s) == Exists(s) /\ Write(s, "deleted")

\* ... which its COMMIT shows to the others; dispatched and started of a row that is
\* gone keep what it said.
CommitWrite(s) ==
    /\ uncommitted[s] # "none"
    /\ status' = [status EXCEPT ![s] = uncommitted[s]]
    /\ uncommitted' = [uncommitted EXCEPT ![s] = "none"]
    /\ UNCHANGED <<day, dispatched, started, requestVars>>

RollbackWrite(s) ==
    /\ uncommitted[s] # "none"
    /\ uncommitted' = [uncommitted EXCEPT ![s] = "none"]
    /\ UNCHANGED <<day, status, dispatched, started, requestVars>>

Midnight ==
    /\ day < MaxDay
    /\ day' = day + 1
    /\ UNCHANGED <<rowVars, requestVars>>

-----------------------------------------------------------------------------
RequestStep(r) ==
    \/ \E s \in Scans : BeginRun(r, s)
    \/ LockTenant(r)
    \/ SetDispatched(r) \/ NotDispatchable(r)
    \/ CountQuota(r) \/ QuotaExceeded(r)
    \/ CommitDispatch(r) \/ AbortRun(r)

RowStep(s) ==
    \/ CreateScan(s) \/ ClaimScan(s) \/ CancelScan(s) \/ DeleteScan(s)
    \/ CommitWrite(s) \/ RollbackWrite(s)
    \/ \E outcome \in {"completed", "failed", "cancelled"} : EndRun(s, outcome)

Next ==
    \/ \E r \in Requests : RequestStep(r)
    \/ \E s \in Scans : RowStep(s)
    \/ Midnight

Spec == Init /\ [][Next]_vars

\* PostgreSQL answers the waiters for a lock in turn, and a request that can
\* take its next statement takes it; a cancellation or deletion commits or rolls
\* back.  AbortRun is never relied upon.
FairSpec ==
    /\ Spec
    /\ \A r \in Requests :
        /\ SF_vars(LockTenant(r))
        /\ SF_vars(SetDispatched(r) \/ NotDispatchable(r))
        /\ WF_vars(CountQuota(r) \/ QuotaExceeded(r))
        /\ WF_vars(CommitDispatch(r))
    /\ \A s \in Scans : WF_vars(CommitWrite(s) \/ RollbackWrite(s))

-----------------------------------------------------------------------------
(* Properties *)

TypeOK ==
    /\ day \in 1 .. MaxDay
    /\ status \in [Scans -> RowStates]
    /\ dispatched \in [Scans -> 0 .. MaxDay]
    /\ started \in [Scans -> BOOLEAN]
    /\ uncommitted \in [Scans -> {"none", "cancelled", "deleted"}]
    /\ tenantLock \in [Tenants -> Requests \cup {NoRequest}]
    /\ pc \in [Requests -> RequestStates]
    /\ target \in [Requests -> Scans \cup {NoScan}]
    /\ now \in [Requests -> 1 .. MaxDay]

\* "Reserve daily quota atomically": on no day does a tenant hold more
\* reservations than its plan allows, however requests, cancellations and
\* midnight interleave with the count.  A deletion takes a reservation out of it.
QuotaRespected == \A t \in Tenants, d \in 1 .. MaxDay :
    Cardinality({s \in Reserved(t, d) : dispatched[s] = d}) <= scans_per_day[t]

\* A dispatch is committed only onto a row that is still pending and was not
\* dispatched before: no cancellation, claim or second request slips between
\* the conditional UPDATE and the COMMIT.
DispatchesOnlyPending == [][\A s \in Scans :
    dispatched'[s] # dispatched[s] =>
        dispatched[s] = 0 /\ status[s] = "pending" /\ status'[s] = "pending"]_vars

\* Every run request is answered: no two of them wait for one another, nor for a
\* cancellation that holds the row while they hold the tenant's.
RequestIsAnswered == \A r \in Requests : pc[r] # "idle" ~> pc[r] = "idle"
=============================================================================
