------------------------------ MODULE DistLock ------------------------------
(***************************************************************************)
(* acquire_dist_lock on one key, as the deactivation dependencies use it.   *)
(* A request takes the lock once, so it stands for its random token.  A     *)
(* command is applied by Redis in one step and its reply is acted on in a   *)
(* later one; a command that is cancelled or raises may be applied before,  *)
(* after or not at all.                                                     *)
(***************************************************************************)
EXTENDS Naturals

CONSTANTS
    Requests,
    Processes,
    ProcessOf,   \* the API process that serves each request
    None,
    MaxFaults    \* bound: commands that raise or are cancelled, and crashes

ASSUME ProcessAssumption == ProcessOf \in [Requests -> Processes]
ASSUME NoneAssumption == None \notin Requests
ASSUME FaultsAssumption == MaxFaults \in Nat

VARIABLES
    lease,    \* the token stored at the key
    expired,  \* tokens whose lease ran out
    late,     \* requests that gave up a SET which Redis has still to apply
    active,   \* _ACTIVE_TOKENS of each process at the key
    pc,       \* where each request is
    attempt,  \* whether it waits for its first SET or for the retry
    lost,     \* handles with _lost set
    faults

vars == <<lease, expired, late, active, pc, attempt, lost, faults>>

States == {"setting", "granted", "denied", "held", "exiting", "released",
           "not_owner", "done", "refused", "dead"}

Init ==
    /\ lease = None /\ expired = {} /\ late = {}
    /\ active = [p \in Processes |-> None]
    /\ pc = [r \in Requests |-> "setting"]
    /\ attempt = [r \in Requests |-> 1]
    /\ lost = {} /\ faults = 0

Goto(r, label) == pc' = [pc EXCEPT ![r] = label]
Fault == faults < MaxFaults /\ faults' = faults + 1
Proc(r) == ProcessOf[r]

\* SET key token NX PX ttl
SetNX(r) == lease' = IF lease = None THEN r ELSE lease

-----------------------------------------------------------------------------
(* acquire_dist_lock *)

SetLock(r) ==
    /\ pc[r] = "setting"
    /\ SetNX(r)
    /\ Goto(r, IF lease' = r THEN "granted" ELSE "denied")
    /\ UNCHANGED <<expired, late, active, attempt, lost, faults>>

Granted(r) ==
    /\ pc[r] = "granted"
    /\ active' = [active EXCEPT ![Proc(r)] = r]
    /\ Goto(r, "held")
    /\ UNCHANGED <<lease, expired, late, attempt, lost, faults>>

\* Refused: lock_reentry when the process has a token for the key, lock_timeout
\* after the retry.
Denied(r) ==
    /\ pc[r] = "denied"
    /\ IF attempt[r] = 1 /\ active[Proc(r)] = None
          THEN /\ Goto(r, "setting")
               /\ attempt' = [attempt EXCEPT ![r] = 2]
          ELSE /\ Goto(r, "refused")
               /\ UNCHANGED attempt
    /\ UNCHANGED <<lease, expired, late, active, lost, faults>>

\* wait_for gives the retry up, before its SET is sent or while it is travelling.
WaitTimesOut(r) ==
    /\ attempt[r] = 2
    /\ \/ pc[r] = "setting" /\ late' \in {late, late \cup {r}}
       \/ pc[r] \in {"granted", "denied"} /\ UNCHANGED late
    /\ Goto(r, "refused")
    /\ UNCHANGED <<lease, expired, active, attempt, lost, faults>>

\* The SET raises or its request is cancelled.
SetRaises(r) ==
    /\ Fault
    /\ \/ pc[r] = "setting" /\ late' \in {late, late \cup {r}}
       \/ pc[r] \in {"granted", "denied"} /\ UNCHANGED late
    /\ Goto(r, "refused")
    /\ UNCHANGED <<lease, expired, active, attempt, lost>>

ApplyLate(r) ==
    /\ r \in late
    /\ late' = late \ {r}
    /\ SetNX(r)
    /\ UNCHANGED <<expired, active, pc, attempt, lost, faults>>

-----------------------------------------------------------------------------
(* LockHandle *)

\* _mark_lost
MarkLost(r) ==
    /\ lost' = lost \cup {r}
    /\ active' = [active EXCEPT ![Proc(r)] = IF @ = r THEN None ELSE @]

\* A renewal that succeeds leaves everything as it is: only its failure shows.
RenewNotOwner(r) ==
    /\ pc[r] = "held" /\ r \notin lost
    /\ lease # r
    /\ MarkLost(r)
    /\ UNCHANGED <<lease, expired, late, pc, attempt, faults>>

\* The dependency's body ends: it committed or rolled back.
Exit(r) ==
    /\ pc[r] = "held"
    /\ Goto(r, "exiting")
    /\ UNCHANGED <<lease, expired, late, active, attempt, lost, faults>>

\* Mutant: DEL without comparing the token.
DeleteAnyLease(r) == lease' = None

\* RELEASE_LUA deletes the key only when it still holds the token.
DeleteOwnLease(r) == lease' = IF lease = r THEN None ELSE lease

Release(r) ==
    /\ pc[r] = "exiting" /\ r \notin lost
    /\ DeleteOwnLease(r)
    /\ Goto(r, IF lease = r THEN "released" ELSE "not_owner")
    /\ UNCHANGED <<expired, late, active, attempt, lost, faults>>

ReleaseLost(r) ==
    /\ pc[r] = "exiting" /\ r \in lost
    /\ Goto(r, "done")
    /\ UNCHANGED <<lease, expired, late, active, attempt, lost, faults>>

\* The pop after a successful release does not look at the token it removes.
Released(r) ==
    /\ pc[r] = "released"
    /\ active' = [active EXCEPT ![Proc(r)] = None]
    /\ Goto(r, "done")
    /\ UNCHANGED <<lease, expired, late, attempt, lost, faults>>

NotOwner(r) ==
    /\ pc[r] = "not_owner"
    /\ MarkLost(r)
    /\ Goto(r, "done")
    /\ UNCHANGED <<lease, expired, late, attempt, faults>>

\* The token stays in _ACTIVE_TOKENS, and the lease too if Redis was not reached.
ReleaseRaises(r) ==
    /\ pc[r] = "exiting" /\ r \notin lost
    /\ Fault
    /\ DeleteOwnLease(r) \/ UNCHANGED lease
    /\ Goto(r, "done")
    /\ UNCHANGED <<expired, late, active, attempt, lost>>

-----------------------------------------------------------------------------
(* Redis and the processes *)

\* The TTL runs out.  Nothing in the deactivation flows renews the lease.
Expire ==
    /\ lease # None
    /\ lease' = None
    /\ expired' = expired \cup {lease}
    /\ UNCHANGED <<late, active, pc, attempt, lost, faults>>

Crash(p) ==
    /\ Fault
    /\ active' = [active EXCEPT ![p] = None]
    /\ pc' = [r \in Requests |->
                IF Proc(r) = p /\ pc[r] \notin {"done", "refused"} THEN "dead" ELSE pc[r]]
    /\ UNCHANGED <<lease, expired, late, attempt, lost>>

Next ==
    \/ \E r \in Requests :
        \/ SetLock(r) \/ Granted(r) \/ Denied(r) \/ WaitTimesOut(r) \/ SetRaises(r)
        \/ ApplyLate(r)
        \/ RenewNotOwner(r) \/ Exit(r) \/ Release(r) \/ ReleaseLost(r) \/ Released(r)
        \/ NotOwner(r) \/ ReleaseRaises(r)
    \/ Expire
    \/ \E p \in Processes : Crash(p)

Spec == Init /\ [][Next]_vars

-----------------------------------------------------------------------------
(* Properties *)

TypeOK ==
    /\ lease \in Requests \cup {None}
    /\ expired \subseteq Requests /\ late \subseteq Requests /\ lost \subseteq Requests
    /\ active \in [Processes -> Requests \cup {None}]
    /\ pc \in [Requests -> States]
    /\ attempt \in [Requests -> 1 .. 2]
    /\ faults \in 0 .. MaxFaults

\* A request that was granted the lock owns the lease until its TTL runs out:
\* no late SET, foreign release or crash takes it away.  Two requests are in
\* their critical sections together only after an expiry.
HolderOwnsLease ==
    \A r \in Requests :
        pc[r] \in {"granted", "held", "exiting"} => lease = r \/ r \in expired

\* A handle marked lost has no lease, so that release may skip Redis for it.
LostHasNoLease == \A r \in lost : lease # r

\* A SET still travelling belongs to a request that was refused.
LateIsRefused == \A r \in late : pc[r] = "refused"

\* A request told that it is not the owner never becomes the owner again.
NotOwnerHasNoLease == \A r \in Requests : pc[r] = "not_owner" => lease # r

\* A handle is marked lost while its request holds the lock or as it ends.
LostWasHeld == \A r \in lost : pc[r] \in {"held", "exiting", "done", "dead"}

Inv ==
    /\ TypeOK /\ HolderOwnsLease /\ LostHasNoLease
    /\ LateIsRefused /\ NotOwnerHasNoLease /\ LostWasHeld

=============================================================================
