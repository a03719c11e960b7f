---------------------------- MODULE AuthSessions ----------------------------
(***************************************************************************)
(* The sessions of one user: login, refresh, logout, and what revokes every *)
(* session: change of password and deactivation, of the user or of the      *)
(* whole tenant.  A request is one PostgreSQL transaction (READ             *)
(* COMMITTED) interleaved with single Redis commands that no rollback       *)
(* undoes.                                                                  *)
(*                                                                          *)
(* A session is a refresh token and the access token issued with it.  It is *)
(* numbered when its transaction starts, which is its created_at.  What an  *)
(* open transaction has written lives in the variables of its request and   *)
(* reaches the tables with Commit.                                          *)
(***************************************************************************)
EXTENDS Integers, FiniteSets

CONSTANTS
    Requests,             \* requests in progress at one time
    NoRequest,
    MaxSession,           \* bound: sessions the model issues
    MaxPassword,          \* bound: passwords the user has had
    MaxExpired,           \* bound: refresh tokens that outlive expires_at
    MAX_ACTIVE_SESSIONS

ASSUME BoundsAssumption ==
    /\ MaxSession \in Nat
    /\ MaxPassword \in Nat
    /\ MaxExpired \in Nat
    /\ MAX_ACTIVE_SESSIONS \in Nat \ {0}
ASSUME NoRequestAssumption == NoRequest \notin Requests

Sessions == 1 .. MaxSession

VARIABLES
    password,  \* users.hashed_password, as a version
    active,    \* users.is_active
    tenantActive,  \* tenants.is_active
    token,     \* refresh_tokens: "absent", "live" or "revoked"
    expired,   \* refresh tokens past their expires_at
    parent,    \* the session whose refresh issued this one; 0 for a login
    origin,    \* the password its login was checked against
    tracked,   \* active_jtis:{user}
    denied,    \* revoked:{jti} entries
    issued,    \* sessions numbered so far
    userLock, capLock, rowLock,  \* holders of the user row, the advisory lock
                                 \* and the refresh token rows
    kind, pc,  \* what each request is and where it is
    fresh,     \* the session it is about to issue; 0 is none
    old,       \* the session it was sent with; 0 is none
    seen,      \* the password of the user row it read
    doomed,    \* refresh tokens its transaction revokes
    todo       \* jtis it read and has still to deny

userVars == <<password, active, tenantActive>>
tokenVars == <<token, expired, parent, origin, issued>>
redisVars == <<tracked, denied>>
lockVars == <<userLock, capLock, rowLock>>
requestVars == <<kind, pc, fresh, old, seen, doomed, todo>>
vars == <<userVars, tokenVars, redisVars, lockVars, requestVars>>

Revocations == {"password", "deactivate", "tenant"}
Kinds == {"none", "login", "refresh", "logout"} \cup Revocations
RequestStates == {"idle", "checking", "tracking", "capping", "touching", "counting",
                  "choosing", "denying", "untracking", "loading", "snapshot",
                  "flushing", "reading", "revoking", "committing"}

Live == {k \in Sessions : token[k] = "live"}
ActiveTokens == Live \ expired

Init ==
    /\ password = 0 /\ active = TRUE /\ tenantActive = TRUE
    /\ token = [k \in Sessions |-> "absent"]
    /\ expired = {}
    /\ parent = [k \in Sessions |-> 0]
    /\ origin = [k \in Sessions |-> 0]
    /\ tracked = {} /\ denied = {} /\ issued = 0
    /\ userLock = NoRequest /\ capLock = NoRequest
    /\ rowLock = [k \in Sessions |-> NoRequest]
    /\ kind = [r \in Requests |-> "none"]
    /\ pc = [r \in Requests |-> "idle"]
    /\ fresh = [r \in Requests |-> 0]
    /\ old = [r \in Requests |-> 0]
    /\ seen = [r \in Requests |-> 0]
    /\ doomed = [r \in Requests |-> {}]
    /\ todo = [r \in Requests |-> {}]

Goto(r, label) == pc' = [pc EXCEPT ![r] = label]

\* The end of a transaction frees its locks.
EndRequest(r) ==
    /\ kind' = [kind EXCEPT ![r] = "none"]
    /\ Goto(r, "idle")
    /\ fresh' = [fresh EXCEPT ![r] = 0]
    /\ old' = [old EXCEPT ![r] = 0]
    /\ seen' = [seen EXCEPT ![r] = 0]
    /\ doomed' = [doomed EXCEPT ![r] = {}]
    /\ todo' = [todo EXCEPT ![r] = {}]
    /\ userLock' = IF userLock = r THEN NoRequest ELSE userLock
    /\ capLock' = IF capLock = r THEN NoRequest ELSE capLock
    /\ rowLock' = [k \in Sessions |-> IF rowLock[k] = r THEN NoRequest ELSE rowLock[k]]

-----------------------------------------------------------------------------
(* The requests begin *)

\* The password is checked against the row as it was read here.
BeginLogin(r) ==
    /\ pc[r] = "idle"
    /\ active /\ tenantActive
    /\ issued < MaxSession
    /\ issued' = issued + 1
    /\ kind' = [kind EXCEPT ![r] = "login"]
    /\ fresh' = [fresh EXCEPT ![r] = issued + 1]
    /\ seen' = [seen EXCEPT ![r] = password]
    /\ Goto(r, "tracking")
    /\ UNCHANGED <<userVars, token, expired, parent, origin, redisVars, lockVars,
                   old, doomed, todo>>

\* Fault: the token is read without FOR UPDATE.
BeginRefreshUnlocked(r, k) ==
    /\ pc[r] = "idle"
    /\ k \in ActiveTokens
    /\ issued < MaxSession
    /\ issued' = issued + 1
    /\ kind' = [kind EXCEPT ![r] = "refresh"]
    /\ fresh' = [fresh EXCEPT ![r] = issued + 1]
    /\ old' = [old EXCEPT ![r] = k]
    /\ seen' = [seen EXCEPT ![r] = origin[k]]
    /\ doomed' = [doomed EXCEPT ![r] = {k}]
    /\ Goto(r, "checking")
    /\ UNCHANGED <<userVars, token, expired, parent, origin, redisVars, lockVars, todo>>

\* FOR UPDATE SKIP LOCKED: a revoked, expired or locked token is a 401.
BeginRefresh(r, k) ==
    /\ pc[r] = "idle"
    /\ k \in ActiveTokens
    /\ rowLock[k] = NoRequest
    /\ issued < MaxSession
    /\ issued' = issued + 1
    /\ kind' = [kind EXCEPT ![r] = "refresh"]
    /\ fresh' = [fresh EXCEPT ![r] = issued + 1]
    /\ old' = [old EXCEPT ![r] = k]
    /\ seen' = [seen EXCEPT ![r] = origin[k]]
    /\ doomed' = [doomed EXCEPT ![r] = {k}]
    /\ rowLock' = [rowLock EXCEPT ![k] = r]
    /\ Goto(r, "checking")
    /\ UNCHANGED <<userVars, token, expired, parent, origin, redisVars, userLock,
                   capLock, todo>>

\* get_current_user accepts the access token of k.
Authenticated(k) == active /\ tenantActive /\ token[k] # "absent" /\ k \notin denied

BeginLogout(r, k) ==
    /\ pc[r] = "idle"
    /\ Authenticated(k)
    /\ kind' = [kind EXCEPT ![r] = "logout"]
    /\ old' = [old EXCEPT ![r] = k]
    /\ Goto(r, "denying")
    /\ UNCHANGED <<userVars, tokenVars, redisVars, lockVars, fresh, seen, doomed, todo>>

\* The current password is verified; its hash is replaced in memory.
BeginChangePassword(r, k) ==
    /\ pc[r] = "idle"
    /\ Authenticated(k)
    /\ kind' = [kind EXCEPT ![r] = "password"]
    /\ Goto(r, "touching")
    /\ UNCHANGED <<userVars, tokenVars, redisVars, lockVars, fresh, old, seen, doomed, todo>>

\* By an administrator of the tenant.
BeginDeactivate(r) ==
    /\ pc[r] = "idle"
    /\ active
    /\ kind' = [kind EXCEPT ![r] = "deactivate"]
    /\ Goto(r, "touching")
    /\ UNCHANGED <<userVars, tokenVars, redisVars, lockVars, fresh, old, seen, doomed, todo>>

\* The tenant's row and the rows of all its users, this one among them.
BeginDeactivateTenant(r) ==
    /\ pc[r] = "idle"
    /\ tenantActive
    /\ kind' = [kind EXCEPT ![r] = "tenant"]
    /\ Goto(r, "touching")
    /\ UNCHANGED <<userVars, tokenVars, redisVars, lockVars, fresh, old, seen, doomed, todo>>

\* PATCH is_active = true, in one statement.
Reactivate ==
    /\ ~active
    /\ userLock = NoRequest
    /\ active' = TRUE
    /\ UNCHANGED <<password, tenantActive, tokenVars, redisVars, lockVars, requestVars>>

\* PATCH of the tenant; its users stay as they are.
ReactivateTenant ==
    /\ ~tenantActive
    /\ tenantActive' = TRUE
    /\ UNCHANGED <<password, active, tokenVars, redisVars, lockVars, requestVars>>

-----------------------------------------------------------------------------
(* Issuing a session: login and refresh *)

CheckUser(r) ==
    /\ pc[r] = "checking"
    /\ IF active /\ tenantActive
       THEN /\ Goto(r, "capping")
            /\ UNCHANGED <<kind, fresh, old, seen, doomed, todo, lockVars>>
       ELSE EndRequest(r)
    /\ UNCHANGED <<userVars, tokenVars, redisVars>>

\* track_jti: a login does it before its transaction writes anything, a refresh
\* when the rotation is done.
TrackJti(r) ==
    /\ pc[r] = "tracking"
    /\ tracked' = tracked \cup {fresh[r]}
    /\ Goto(r, IF kind[r] = "login" THEN "capping" ELSE "flushing")
    /\ UNCHANGED <<userVars, tokenVars, denied, lockVars, kind, fresh, old, seen, doomed, todo>>

AcquireSessionCapLock(r) ==
    /\ pc[r] = "capping"
    /\ capLock = NoRequest
    /\ capLock' = r
    /\ Goto(r, IF kind[r] = "login" THEN "touching" ELSE "counting")
    /\ UNCHANGED <<userVars, tokenVars, redisVars, userLock, rowLock,
                   kind, fresh, old, seen, doomed, todo>>

\* The UPDATE of the user row: last_login_at, flushed by the count that follows,
\* hashed_password or is_active (with the tenant's row before it).
TouchUser(r) ==
    /\ pc[r] = "touching"
    /\ userLock = NoRequest
    /\ userLock' = r
    /\ Goto(r, IF kind[r] = "login" THEN "counting" ELSE "snapshot")
    /\ UNCHANGED <<userVars, tokenVars, redisVars, capLock, rowLock,
                   kind, fresh, old, seen, doomed, todo>>

\* After the rotation a refresh denies the old access token, if it was sent one.
AfterCount(r) ==
    IF kind[r] = "login" THEN {"flushing"} ELSE {"denying", "tracking"}

\* Fault: one session too many before one is evicted.
CountSessionsOffByOne(r) ==
    /\ pc[r] = "counting"
    /\ IF Cardinality(ActiveTokens \ doomed[r]) > MAX_ACTIVE_SESSIONS
       THEN Goto(r, "choosing")
       ELSE \E label \in AfterCount(r) : Goto(r, label)
    /\ UNCHANGED <<userVars, tokenVars, redisVars, lockVars, kind, fresh, old, seen, doomed, todo>>

CountSessions(r) ==
    /\ pc[r] = "counting"
    /\ IF Cardinality(ActiveTokens \ doomed[r]) >= MAX_ACTIVE_SESSIONS
       THEN Goto(r, "choosing")
       ELSE \E label \in AfterCount(r) : Goto(r, label)
    /\ UNCHANGED <<userVars, tokenVars, redisVars, lockVars, kind, fresh, old, seen, doomed, todo>>

\* The oldest token that is not revoked, expired or not; its UPDATE is left to
\* the flush.
EvictOldest(r) ==
    /\ pc[r] = "choosing"
    /\ doomed' = [doomed EXCEPT ![r] = @ \cup
          {k \in Live \ doomed[r] : \A j \in Live \ doomed[r] : k <= j}]
    /\ \E label \in AfterCount(r) : Goto(r, label)
    /\ UNCHANGED <<userVars, tokenVars, redisVars, lockVars, kind, fresh, old, seen, todo>>

DenyOld(r) ==
    /\ pc[r] = "denying"
    /\ denied' = denied \cup {old[r]}
    /\ Goto(r, "untracking")
    /\ UNCHANGED <<userVars, tokenVars, tracked, lockVars, kind, fresh, old, seen, doomed, todo>>

UntrackOld(r) ==
    /\ pc[r] = "untracking"
    /\ tracked' = tracked \ {old[r]}
    /\ Goto(r, IF kind[r] = "refresh" THEN "tracking" ELSE "loading")
    /\ UNCHANGED <<userVars, tokenVars, denied, lockVars, kind, fresh, old, seen, doomed, todo>>

\* logout reads its token without a lock.
LoadToken(r) ==
    /\ pc[r] = "loading"
    /\ doomed' = [doomed EXCEPT ![r] = {old[r]} \cap Live]
    /\ Goto(r, "flushing")
    /\ UNCHANGED <<userVars, tokenVars, redisVars, lockVars, kind, fresh, old, seen, todo>>

-----------------------------------------------------------------------------
(* Revoking every session: change of password and deactivation *)

\* The UPDATE of refresh_tokens looks for its rows in one snapshot.
SnapshotTokens(r) ==
    /\ pc[r] = "snapshot"
    /\ doomed' = [doomed EXCEPT ![r] = Live]
    /\ Goto(r, "flushing")
    /\ UNCHANGED <<userVars, tokenVars, redisVars, lockVars, kind, fresh, old, seen, todo>>

\* An UPDATE waits for the lock of each of its rows.
LockRow(r, k) ==
    /\ pc[r] = "flushing"
    /\ k \in doomed[r]
    /\ rowLock[k] = NoRequest
    /\ rowLock' = [rowLock EXCEPT ![k] = r]
    /\ UNCHANGED <<userVars, tokenVars, redisVars, userLock, capLock, requestVars>>

RowsLocked(r) ==
    /\ pc[r] = "flushing"
    /\ \A k \in doomed[r] : rowLock[k] = r
    /\ Goto(r, IF kind[r] \in Revocations THEN "reading" ELSE "committing")
    /\ UNCHANGED <<userVars, tokenVars, redisVars, lockVars, kind, fresh, old, seen, doomed, todo>>

\* SMEMBERS; an empty set is left alone.
ReadJtis(r) ==
    /\ pc[r] = "reading"
    /\ todo' = [todo EXCEPT ![r] = tracked]
    /\ Goto(r, IF tracked = {} THEN "committing" ELSE "revoking")
    /\ UNCHANGED <<userVars, tokenVars, redisVars, lockVars, kind, fresh, old, seen, doomed>>

\* One SET after the other, in the order of the random jtis.
DenyNext(r, k) ==
    /\ pc[r] = "revoking"
    /\ k \in todo[r]
    /\ denied' = denied \cup {k}
    /\ todo' = [todo EXCEPT ![r] = @ \ {k}]
    /\ UNCHANGED <<userVars, tokenVars, tracked, lockVars, kind, pc, fresh, old, seen, doomed>>

\* Fault: the set is deleted whatever was denied.
DropSetEarly(r) ==
    /\ pc[r] = "revoking"
    /\ tracked' = {}
    /\ Goto(r, "committing")
    /\ UNCHANGED <<userVars, tokenVars, denied, lockVars, kind, fresh, old, seen, doomed, todo>>

\* DEL active_jtis, only after every SET succeeded.
DropSet(r) ==
    /\ pc[r] = "revoking"
    /\ todo[r] = {}
    /\ tracked' = {}
    /\ Goto(r, "committing")
    /\ UNCHANGED <<userVars, tokenVars, denied, lockVars, kind, fresh, old, seen, doomed, todo>>

-----------------------------------------------------------------------------
(* The end of a request *)

\* The password is bounded here, where concurrent changes meet.
Commit(r) ==
    /\ pc[r] = "committing"
    /\ kind[r] = "password" => password < MaxPassword
    /\ token' = [k \in Sessions |->
          IF k = fresh[r] THEN "live"
          ELSE IF k \in doomed[r] THEN "revoked" ELSE token[k]]
    /\ parent' = [k \in Sessions |-> IF k = fresh[r] THEN old[r] ELSE parent[k]]
    /\ origin' = [k \in Sessions |-> IF k = fresh[r] THEN seen[r] ELSE origin[k]]
    /\ password' = IF kind[r] = "password" THEN password + 1 ELSE password
    /\ active' = (active /\ kind[r] \notin {"deactivate", "tenant"})
    /\ tenantActive' = (tenantActive /\ kind[r] # "tenant")
    /\ EndRequest(r)
    /\ UNCHANGED <<expired, issued, redisVars>>

\* A Redis error, a lock or statement timeout, a deadlock found by PostgreSQL,
\* the death of the process: the transaction rolls back, Redis stays as it is.
Abort(r) ==
    /\ pc[r] # "idle"
    /\ EndRequest(r)
    /\ UNCHANGED <<userVars, tokenVars, redisVars>>

\* Seven days pass for the oldest token.
Expire(k) ==
    /\ k \in ActiveTokens
    /\ \A j \in ActiveTokens : k <= j
    /\ Cardinality(expired) < MaxExpired
    /\ expired' = expired \cup {k}
    /\ UNCHANGED <<userVars, token, parent, origin, issued, redisVars, lockVars, requestVars>>

-----------------------------------------------------------------------------
Begin(r) ==
    \/ BeginLogin(r) \/ BeginDeactivate(r) \/ BeginDeactivateTenant(r)
    \/ \E k \in Sessions : BeginRefresh(r, k) \/ BeginLogout(r, k) \/ BeginChangePassword(r, k)

Proceed(r) ==
    \/ CheckUser(r) \/ TrackJti(r) \/ AcquireSessionCapLock(r) \/ TouchUser(r)
    \/ CountSessions(r) \/ EvictOldest(r) \/ DenyOld(r) \/ UntrackOld(r)
    \/ LoadToken(r) \/ SnapshotTokens(r) \/ RowsLocked(r) \/ ReadJtis(r)
    \/ \E k \in Sessions : LockRow(r, k) \/ DenyNext(r, k)
    \/ DropSet(r) \/ Commit(r)

Next ==
    \/ \E r \in Requests : Begin(r) \/ Proceed(r) \/ Abort(r)
    \/ Reactivate \/ ReactivateTenant
    \/ \E k \in Sessions : Expire(k)

Spec == Init /\ [][Next]_vars

-----------------------------------------------------------------------------
(* Properties *)

TypeOK ==
    /\ password \in 0 .. MaxPassword
    /\ active \in BOOLEAN
    /\ tenantActive \in BOOLEAN
    /\ token \in [Sessions -> {"absent", "live", "revoked"}]
    /\ expired \in SUBSET Sessions
    /\ parent \in [Sessions -> 0 .. MaxSession]
    /\ origin \in [Sessions -> 0 .. MaxPassword]
    /\ tracked \in SUBSET Sessions
    /\ denied \in SUBSET Sessions
    /\ issued \in 0 .. MaxSession
    /\ userLock \in Requests \cup {NoRequest}
    /\ capLock \in Requests \cup {NoRequest}
    /\ rowLock \in [Sessions -> Requests \cup {NoRequest}]
    /\ kind \in [Requests -> Kinds]
    /\ pc \in [Requests -> RequestStates]
    /\ fresh \in [Requests -> 0 .. MaxSession]
    /\ old \in [Requests -> 0 .. MaxSession]
    /\ seen \in [Requests -> 0 .. MaxPassword]
    /\ doomed \in [Requests -> SUBSET Sessions]
    /\ todo \in [Requests -> SUBSET Sessions]

\* "Expected MAX_ACTIVE_SESSIONS active sessions": concurrent logins and
\* refreshes, serialized by the advisory lock, never leave the user with more
\* sessions than the cap as long as no token has outlived its expires_at.
SessionCapUntilExpiry ==
    expired = {} => Cardinality(ActiveTokens) <= MAX_ACTIVE_SESSIONS

\* A refresh token is rotated at most once: two refreshes sent with the same
\* cookie never both obtain a session.
SingleRotation == \A j, k \in Sessions :
    parent[j] = parent[k] /\ parent[j] # 0 => j = k

\* "active_jtis kept; retry is idempotent and safe": wherever a revocation
\* stops, each access token it had read is denied or can be found again.
KeptForRetry == \A r \in Requests : todo[r] \subseteq tracked \cup denied

\* "Change the password and revoke all active sessions": no session that goes
\* back to an earlier password is still good for a refresh.
NoSessionOutlivesPassword == \A k \in Live : origin[k] = password

=============================================================================
