---------------------------- MODULE LoginLockout ----------------------------
(* The two failure counters in front of the auth endpoints, both in Redis:    *)
(* the progressive limiter of app/core/rate_limit.py, a hash per client IP    *)
(* and per endpoint subject, and the account counter login_attempts of        *)
(* app/modules/auth/service.py.  Every Redis command is a step, so requests   *)
(* interleave between any two of them, and every command may raise.           *)
(*                                                                            *)
(* Time is relative: a deadline is the number of ticks left, a captured now   *)
(* the (non-positive) offset from the present.  Offsets below -Horizon are    *)
(* all alike, as no lock that starts there is still running; failure counts   *)
(* are told apart only up to the last threshold.                              *)
EXTENDS Integers, Sequences, FiniteSets, FiniteSetsExt

CONSTANTS
    Requests,          \* concurrent requests
    Ips, Emails,       \* client addresses; accounts
    Endpoints,         \* the endpoints in use, of AllEndpoints
    LOCKOUT_TABLE,     \* <<threshold, ticks>> pairs
    KeyTTL,            \* RATE_LIMIT_WINDOW_SECONDS + 3600, in ticks
    LOGIN_ATTEMPTS_MAX, LOGIN_ATTEMPTS_WINDOW,
    MaxRequests,       \* bound: requests made
    MaxFaults,         \* bound: commands that raise
    None

AllEndpoints == {"login", "refresh", "logout", "change_password"}

\* The endpoints that refuse a request whose precheck raised RedisError.
FailClosed == {"login"}
\* The endpoints that call record_success.
ResetsOnSuccess == {"login", "refresh"}

ASSUME ConstantsAssumption ==
    /\ Endpoints \subseteq AllEndpoints
    /\ IsFiniteSet(Requests)
    /\ LOCKOUT_TABLE \in Seq(Nat \X (Nat \ {0})) /\ LOCKOUT_TABLE # <<>>
    /\ \A i, j \in DOMAIN LOCKOUT_TABLE : i <= j =>
        LOCKOUT_TABLE[i][1] <= LOCKOUT_TABLE[j][1] /\ LOCKOUT_TABLE[i][2] <= LOCKOUT_TABLE[j][2]
    /\ KeyTTL \in Nat \ {0} /\ LOGIN_ATTEMPTS_WINDOW \in Nat \ {0}
    /\ LOGIN_ATTEMPTS_MAX \in Nat \ {0} /\ MaxFaults \in Nat
    /\ None \notin Int

VARIABLES
    limit,      \* [Keys -> [failures, locked_until, ttl]], the limiter's hashes
    attempts,   \* [Emails -> [count, ttl]], login_attempts
    req,        \* [Requests -> what the request is doing]
    issued,     \* requests so far
    faults,     \* Redis errors so far
    tries,      \* [Emails -> wrong passwords verified since the counter was gone]
    outlived    \* keys whose lock was lowered under a request that had read it

vars == <<limit, attempts, req, issued, faults, tries, outlived>>

Horizon == LOCKOUT_TABLE[Len(LOCKOUT_TABLE)][2]
MaxFailures == LOCKOUT_TABLE[Len(LOCKOUT_TABLE)][1] + 1

\* The hash of an address, and of what an endpoint passes in place of an email:
\* the email itself, refresh:<ip>, logout:<user> or change-password:<user>.
IpKey(ip) == <<"ip", ip>>
SubjectKey(p, ip, e) == IF p = "refresh" THEN <<p, ip>> ELSE <<p, e>>
Keys == {IpKey(ip) : ip \in Ips}
    \cup {SubjectKey(p, ip, e) : p \in Endpoints, ip \in Ips, e \in Emails}

\* A hash that does not exist: _get_hash_field reads 0 for each of its fields.
NoHash == [failures |-> 0, locked_until |-> -Horizon, ttl |-> 0]
NoCounter == [count |-> 0, ttl |-> None]

Idle == [pc |-> "idle", p |-> None, ip |-> None, email |-> None, i |-> 0,
         n |-> 0, until |-> 0, now |-> 0]

\* The lockout of the highest threshold that failures exceeds, 0 if none.
_get_lockout_seconds(failures) ==
    LET exceeded == {i \in DOMAIN LOCKOUT_TABLE : failures > LOCKOUT_TABLE[i][1]} IN
    IF exceeded = {} THEN 0 ELSE LOCKOUT_TABLE[Max(exceeded)][2]

\* The keys of a request in the order its loops visit them.
KeyAt(q, i) == IF i = 1 THEN IpKey(q.ip) ELSE SubjectKey(q.p, q.ip, q.email)
KeyOf(q) == KeyAt(q, q.i)

Locked(k) == limit[k].locked_until > 0

\* The keys at which a request is about to write back a lock that is not there any
\* more: deleted, expired, or overwritten by a request that had read it earlier.
Outlived ==
    {k \in Keys : \E r \in Requests :
        /\ req[r].pc = "hset" /\ KeyOf(req[r]) = k
        /\ req[r].until > Max({limit[k].locked_until, 0})}

Init ==
    /\ limit = [k \in Keys |-> NoHash]
    /\ attempts = [e \in Emails |-> NoCounter]
    /\ req = [r \in Requests |-> Idle]
    /\ issued = 0
    /\ faults = 0
    /\ tries = [e \in Emails |-> 0]
    /\ outlived = {}

Continue(r, q) == req' = [req EXCEPT ![r] = q]
Goto(r, pc) == Continue(r, [req[r] EXCEPT !.pc = pc])
Answer(r) == Continue(r, Idle)

---------------------------------------------------------------------------
(* The precheck: RateLimiter.check behind each endpoint's error handling.    *)

Begin(r) ==
    /\ req[r].pc = "idle"
    /\ issued < MaxRequests
    /\ issued' = issued + 1
    /\ \E p \in Endpoints, ip \in Ips, e \in Emails :
        Continue(r, [Idle EXCEPT !.pc = "check_ip", !.p = p, !.ip = ip, !.email = e])
    /\ UNCHANGED <<limit, attempts, faults, tries, outlived>>

CheckIp(r) ==
    /\ req[r].pc = "check_ip"
    /\ Continue(r, [req[r] EXCEPT !.pc = "check_subject",
                                  !.until = limit[KeyAt(req[r], 1)].locked_until])
    /\ UNCHANGED <<issued, limit, attempts, faults, tries, outlived>>

\* The precheck lets the request through.
Serve(r) == Continue(r, [req[r] EXCEPT !.pc = "service", !.until = 0])

\* Mutant of CheckSubject: the subject's own lock is not looked at.
CheckSubjectIpOnly(r) ==
    /\ req[r].pc = "check_subject"
    /\ IF req[r].until > 0
       THEN Answer(r)
       ELSE Serve(r)
    /\ UNCHANGED <<issued, limit, attempts, faults, tries, outlived>>

\* Both hashes are read before the clock is: either lock answers 401 or 429.
CheckSubject(r) ==
    /\ req[r].pc = "check_subject"
    /\ IF req[r].until > 0 \/ Locked(KeyAt(req[r], 2))
       THEN Answer(r)
       ELSE Serve(r)
    /\ UNCHANGED <<issued, limit, attempts, faults, tries, outlived>>

Fault ==
    /\ faults < MaxFaults
    /\ faults' = faults + 1

\* RedisError refuses a login and lets the other endpoints through; any other
\* exception lets every endpoint through.
CheckRaises(r) ==
    /\ req[r].pc \in {"check_ip", "check_subject"}
    /\ Fault
    /\ \/ req[r].p \in FailClosed /\ Answer(r)
       \/ Serve(r)
    /\ UNCHANGED <<issued, limit, attempts, tries, outlived>>

---------------------------------------------------------------------------
(* The service behind the endpoint.  An AppError below 500 is recorded as a  *)
(* failure; one of 500 and above is raised as it is.                         *)

BeginRecord(r) == Continue(r, [req[r] EXCEPT !.pc = "hincrby", !.i = 1, !.now = 0])
\* What follows a success: the limiter's keys are deleted by login and refresh.
Succeed(r) ==
    IF req[r].p \in ResetsOnSuccess
    THEN Continue(r, [req[r] EXCEPT !.pc = "reset", !.i = 1])
    ELSE Answer(r)

\* refresh_tokens, logout and change_password (module AuthSessions).
OtherService(r) ==
    /\ req[r].pc = "service" /\ req[r].p # "login"
    /\ \/ Succeed(r)
       \/ BeginRecord(r)
       \/ Answer(r)
    /\ UNCHANGED <<issued, limit, attempts, faults, tries, outlived>>

\* Mutant of CheckAccountLockout: one attempt too many.
CheckAccountLockoutAbove(r) ==
    /\ req[r].pc = "service" /\ req[r].p = "login"
    /\ IF attempts[req[r].email].count > LOGIN_ATTEMPTS_MAX
       THEN BeginRecord(r)
       ELSE Goto(r, "verify")
    /\ UNCHANGED <<issued, limit, attempts, faults, tries, outlived>>

\* service.login: check_redis_healthy, then _check_account_lockout.
CheckAccountLockout(r) ==
    /\ req[r].pc = "service" /\ req[r].p = "login"
    /\ IF attempts[req[r].email].count >= LOGIN_ATTEMPTS_MAX
       THEN BeginRecord(r)
       ELSE Goto(r, "verify")
    /\ UNCHANGED <<issued, limit, attempts, faults, tries, outlived>>

\* An unhealthy Redis answers 503; a GET that raises is an AuthError.
LockoutCheckRaises(r) ==
    /\ req[r].pc = "service" /\ req[r].p = "login"
    /\ Fault
    /\ \/ Answer(r)
       \/ BeginRecord(r)
    /\ UNCHANGED <<issued, limit, attempts, tries, outlived>>

\* A user that is unknown or inactive, or whose tenant is inactive, is refused
\* without touching the counter.
Refuse(r) ==
    /\ req[r].pc = "verify"
    /\ BeginRecord(r)
    /\ UNCHANGED <<issued, limit, attempts, faults, tries, outlived>>

\* Mutant of WrongPassword: the first INCR returns 0.
WrongPasswordFromZero(r) ==
    LET e == req[r].email
        n == attempts[e].count IN
    /\ req[r].pc = "verify"
    /\ attempts' = [attempts EXCEPT ![e].count = Min({n + 1, LOGIN_ATTEMPTS_MAX})]
    /\ tries' = [tries EXCEPT ![e] = @ + 1]
    /\ IF n = 1 THEN Goto(r, "expire") ELSE BeginRecord(r)
    /\ UNCHANGED <<issued, limit, faults, outlived>>

\* _record_failed_attempt: INCR, and EXPIRE only after the first one.
WrongPassword(r) ==
    LET e == req[r].email
        n == attempts[e].count + 1 IN
    /\ req[r].pc = "verify"
    /\ attempts' = [attempts EXCEPT ![e].count = Min({n, LOGIN_ATTEMPTS_MAX})]
    /\ tries' = [tries EXCEPT ![e] = @ + 1]
    /\ IF n = 1 THEN Goto(r, "expire") ELSE BeginRecord(r)
    /\ UNCHANGED <<issued, limit, faults, outlived>>

\* EXPIRE of a key that is gone does nothing.
ExpireCounter(r) ==
    LET e == req[r].email IN
    /\ req[r].pc = "expire"
    /\ attempts' = [attempts EXCEPT ![e].ttl =
                      IF attempts[e].count > 0 THEN LOGIN_ATTEMPTS_WINDOW ELSE @]
    /\ BeginRecord(r)
    /\ UNCHANGED <<issued, limit, faults, tries, outlived>>

\* INCR or EXPIRE raises: it is logged and the login goes on to be refused.
IncrRaises(r) ==
    /\ req[r].pc = "verify"
    /\ Fault
    /\ tries' = [tries EXCEPT ![req[r].email] = @ + 1]
    /\ BeginRecord(r)
    /\ UNCHANGED <<issued, limit, attempts, outlived>>

ExpireRaises(r) ==
    /\ req[r].pc = "expire"
    /\ Fault
    /\ BeginRecord(r)
    /\ UNCHANGED <<issued, limit, attempts, tries, outlived>>

\* _clear_login_attempts; the login may still end in 503 (module AuthSessions).
RightPassword(r) ==
    LET e == req[r].email IN
    /\ req[r].pc = "verify"
    /\ attempts' = [attempts EXCEPT ![e] = NoCounter]
    /\ tries' = [tries EXCEPT ![e] = 0]
    /\ Succeed(r) \/ Answer(r)
    /\ UNCHANGED <<issued, limit, faults, outlived>>

ClearRaises(r) ==
    /\ req[r].pc = "verify"
    /\ Fault
    /\ Succeed(r) \/ Answer(r)
    /\ UNCHANGED <<issued, limit, attempts, tries, outlived>>

---------------------------------------------------------------------------
(* RateLimiter.record_failure and record_success, key by key.                *)

NextKey(r) ==
    IF req[r].i = 1
    THEN Continue(r, [req[r] EXCEPT !.pc = "hincrby", !.i = 2, !.n = 0, !.until = 0])
    ELSE Answer(r)

\* HINCRBY and the EXPIRE of the whole hash; the lock follows only if the count
\* that this request produced exceeds a threshold.
HIncrBy(r) ==
    LET k == KeyOf(req[r])
        n == Min({limit[k].failures + 1, MaxFailures}) IN
    /\ req[r].pc = "hincrby"
    /\ limit' = [limit EXCEPT ![k].failures = n, ![k].ttl = KeyTTL]
    /\ IF _get_lockout_seconds(n) > 0
       THEN Continue(r, [req[r] EXCEPT !.pc = "hget", !.n = n])
       ELSE NextKey(r)
    /\ UNCHANGED <<issued, attempts, faults, tries, outlived>>

\* The HINCRBY is done and the EXPIRE is not: the hash keeps the time it had.
HExpireRaises(r) ==
    LET k == KeyOf(req[r]) IN
    /\ req[r].pc = "hincrby"
    /\ Fault
    /\ limit' = [limit EXCEPT ![k].failures = Min({@ + 1, MaxFailures})]
    /\ Answer(r)
    /\ UNCHANGED <<issued, attempts, tries, outlived>>

HGet(r) ==
    /\ req[r].pc = "hget"
    /\ Continue(r, [req[r] EXCEPT !.pc = "hset",
                                  !.until = limit[KeyOf(req[r])].locked_until])
    /\ UNCHANGED <<issued, limit, attempts, faults, tries, outlived>>

\* The lock starts at the later of the captured now and the lock that was read.
NewLockedUntil(q) == Max({q.now, q.until}) + _get_lockout_seconds(q.n)

HSet(r) ==
    LET k == KeyOf(req[r]) IN
    /\ req[r].pc = "hset"
    /\ limit' = [limit EXCEPT ![k].locked_until =
                    Max({NewLockedUntil(req[r]), -Horizon})]
    /\ NextKey(r)
    /\ outlived' = outlived \cup Outlived'
    /\ UNCHANGED <<issued, attempts, faults, tries>>

Reset(r) ==
    LET k == KeyOf(req[r]) IN
    /\ req[r].pc = "reset"
    /\ limit' = [limit EXCEPT ![k] = NoHash]
    /\ IF req[r].i = 1 THEN Continue(r, [req[r] EXCEPT !.i = 2]) ELSE Answer(r)
    /\ outlived' = outlived \cup Outlived'
    /\ UNCHANGED <<issued, attempts, faults, tries>>

\* Whatever the limiter raises is logged: the request is answered all the same.
RecordRaises(r) ==
    /\ req[r].pc \in {"hincrby", "hget", "hset", "reset"}
    /\ Fault
    /\ Answer(r)
    /\ UNCHANGED <<issued, limit, attempts, tries, outlived>>

---------------------------------------------------------------------------
Earlier(t) == Max({t - 1, -Horizon})

\* A tick of the clock; Redis drops the keys whose time is over.
Tick ==
    /\ limit' = [k \in Keys |->
        IF limit[k].ttl = 1 THEN NoHash
        ELSE [limit[k] EXCEPT !.locked_until = Earlier(@), !.ttl = Max({@ - 1, 0})]]
    /\ attempts' = [e \in Emails |->
        IF attempts[e].ttl = None THEN attempts[e]
        ELSE IF attempts[e].ttl = 1 THEN NoCounter
        ELSE [attempts[e] EXCEPT !.ttl = @ - 1]]
    /\ tries' = [e \in Emails |-> IF attempts[e].ttl = 1 THEN 0 ELSE tries[e]]
    /\ req' = [r \in Requests |->
        [req[r] EXCEPT
            !.until = IF req[r].pc \in {"check_subject", "hset"} THEN Earlier(@) ELSE @,
            !.now = IF req[r].pc \in {"hincrby", "hget", "hset"}
                    THEN Earlier(@) ELSE @]]
    /\ outlived' = outlived \cup Outlived'
    /\ UNCHANGED <<issued, faults>>

Command(r) ==
    \/ CheckIp(r) \/ CheckSubject(r) \/ OtherService(r) \/ CheckAccountLockout(r)
    \/ Refuse(r) \/ WrongPassword(r) \/ RightPassword(r)
    \/ ExpireCounter(r)
    \/ HIncrBy(r) \/ HGet(r) \/ HSet(r) \/ Reset(r)

Raise(r) ==
    \/ CheckRaises(r) \/ LockoutCheckRaises(r) \/ IncrRaises(r) \/ ExpireRaises(r)
    \/ ClearRaises(r) \/ HExpireRaises(r) \/ RecordRaises(r)

Next ==
    \/ \E r \in Requests : Begin(r) \/ Command(r) \/ Raise(r)
    \/ Tick

Spec == Init /\ [][Next]_vars

---------------------------------------------------------------------------
Deadlines == {t \in Int : t >= -Horizon}
Stages == {"idle", "check_ip", "check_subject", "service", "verify", "expire", "hincrby",
           "hget", "hset", "reset"}
Request == [pc : Stages, p : Endpoints \cup {None}, ip : Ips \cup {None},
            email : Emails \cup {None}, i : 0 .. 2, n : 0 .. MaxFailures,
            until : Deadlines, now : Deadlines]
Hash == [failures : 0 .. MaxFailures, locked_until : Deadlines, ttl : 0 .. KeyTTL]
Counter == [count : 0 .. LOGIN_ATTEMPTS_MAX,
            ttl : (1 .. LOGIN_ATTEMPTS_WINDOW) \cup {None}]

TypeOK ==
    /\ limit \in [Keys -> Hash]
    /\ attempts \in [Emails -> Counter]
    /\ req \in [Requests -> Request]
    /\ \A r \in Requests : req[r].pc # "idle" =>
        req[r].p \in Endpoints /\ req[r].ip \in Ips /\ req[r].email \in Emails
    /\ faults \in 0 .. MaxFaults
    /\ tries \in [Emails -> Nat]
    /\ outlived \subseteq Keys

\* Wrong passwords of one window: the counter admits LOGIN_ATTEMPTS_MAX of them,
\* and what is between the GET and the INCR (one per further request) or was
\* lost by an INCR that raised comes on top.
AttemptsBounded ==
    \A e \in Emails :
        tries[e] <= LOGIN_ATTEMPTS_MAX + (Cardinality(Requests) - 1) + faults

\* As long as no command raised, a counter has its time to live or the request
\* that created it is about to set it.
CounterExpires ==
    \A e \in Emails :
        attempts[e].count > 0 /\ attempts[e].ttl = None /\ faults = 0 =>
            \E r \in Requests : req[r].pc = "expire" /\ req[r].email = e

\* Only requests that passed the precheck before a lock was set extend it: the
\* lock of a key never runs longer than one step of the table for each request
\* that can be on its way and for each precheck that raised.  The exception is a key
\* whose lock was lowered between the HGET and the HSET of a request: that request
\* writes the old lock back, after new requests have passed the precheck.
LockBounded ==
    \A k \in Keys \ outlived :
        limit[k].locked_until <= Horizon * (Cardinality(Requests) + faults)

=============================================================================
