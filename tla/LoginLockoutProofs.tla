------------------------- MODULE LoginLockoutProofs -------------------------
(***************************************************************************)
(* The bounds of the login limiter, for any number of requests, addresses,  *)
(* accounts and endpoints, any table and any window: the wrong passwords of *)
(* one window (CounterInv), the time to live of their counter, and the      *)
(* length of a lock (LockInv).                                              *)
(***************************************************************************)
EXTENDS LoginLockout, FiniteSetTheorems, WellFoundedInduction, TLAPS

-----------------------------------------------------------------------------
(* Operators *)

\* max of the code, of two numbers.
LEMMA MaxOfTwo ==
    ASSUME NEW a \in Int, NEW b \in Int
    PROVE  Max({a, b}) = IF a >= b THEN a ELSE b
BY DEF Max

\* The cap of a counter of the model.
LEMMA MinOfTwo ==
    ASSUME NEW a \in Int, NEW b \in Int
    PROVE  Min({a, b}) = IF a <= b THEN a ELSE b
BY DEF Min

\* The entries of the lockout table are a limit and a time each, and the last is
\* its longest.
LEMMA TableTop ==
    /\ Len(LOCKOUT_TABLE) \in DOMAIN LOCKOUT_TABLE
    /\ DOMAIN LOCKOUT_TABLE = 1 .. Len(LOCKOUT_TABLE)
    /\ \A i \in DOMAIN LOCKOUT_TABLE :
        LOCKOUT_TABLE[i][1] \in Nat /\ LOCKOUT_TABLE[i][2] \in Nat \ {0}
    /\ Horizon \in Nat \ {0} /\ MaxFailures \in Nat \ {0}
<1>1. LOCKOUT_TABLE \in Seq(Nat \X (Nat \ {0})) /\ LOCKOUT_TABLE # <<>>
  BY ConstantsAssumption DEF ConstantsAssumption
<1>2. Len(LOCKOUT_TABLE) \in Nat \ {0} /\ DOMAIN LOCKOUT_TABLE = 1 .. Len(LOCKOUT_TABLE)
  BY <1>1
<1>3. \A i \in DOMAIN LOCKOUT_TABLE : LOCKOUT_TABLE[i] \in Nat \X (Nat \ {0})
  BY <1>1, <1>2
<1> QED
  BY <1>2, <1>3 DEF Horizon, MaxFailures

\* A failure more, up to the bound of the model.
LEMMA CappedFailures ==
    ASSUME NEW f \in 0 .. MaxFailures
    PROVE  Min({f + 1, MaxFailures}) \in 0 .. MaxFailures
<1>1. MaxFailures \in Int /\ MaxFailures >= 1 /\ f + 1 \in Int
  BY TableTop
<1>2. Min({f + 1, MaxFailures}) = IF f + 1 <= MaxFailures THEN f + 1 ELSE MaxFailures
  BY <1>1, MinOfTwo
<1> QED
  BY <1>1, <1>2

\* What the constants are.
LEMMA ConstantTypes ==
    /\ KeyTTL \in Nat \ {0} /\ LOGIN_ATTEMPTS_WINDOW \in Nat \ {0}
    /\ LOGIN_ATTEMPTS_MAX \in Nat \ {0} /\ MaxFaults \in Nat /\ IsFiniteSet(Requests)
BY ConstantsAssumption DEF ConstantsAssumption

\* NULL is no time.
LEMMA NoneType == None \notin Int /\ None # 1
BY ConstantsAssumption DEF ConstantsAssumption

\* There is a greatest among bounded numbers.
LEMMA GreatestExists ==
    ASSUME NEW n \in Nat, NEW S \in SUBSET (0 .. n), S # {}
    PROVE  Max(S) \in S
<1> DEFINE T == {n - x : x \in S}
<1>0. \A x \in S : x \in Nat /\ x <= n
  OBVIOUS
<1>1. T \in SUBSET Nat /\ T # {}
  <2>1. \A x \in S : n - x \in Nat
    BY <1>0
  <2>2. PICK x \in S : TRUE
    OBVIOUS
  <2>3. n - x \in T
    OBVIOUS
  <2> QED
    BY <2>1, <2>3
<1>2. PICK k \in T : \A j \in T : ~ (<<j, k>> \in OpToRel(<, Nat))
  BY <1>1, NatLessThanWellFounded, WFMin
<1>3. \A j \in T : ~(j < k)
  BY <1>1, <1>2 DEF OpToRel
<1>4. PICK x \in S : k = n - x
  BY <1>2
<1>5. \A y \in S : x >= y
  <2> TAKE y \in S
  <2>1. ~(n - y < k)
    BY <1>3
  <2> QED
    BY <1>0, <1>4, <2>1
<1> QED
  BY <1>5 DEF Max

\* A step of the lock is at most the last of the table.
LEMMA LockoutBounded ==
    ASSUME NEW n \in Nat
    PROVE  _get_lockout_seconds(n) \in 0 .. Horizon
<1> DEFINE exceeded == {i \in DOMAIN LOCKOUT_TABLE : n > LOCKOUT_TABLE[i][1]}
<1>1. CASE exceeded = {}
  BY <1>1, TableTop DEF _get_lockout_seconds
<1>2. CASE exceeded # {}
  <2>0. exceeded \in SUBSET (0 .. Len(LOCKOUT_TABLE)) /\ Len(LOCKOUT_TABLE) \in Nat
    BY TableTop
  <2>1. Max(exceeded) \in exceeded
    <3> HIDE DEF exceeded
    <3> QED
      BY <1>2, <2>0, GreatestExists
  <2>2. Max(exceeded) \in DOMAIN LOCKOUT_TABLE /\ Max(exceeded) <= Len(LOCKOUT_TABLE)
    BY <2>1, TableTop
  <2>3. LOCKOUT_TABLE[Max(exceeded)][2] <= Horizon
    BY <2>2, TableTop, ConstantsAssumption DEF ConstantsAssumption, Horizon
  <2> QED
    BY <1>2, <2>2, <2>3, TableTop DEF _get_lockout_seconds
<1> QED
  BY <1>1, <1>2

\* A request in progress is at a key of the limiter.
LEMMA KeyTypes ==
    ASSUME TypeOK, NEW r \in Requests, req[r].pc # "idle", NEW i
    PROVE  KeyAt(req[r], i) \in Keys
<1>1. req[r].p \in Endpoints /\ req[r].ip \in Ips /\ req[r].email \in Emails
  BY DEF TypeOK
<1>2. IpKey(req[r].ip) \in Keys
  BY <1>1 DEF Keys
<1>3. SubjectKey(req[r].p, req[r].ip, req[r].email) \in Keys
  BY <1>1 DEF Keys
<1> QED
  BY <1>2, <1>3 DEF KeyAt

\* A request in progress knows its endpoint, address and account, the time it
\* captured is past, and at the limiter it is at one of its two keys.
Sound == {q \in Request :
    /\ q.pc # "idle" => q.p \in Endpoints /\ q.ip \in Ips /\ q.email \in Emails
    /\ q.now <= 0
    /\ q.pc \in {"hincrby", "hget", "hset", "reset"} => q.i \in 1 .. 2}

\* Every request is sound.
Reqs == req \in [Requests -> Sound]

\* An idle request is sound.
LEMMA IdleType == 0 \in Deadlines /\ -Horizon \in Deadlines /\ Idle \in Sound
<1>1. 0 \in Deadlines /\ -Horizon \in Deadlines
  BY TableTop DEF Deadlines
<1>2. Idle \in Request
  BY <1>1, TableTop DEF Idle, Request, Stages
<1> QED
  BY <1>1, <1>2 DEF Idle, Sound

\* The stages a request goes to.
LEMMA Moves ==
    ASSUME NEW q \in Sound, q.pc # "idle"
    PROVE  /\ \A l \in {"verify", "expire", "service"} : [q EXCEPT !.pc = l] \in Sound
           /\ \A u \in Deadlines : [q EXCEPT !.pc = "check_subject", !.until = u] \in Sound
           /\ [q EXCEPT !.pc = "service", !.until = 0] \in Sound
           /\ [q EXCEPT !.pc = "hincrby", !.i = 1, !.now = 0] \in Sound
           /\ [q EXCEPT !.pc = "reset", !.i = 1] \in Sound
           /\ [q EXCEPT !.pc = "hincrby", !.i = 2, !.n = 0, !.until = 0] \in Sound
           /\ [q EXCEPT !.i = 2] \in Sound
           /\ q.i \in 1 .. 2 => \A n \in 0 .. MaxFailures : [q EXCEPT !.pc = "hget", !.n = n] \in Sound
           /\ q.i \in 1 .. 2 => \A u \in Deadlines : [q EXCEPT !.pc = "hset", !.until = u] \in Sound
<1> USE IdleType, TableTop
<1>1. \A l \in {"verify", "expire", "service"} : [q EXCEPT !.pc = l] \in Sound
  BY DEF Sound, Request, Stages
<1>2. \A u \in Deadlines : [q EXCEPT !.pc = "check_subject", !.until = u] \in Sound
  BY DEF Sound, Request, Stages
<1>3. [q EXCEPT !.pc = "service", !.until = 0] \in Sound
  BY DEF Sound, Request, Stages
<1>4. [q EXCEPT !.pc = "hincrby", !.i = 1, !.now = 0] \in Sound
  <2> DEFINE m == [q EXCEPT !.pc = "hincrby", !.i = 1, !.now = 0]
  <2>1. m \in Request
    BY 1 \in 0 .. 2, 2 \in 0 .. 2, 0 \in 0 .. MaxFailures DEF Sound, Request, Stages
  <2>2. m.p = q.p /\ m.ip = q.ip /\ m.email = q.email /\ m.now <= 0 /\ m.i \in 1 .. 2
    BY DEF Sound, Request
  <2> QED
    BY <2>1, <2>2 DEF Sound
<1>5. [q EXCEPT !.pc = "reset", !.i = 1] \in Sound
  <2> DEFINE m == [q EXCEPT !.pc = "reset", !.i = 1]
  <2>1. m \in Request
    BY 1 \in 0 .. 2, 2 \in 0 .. 2, 0 \in 0 .. MaxFailures DEF Sound, Request, Stages
  <2>2. m.p = q.p /\ m.ip = q.ip /\ m.email = q.email /\ m.now <= 0 /\ m.i \in 1 .. 2
    BY DEF Sound, Request
  <2> QED
    BY <2>1, <2>2 DEF Sound
<1>6. [q EXCEPT !.pc = "hincrby", !.i = 2, !.n = 0, !.until = 0] \in Sound
  <2> DEFINE m == [q EXCEPT !.pc = "hincrby", !.i = 2, !.n = 0, !.until = 0]
  <2>1. m \in Request
    BY 1 \in 0 .. 2, 2 \in 0 .. 2, 0 \in 0 .. MaxFailures DEF Sound, Request, Stages
  <2>2. m.p = q.p /\ m.ip = q.ip /\ m.email = q.email /\ m.now <= 0 /\ m.i \in 1 .. 2
    BY DEF Sound, Request
  <2> QED
    BY <2>1, <2>2 DEF Sound
<1>7. [q EXCEPT !.i = 2] \in Sound
  BY DEF Sound, Request, Stages
<1>8. ASSUME q.i \in 1 .. 2, NEW n \in 0 .. MaxFailures
      PROVE  [q EXCEPT !.pc = "hget", !.n = n] \in Sound
  BY <1>8 DEF Sound, Request, Stages
<1>9. ASSUME q.i \in 1 .. 2, NEW u \in Deadlines
      PROVE  [q EXCEPT !.pc = "hset", !.until = u] \in Sound
  BY <1>9 DEF Sound, Request, Stages
<1> QED
  BY <1>1, <1>2, <1>3, <1>4, <1>5, <1>6, <1>7, <1>8, <1>9

\* So is a request that begins.
LEMMA Begins ==
    ASSUME NEW p \in Endpoints, NEW ip \in Ips, NEW e \in Emails
    PROVE  [Idle EXCEPT !.pc = "check_ip", !.p = p, !.ip = ip, !.email = e] \in Sound
BY IdleType DEF Sound, Request, Stages, Idle

\* And the request that a step leaves behind.
LEMMA RequestTypes ==
    ASSUME TypeOK, Reqs, NEW r \in Requests, Begin(r) \/ Command(r) \/ Raise(r)
    PROVE  Reqs'
<1> SUFFICES \E q \in Sound : Continue(r, q)
  BY DEF Reqs, Continue
<1>a. \A k \in Keys : limit[k].locked_until \in Deadlines /\ limit[k].failures \in 0 .. MaxFailures
  BY DEF TypeOK, Hash
<1>b. /\ req[r] \in Sound
      /\ req[r].pc \in {"hincrby", "hget", "hset", "reset"} => req[r].i \in 1 .. 2
  BY DEF Reqs, Sound
<1>c. Idle \in Sound
  BY IdleType
<1>1. CASE Begin(r)
  BY <1>1, Begins DEF Begin
<1>2. CASE CheckIp(r)
  BY <1>2, <1>b, <1>c, Moves, <1>a, KeyTypes DEF CheckIp, Answer
<1>3. CASE CheckSubject(r)
  BY <1>3, <1>b, <1>c, Moves DEF CheckSubject, Serve, Answer
<1>4. CASE CheckRaises(r)
  BY <1>4, <1>b, <1>c, Moves DEF CheckRaises, Serve, Answer
<1>5. CASE OtherService(r)
  BY <1>5, <1>b, <1>c, Moves DEF OtherService, Succeed, BeginRecord, Answer
<1>6. CASE CheckAccountLockout(r)
  BY <1>6, <1>b, <1>c, Moves DEF CheckAccountLockout, Goto, BeginRecord, Answer
<1>7. CASE LockoutCheckRaises(r)
  BY <1>7, <1>b, <1>c, Moves DEF LockoutCheckRaises, BeginRecord, Answer
<1>8. CASE Refuse(r)
  BY <1>8, <1>b, <1>c, Moves DEF Refuse, BeginRecord, Answer
<1>9. CASE WrongPassword(r)
  BY <1>9, <1>b, <1>c, Moves DEF WrongPassword, Goto, BeginRecord, Answer
<1>10. CASE ExpireCounter(r)
  BY <1>10, <1>b, <1>c, Moves DEF ExpireCounter, BeginRecord, Answer
<1>11. CASE IncrRaises(r)
  BY <1>11, <1>b, <1>c, Moves DEF IncrRaises, BeginRecord, Answer
<1>12. CASE ExpireRaises(r)
  BY <1>12, <1>b, <1>c, Moves DEF ExpireRaises, BeginRecord, Answer
<1>13. CASE RightPassword(r)
  BY <1>13, <1>b, <1>c, Moves DEF RightPassword, Succeed, Answer
<1>14. CASE ClearRaises(r)
  BY <1>14, <1>b, <1>c, Moves DEF ClearRaises, Succeed, Answer
<1>15. CASE HIncrBy(r)
  <2> DEFINE n == Min({limit[KeyOf(req[r])].failures + 1, MaxFailures})
  <2>1. KeyOf(req[r]) \in Keys
    BY <1>15, KeyTypes DEF HIncrBy, KeyOf
  <2>2. n \in 0 .. MaxFailures
    BY <2>1, <1>a, CappedFailures
  <2>3. req[r].pc = "hincrby" /\ (Continue(r, [req[r] EXCEPT !.pc = "hget", !.n = n]) \/ NextKey(r))
    BY <1>15 DEF HIncrBy
  <2> HIDE DEF n
  <2> QED
    BY <2>2, <2>3, <1>b, <1>c, Moves DEF NextKey, Answer
<1>16. CASE HExpireRaises(r)
  BY <1>16, <1>b, <1>c, Moves DEF HExpireRaises, Answer
<1>17. CASE HGet(r)
  BY <1>17, <1>b, <1>c, Moves, <1>a, KeyTypes DEF HGet, KeyOf, Answer
<1>18. CASE HSet(r)
  BY <1>18, <1>b, <1>c, Moves DEF HSet, NextKey, Answer
<1>19. CASE Reset(r)
  BY <1>19, <1>b, <1>c, Moves DEF Reset, Answer
<1>20. CASE RecordRaises(r)
  BY <1>20, <1>b, <1>c, Moves DEF RecordRaises, Answer
<1> QED
  BY <1>1, <1>2, <1>3, <1>4, <1>5, <1>6, <1>7, <1>8, <1>9, <1>10, <1>11, <1>12, <1>13, <1>14,
     <1>15, <1>16, <1>17, <1>18, <1>19, <1>20 DEF Command, Raise

\* The hashes, the counters and the rest.
Tables ==
    /\ limit \in [Keys -> Hash]
    /\ attempts \in [Emails -> Counter]
    /\ faults \in 0 .. MaxFaults
    /\ tries \in [Emails -> Nat]
    /\ outlived \subseteq Keys

\* The type invariant speaks of the tables and of the requests.
LEMMA TypeParts == TypeOK /\ Reqs <=> Tables /\ Reqs
BY DEF TypeOK, Tables, Reqs, Sound

\* The rows of keys that are not in Redis.
LEMMA EmptyTypes == NoHash \in Hash /\ NoCounter \in Counter
<1>1. NoHash \in Hash
  BY IdleType, TableTop, ConstantTypes DEF NoHash, Hash
<1>2. NoCounter \in Counter
  BY ConstantTypes DEF NoCounter, Counter
<1> QED
  BY <1>1, <1>2

\* What a hash and a counter become.
LEMMA HashMoves ==
    ASSUME NEW h \in Hash
    PROVE  /\ \A n \in 0 .. MaxFailures : [h EXCEPT !.failures = n] \in Hash
           /\ \A n \in 0 .. MaxFailures : [h EXCEPT !.failures = n, !.ttl = KeyTTL] \in Hash
           /\ \A t \in Deadlines : [h EXCEPT !.locked_until = t] \in Hash
<1>1. KeyTTL \in 0 .. KeyTTL
  BY ConstantTypes
<1>2. \A n \in 0 .. MaxFailures : [h EXCEPT !.failures = n] \in Hash
  BY DEF Hash
<1>3. \A n \in 0 .. MaxFailures : [h EXCEPT !.failures = n, !.ttl = KeyTTL] \in Hash
  BY <1>1 DEF Hash
<1>4. \A t \in Deadlines : [h EXCEPT !.locked_until = t] \in Hash
  BY DEF Hash
<1> QED
  BY <1>2, <1>3, <1>4

\* INCR and EXPIRE on a counter.
LEMMA CounterMoves ==
    ASSUME NEW c \in Counter
    PROVE  /\ \A n \in 0 .. LOGIN_ATTEMPTS_MAX : [c EXCEPT !.count = n] \in Counter
           /\ [c EXCEPT !.ttl = LOGIN_ATTEMPTS_WINDOW] \in Counter
<1>1. LOGIN_ATTEMPTS_WINDOW \in 1 .. LOGIN_ATTEMPTS_WINDOW
  BY ConstantTypes
<1>2. \A n \in 0 .. LOGIN_ATTEMPTS_MAX : [c EXCEPT !.count = n] \in Counter
  BY DEF Counter
<1>3. [c EXCEPT !.ttl = LOGIN_ATTEMPTS_WINDOW] \in Counter
  BY <1>1 DEF Counter
<1> QED
  BY <1>2, <1>3

\* A tick brings a deadline nearer.
LEMMA Later ==
    ASSUME NEW t \in Deadlines
    PROVE  Earlier(t) \in Deadlines /\ Earlier(t) = IF t - 1 >= -Horizon THEN t - 1 ELSE -Horizon
BY TableTop, MaxOfTwo DEF Earlier, Deadlines

\* The lock that a request sets.
LEMMA NewLock ==
    ASSUME NEW q \in Sound
    PROVE  /\ NewLockedUntil(q) \in Int
           /\ NewLockedUntil(q) <= (IF q.until >= 0 THEN q.until ELSE 0) + Horizon
           /\ Max({NewLockedUntil(q), -Horizon}) \in Deadlines
           /\ Max({NewLockedUntil(q), -Horizon}) <= (IF q.until >= 0 THEN q.until ELSE 0) + Horizon
<1>1. q.now \in Int /\ q.until \in Int /\ q.now <= 0 /\ q.n \in Nat
  BY TableTop DEF Sound, Request, Deadlines
<1>2. _get_lockout_seconds(q.n) \in 0 .. Horizon
  BY <1>1, LockoutBounded
<1>3. Max({q.now, q.until}) = IF q.now >= q.until THEN q.now ELSE q.until
  BY <1>1, MaxOfTwo
<1>4. /\ NewLockedUntil(q) \in Int
      /\ NewLockedUntil(q) <= (IF q.until >= 0 THEN q.until ELSE 0) + Horizon
  BY <1>1, <1>2, <1>3, TableTop DEF NewLockedUntil
<1>5. Max({NewLockedUntil(q), -Horizon}) =
        IF NewLockedUntil(q) >= -Horizon THEN NewLockedUntil(q) ELSE -Horizon
  BY <1>4, TableTop, MaxOfTwo
<1> QED
  BY <1>1, <1>4, <1>5, TableTop DEF Deadlines

\* A step of a request keeps the tables.
LEMMA RequestTables ==
    ASSUME TypeOK, Reqs, NEW r \in Requests, Begin(r) \/ Command(r) \/ Raise(r)
    PROVE  Tables'
<1>a. Tables /\ req[r] \in Sound
  BY TypeParts DEF Reqs
<1>b. Fault => faults' \in 0 .. MaxFaults
  BY <1>a, ConstantTypes DEF Fault, Tables
<1>c. Outlived' \subseteq Keys
  BY DEF Outlived
<1>d. \A k \in Keys : /\ Min({limit[k].failures + 1, MaxFailures}) \in 0 .. MaxFailures
                      /\ limit[k] \in Hash
  <2> TAKE k \in Keys
  <2>1. limit[k] \in Hash
    BY <1>a DEF Tables
  <2>2. limit[k].failures \in 0 .. MaxFailures
    BY <2>1 DEF Hash
  <2> QED
    BY <2>1, <2>2, CappedFailures
<1>e. \A x \in Emails : /\ Min({attempts[x].count + 1, LOGIN_ATTEMPTS_MAX}) \in 0 .. LOGIN_ATTEMPTS_MAX
                        /\ attempts[x] \in Counter /\ tries[x] + 1 \in Nat
  <2> TAKE x \in Emails
  <2>1. attempts[x] \in Counter /\ tries[x] \in Nat
    BY <1>a DEF Tables
  <2>2. attempts[x].count \in 0 .. LOGIN_ATTEMPTS_MAX
    BY <2>1 DEF Counter
  <2> QED
    BY <2>1, <2>2, ConstantTypes, MinOfTwo
<1>f. req[r].pc # "idle" => KeyOf(req[r]) \in Keys /\ req[r].email \in Emails
  BY KeyTypes DEF KeyOf, TypeOK
<1>1. CASE \/ Begin(r) \/ CheckIp(r) \/ CheckSubject(r) \/ OtherService(r)
           \/ CheckAccountLockout(r) \/ Refuse(r) \/ HGet(r)
  BY <1>1, <1>a DEF Tables, Begin, CheckIp, CheckSubject, OtherService, CheckAccountLockout,
                    Refuse, HGet
<1>2. CASE \/ CheckRaises(r) \/ LockoutCheckRaises(r) \/ ExpireRaises(r) \/ ClearRaises(r)
           \/ RecordRaises(r)
  BY <1>2, <1>a, <1>b DEF Tables, CheckRaises, LockoutCheckRaises, ExpireRaises, ClearRaises,
                    RecordRaises
<1>3. CASE WrongPassword(r)
  BY <1>3, <1>a, <1>e, <1>f, CounterMoves DEF Tables, WrongPassword
<1>4. CASE ExpireCounter(r)
  <2>1. attempts[req[r].email] \in Counter
    BY <1>4, <1>e, <1>f DEF ExpireCounter
  <2> DEFINE e == req[r].email
             t == IF attempts[e].count > 0 THEN LOGIN_ATTEMPTS_WINDOW ELSE attempts[e].ttl
  <2>2. attempts' = [attempts EXCEPT ![e] = [attempts[e] EXCEPT !.ttl = t]]
    BY <1>4 DEF ExpireCounter
  <2>3. attempts' \in [Emails -> Counter]
    <3>1. t \in (1 .. LOGIN_ATTEMPTS_WINDOW) \cup {None}
      BY <2>1, ConstantTypes DEF Counter
    <3>2. [attempts[e] EXCEPT !.ttl = t] \in Counter
      BY <2>1, <3>1 DEF Counter
    <3> QED
      BY <2>2, <3>2, <1>a DEF Tables
  <2> QED
    BY <1>4, <2>3, <1>a DEF Tables, ExpireCounter
<1>5. CASE IncrRaises(r)
  BY <1>5, <1>a, <1>b, <1>e, <1>f DEF Tables, IncrRaises
<1>6. CASE RightPassword(r)
  BY <1>6, <1>a, <1>f, EmptyTypes DEF Tables, RightPassword
<1>7. CASE HIncrBy(r)
  BY <1>7, <1>a, <1>d, <1>f, HashMoves DEF Tables, HIncrBy
<1>8. CASE HExpireRaises(r)
  BY <1>8, <1>a, <1>b, <1>d, <1>f, HashMoves DEF Tables, HExpireRaises
<1>9. CASE HSet(r)
  BY <1>9, <1>a, <1>c, <1>d, <1>f, HashMoves, NewLock DEF Tables, HSet
<1>10. CASE Reset(r)
  BY <1>10, <1>a, <1>c, <1>f, EmptyTypes DEF Tables, Reset
<1> QED
  BY <1>1, <1>2, <1>3, <1>4, <1>5, <1>6, <1>7, <1>8, <1>9, <1>10 DEF Command, Raise

\* So does the clock.
LEMMA TickTypes ==
    ASSUME TypeOK, Reqs, Tick
    PROVE  Tables' /\ Reqs'
<1>a. Tables /\ req \in [Requests -> Sound]
  BY TypeParts DEF Reqs
<1>1. limit' \in [Keys -> Hash]
  <2> SUFFICES ASSUME NEW k \in Keys
               PROVE  [limit[k] EXCEPT !.locked_until = Earlier(@), !.ttl = Max({@ - 1, 0})] \in Hash
    BY EmptyTypes DEF Tick
  <2>1. limit[k] \in Hash
    BY <1>a DEF Tables
  <2>2. Earlier(limit[k].locked_until) \in Deadlines
    BY <2>1, Later DEF Hash
  <2>3. Max({limit[k].ttl - 1, 0}) \in 0 .. KeyTTL
    <3>1. limit[k].ttl \in 0 .. KeyTTL
      BY <2>1 DEF Hash
    <3> QED
      BY <3>1, MaxOfTwo, ConstantTypes
  <2> QED
    BY <2>1, <2>2, <2>3 DEF Hash
<1>2. attempts' \in [Emails -> Counter]
  <2> SUFFICES ASSUME NEW e \in Emails, attempts[e].ttl # None, attempts[e].ttl # 1
               PROVE  [attempts[e] EXCEPT !.ttl = @ - 1] \in Counter
    BY <1>a, EmptyTypes DEF Tick, Tables
  <2>1. attempts[e] \in Counter
    BY <1>a DEF Tables
  <2>2. attempts[e].ttl - 1 \in 1 .. LOGIN_ATTEMPTS_WINDOW
    <3>1. attempts[e].ttl \in 1 .. LOGIN_ATTEMPTS_WINDOW
      BY <2>1 DEF Counter
    <3> QED
      BY <3>1, ConstantTypes
  <2> QED
    BY <2>1, <2>2 DEF Counter
<1>3. faults' \in 0 .. MaxFaults /\ tries' \in [Emails -> Nat] /\ outlived' \subseteq Keys
  BY <1>a DEF Tick, Tables, Outlived
<1>4. Reqs'
  <2>0. req' = [x \in Requests |-> req'[x]]
    BY DEF Tick
  <2> SUFFICES ASSUME NEW r \in Requests PROVE req'[r] \in Sound
    BY <2>0 DEF Reqs
  <2>1. req[r] \in Sound
    BY <1>a
  <2>2. /\ Earlier(req[r].until) \in Deadlines
        /\ Earlier(req[r].now) \in Deadlines /\ Earlier(req[r].now) <= 0
    <3>1. req[r].until \in Deadlines /\ req[r].now \in Deadlines /\ req[r].now <= 0
      BY <2>1 DEF Sound, Request
    <3>2. Earlier(req[r].until) \in Deadlines /\ Earlier(req[r].now) \in Deadlines
      BY <3>1, Later
    <3>3. Earlier(req[r].now) = IF req[r].now - 1 >= -Horizon THEN req[r].now - 1 ELSE -Horizon
      BY <3>1, Later
    <3> QED
      BY <3>1, <3>2, <3>3, TableTop DEF Deadlines
  <2>3. \A u, n \in Deadlines : n <= 0 => [req[r] EXCEPT !.until = u, !.now = n] \in Sound
    BY <2>1 DEF Sound, Request
  <2>4. req[r].until \in Deadlines /\ req[r].now \in Deadlines /\ req[r].now <= 0
    BY <2>1 DEF Sound, Request
  <2> QED
    BY <2>2, <2>3, <2>4 DEF Tick
<1> QED
  BY <1>1, <1>2, <1>3, <1>4 DEF Tables

\* The type invariant.
LEMMA TypesHold ==
    /\ Init => Tables /\ Reqs
    /\ Tables /\ Reqs /\ [Next]_vars => Tables' /\ Reqs'
<1>1. Init => Tables /\ Reqs
  BY IdleType, EmptyTypes, ConstantTypes DEF Init, Tables, Reqs
<1>2. ASSUME Tables, Reqs, [Next]_vars PROVE Tables' /\ Reqs'
  <2>1. CASE Tick
    BY <1>2, <2>1, TypeParts, TickTypes
  <2>2. ASSUME NEW r \in Requests, Begin(r) \/ Command(r) \/ Raise(r) PROVE Tables' /\ Reqs'
    BY <1>2, <2>2, TypeParts, RequestTypes, RequestTables
  <2>3. CASE UNCHANGED vars
    BY <1>2, <2>3 DEF vars, Tables, Reqs
  <2> QED
    BY <1>2, <2>1, <2>2, <2>3 DEF Next
<1> QED
  BY <1>1, <1>2

-----------------------------------------------------------------------------
(* The account counter *)

\* Wrong passwords so far, while the counter is open: what it counted and what an
\* INCR that raised lost.  Once it is full, those still being verified come on top.
Verifying(e) == {r \in Requests : req[r].pc = "verify" /\ req[r].email = e}
TriesCounted == \A e \in Emails :
    /\ attempts[e].count < LOGIN_ATTEMPTS_MAX => tries[e] <= attempts[e].count + faults
    /\ attempts[e].count = LOGIN_ATTEMPTS_MAX =>
        tries[e] + Cardinality(Verifying(e)) <=
            LOGIN_ATTEMPTS_MAX + (Cardinality(Requests) - 1) + faults

\* The inductive invariant of the counters.
CounterInv == Tables /\ Reqs /\ TriesCounted /\ CounterExpires

\* The requests that are verifying are finite; one that leaves is one less.
LEMMA VerifyingCount ==
    ASSUME NEW e
    PROVE  /\ IsFiniteSet(Verifying(e)) /\ IsFiniteSet(Verifying(e)')
           /\ Cardinality(Verifying(e)) \in Nat /\ Cardinality(Verifying(e)') \in Nat
           /\ Cardinality(Requests) \in Nat
           /\ Cardinality(Verifying(e)) <= Cardinality(Requests)
           /\ Verifying(e)' \subseteq Verifying(e) =>
                  Cardinality(Verifying(e)') <= Cardinality(Verifying(e))
           /\ \A r \in Requests : r \notin Verifying(e)' =>
                  Cardinality(Verifying(e)') <= Cardinality(Requests) - 1
           /\ \A r \in Verifying(e) : Verifying(e)' \subseteq Verifying(e) \ {r} =>
                  Cardinality(Verifying(e)') <= Cardinality(Verifying(e)) - 1
<1>1. IsFiniteSet(Requests)
  BY ConstantTypes
<1>2. Verifying(e) \in SUBSET Requests /\ Verifying(e)' \in SUBSET Requests
  BY DEF Verifying
<1> DEFINE V == Verifying(e)
           W == Verifying(e)'
<1> HIDE DEF V, W
<1>3. V \in SUBSET Requests /\ W \in SUBSET Requests
  BY <1>2 DEF V, W
<1>4. IsFiniteSet(V) /\ IsFiniteSet(W) /\ Cardinality(V) <= Cardinality(Requests)
  BY <1>1, <1>3, FS_Subset
<1>5. Cardinality(V) \in Nat /\ Cardinality(W) \in Nat /\ Cardinality(Requests) \in Nat
  BY <1>1, <1>4, FS_CardinalityType
<1>6. W \subseteq V => Cardinality(W) <= Cardinality(V)
  BY <1>4, FS_Subset
<1>7. ASSUME NEW r \in Requests, r \notin W PROVE Cardinality(W) <= Cardinality(Requests) - 1
  <2>1. IsFiniteSet(Requests \ {r}) /\ Cardinality(Requests \ {r}) = Cardinality(Requests) - 1
    BY <1>1, FS_RemoveElement
  <2>2. W \in SUBSET (Requests \ {r})
    BY <1>3, <1>7
  <2>3. Cardinality(W) <= Cardinality(Requests \ {r})
    BY <2>1, <2>2, FS_Subset
  <2> QED
    BY <2>1, <2>3
<1>8. ASSUME NEW r \in V, W \subseteq V \ {r} PROVE Cardinality(W) <= Cardinality(V) - 1
  <2>1. IsFiniteSet(V \ {r}) /\ Cardinality(V \ {r}) = Cardinality(V) - 1
    BY <1>4, FS_RemoveElement
  <2>2. Cardinality(W) <= Cardinality(V \ {r})
    BY <1>8, <2>1, FS_Subset
  <2> QED
    BY <2>1, <2>2
<1> QED
  BY <1>4, <1>5, <1>6, <1>7, <1>8 DEF V, W

\* What the stages mean for the counter.
LEMMA Records ==
    ASSUME NEW q \in Sound
    PROVE  /\ \A l : [q EXCEPT !.pc = l].pc = l /\ [q EXCEPT !.pc = l].email = q.email
           /\ [q EXCEPT !.pc = "hincrby", !.i = 1, !.now = 0].pc = "hincrby"
BY DEF Sound, Request

\* The requests that are not at the counter.
Off == {q \in Sound : q.pc \notin {"verify", "expire"}}

\* The stages a request goes to from there are off the counter as well.
LEMMA OffMoves ==
    ASSUME NEW q \in Sound, q.pc # "idle"
    PROVE  /\ \A u \in Deadlines : [q EXCEPT !.pc = "check_subject", !.until = u] \in Off
           /\ [q EXCEPT !.pc = "service", !.until = 0] \in Off
           /\ [q EXCEPT !.pc = "hincrby", !.i = 1, !.now = 0] \in Off
           /\ [q EXCEPT !.pc = "reset", !.i = 1] \in Off
           /\ [q EXCEPT !.pc = "hincrby", !.i = 2, !.n = 0, !.until = 0] \in Off
           /\ q \in Off => [q EXCEPT !.i = 2] \in Off
           /\ q.i \in 1 .. 2 => \A n \in 0 .. MaxFailures : [q EXCEPT !.pc = "hget", !.n = n] \in Off
           /\ q.i \in 1 .. 2 => \A u \in Deadlines : [q EXCEPT !.pc = "hset", !.until = u] \in Off
<1>1. /\ \A u : [q EXCEPT !.pc = "check_subject", !.until = u].pc = "check_subject"
      /\ [q EXCEPT !.pc = "service", !.until = 0].pc = "service"
      /\ [q EXCEPT !.pc = "hincrby", !.i = 1, !.now = 0].pc = "hincrby"
      /\ [q EXCEPT !.pc = "reset", !.i = 1].pc = "reset"
      /\ [q EXCEPT !.pc = "hincrby", !.i = 2, !.n = 0, !.until = 0].pc = "hincrby"
      /\ [q EXCEPT !.i = 2].pc = q.pc
      /\ \A n : [q EXCEPT !.pc = "hget", !.n = n].pc = "hget"
      /\ \A u : [q EXCEPT !.pc = "hset", !.until = u].pc = "hset"
  BY DEF Sound, Request
<1> QED
  BY <1>1, Moves DEF Off

\* Every other step leaves the verification, if at all, without the counter.
LEMMA ElsewhereSteps ==
    ASSUME Tables, Reqs, NEW r \in Requests,
           \/ Begin(r) \/ CheckIp(r) \/ CheckSubject(r) \/ CheckRaises(r) \/ OtherService(r)
           \/ LockoutCheckRaises(r) \/ Refuse(r) \/ ClearRaises(r) \/ HIncrBy(r)
           \/ HExpireRaises(r) \/ HGet(r) \/ HSet(r) \/ Reset(r) \/ RecordRaises(r)
    PROVE  /\ \E q \in Off : Continue(r, q)
           /\ req[r].pc # "expire" /\ UNCHANGED <<attempts, tries>>
           /\ faults' = faults \/ faults' = faults + 1
<1>a. \A k \in Keys : limit[k].locked_until \in Deadlines /\ limit[k].failures \in 0 .. MaxFailures
  BY DEF Tables, Hash
<1>b. /\ req[r] \in Sound
      /\ req[r].pc \in {"hincrby", "hget", "hset", "reset"} => req[r].i \in 1 .. 2 /\ req[r] \in Off
  BY DEF Reqs, Sound, Off
<1>c. Idle \in Off
  BY IdleType DEF Off, Idle
<1>d. TypeOK
  BY TypeParts
<1>1. CASE Begin(r)
  <2>1. ASSUME NEW p \in Endpoints, NEW ip \in Ips, NEW e \in Emails
        PROVE  [Idle EXCEPT !.pc = "check_ip", !.p = p, !.ip = ip, !.email = e] \in Off
    BY Begins DEF Off, Idle
  <2> QED
    BY <1>1, <2>1 DEF Begin
<1>2. CASE CheckIp(r)
  BY <1>2, <1>b, <1>c, OffMoves, <1>a, <1>d, KeyTypes DEF CheckIp, Answer
<1>3. CASE CheckSubject(r)
  BY <1>3, <1>b, <1>c, OffMoves DEF CheckSubject, Serve, Answer
<1>4. CASE CheckRaises(r)
  BY <1>4, <1>b, <1>c, OffMoves DEF CheckRaises, Serve, Fault, Answer
<1>5. CASE OtherService(r)
  BY <1>5, <1>b, <1>c, OffMoves DEF OtherService, Succeed, BeginRecord, Answer
<1>6. CASE LockoutCheckRaises(r)
  BY <1>6, <1>b, <1>c, OffMoves DEF LockoutCheckRaises, BeginRecord, Fault, Answer
<1>7. CASE Refuse(r)
  BY <1>7, <1>b, <1>c, OffMoves DEF Refuse, BeginRecord, Answer
<1>8. CASE ClearRaises(r)
  BY <1>8, <1>b, <1>c, OffMoves DEF ClearRaises, Succeed, Fault, Answer
<1>9. CASE HIncrBy(r)
  <2> DEFINE n == Min({limit[KeyOf(req[r])].failures + 1, MaxFailures})
  <2>1. KeyOf(req[r]) \in Keys
    BY <1>9, <1>d, KeyTypes DEF HIncrBy, KeyOf
  <2>2. n \in 0 .. MaxFailures
    <3>1. limit[KeyOf(req[r])].failures \in 0 .. MaxFailures
      BY <2>1, <1>a
    <3> QED
      BY <3>1, CappedFailures
  <2>3. /\ req[r].pc = "hincrby" /\ UNCHANGED <<attempts, tries, faults>>
        /\ Continue(r, [req[r] EXCEPT !.pc = "hget", !.n = n]) \/ NextKey(r)
    BY <1>9 DEF HIncrBy
  <2> HIDE DEF n
  <2> QED
    BY <2>2, <2>3, <1>b, <1>c, OffMoves DEF NextKey, Answer
<1>10. CASE HExpireRaises(r)
  BY <1>10, <1>b, <1>c, OffMoves DEF HExpireRaises, Fault, Answer
<1>11. CASE HGet(r)
  BY <1>11, <1>b, <1>c, OffMoves, <1>a, <1>d, KeyTypes DEF HGet, KeyOf, Answer
<1>12. CASE HSet(r)
  BY <1>12, <1>b, <1>c, OffMoves DEF HSet, NextKey, Answer
<1>13. CASE Reset(r)
  BY <1>13, <1>b, <1>c, OffMoves DEF Reset, Answer
<1>14. CASE RecordRaises(r)
  BY <1>14, <1>b, <1>c, OffMoves DEF RecordRaises, Fault, Answer
<1> QED
  BY <1>1, <1>2, <1>3, <1>4, <1>5, <1>6, <1>7, <1>8, <1>9, <1>10, <1>11, <1>12, <1>13, <1>14

\* A step off the counter keeps what is said of it.
LEMMA Elsewhere ==
    ASSUME CounterInv, Tables', NEW r \in Requests, NEW q \in Off, Continue(r, q),
           req[r].pc # "expire", UNCHANGED <<attempts, tries>>,
           faults' = faults \/ faults' = faults + 1
    PROVE  TriesCounted' /\ CounterExpires'
<1>1. \A e \in Emails : Verifying(e)' \subseteq Verifying(e)
  BY DEF Verifying, Continue, CounterInv, Reqs, Off
<1>2. faults \in Nat /\ faults' \in Nat /\ faults <= faults'
  BY DEF CounterInv, Tables
<1>3. \A e \in Emails : attempts[e].count \in Nat /\ tries[e] \in Nat
  BY DEF CounterInv, Tables, Counter
<1>4. \A e \in Emails : Cardinality(Verifying(e)') <= Cardinality(Verifying(e))
                         /\ Cardinality(Verifying(e)') \in Nat /\ Cardinality(Verifying(e)) \in Nat
                         /\ Cardinality(Requests) \in Nat
  BY <1>1, VerifyingCount
<1>5. TriesCounted'
  BY <1>2, <1>3, <1>4, ConstantTypes DEF CounterInv, TriesCounted
<1>6. CounterExpires'
  BY <1>2 DEF CounterInv, CounterExpires, Continue, Reqs
<1> QED
  BY <1>5, <1>6

\* The steps at the counter.
LEMMA AtCounter ==
    ASSUME CounterInv, Tables', NEW r \in Requests,
           \/ CheckAccountLockout(r) \/ WrongPassword(r) \/ ExpireCounter(r) \/ IncrRaises(r)
           \/ ExpireRaises(r) \/ RightPassword(r)
    PROVE  TriesCounted' /\ CounterExpires'
<1> DEFINE a == req[r].email
<1>a. req[r] \in Sound /\ req \in [Requests -> Sound] /\ (req[r].pc # "idle" => a \in Emails)
  BY DEF CounterInv, Reqs, Sound
<1>b. faults \in Nat /\ faults' \in Nat
  BY DEF CounterInv, Tables
<1>c. \A e \in Emails : /\ attempts[e].count \in 0 .. LOGIN_ATTEMPTS_MAX /\ tries[e] \in Nat
                        /\ attempts'[e].count \in 0 .. LOGIN_ATTEMPTS_MAX /\ tries'[e] \in Nat
                        /\ DOMAIN attempts[e] = {"count", "ttl"}
  BY DEF CounterInv, Tables, Counter
<1>d. attempts \in [Emails -> Counter] /\ tries \in [Emails -> Nat]
  BY DEF CounterInv, Tables
<1>1. CASE CheckAccountLockout(r)
  <2>1. CASE attempts[a].count >= LOGIN_ATTEMPTS_MAX
    <3> DEFINE q == [req[r] EXCEPT !.pc = "hincrby", !.i = 1, !.now = 0]
    <3>1. Continue(r, q) /\ req[r].pc = "service" /\ UNCHANGED <<attempts, tries, faults>>
      BY <1>1, <2>1 DEF CheckAccountLockout, BeginRecord
    <3>2. q \in Off
      BY <3>1, <1>a, OffMoves
    <3> HIDE DEF q
    <3> QED
      BY <3>1, <3>2, Elsewhere
  <2>2. CASE ~(attempts[a].count >= LOGIN_ATTEMPTS_MAX)
    <3>0. attempts[a].count < LOGIN_ATTEMPTS_MAX /\ a \in Emails
      BY <2>2, <1>1, <1>a, <1>c, ConstantTypes DEF CheckAccountLockout
    <3>1. Continue(r, [req[r] EXCEPT !.pc = "verify"]) /\ req[r].pc = "service"
          /\ UNCHANGED <<attempts, tries, faults>>
      BY <1>1, <2>2 DEF CheckAccountLockout, Goto
    <3>2. \A e \in Emails \ {a} : Verifying(e)' \subseteq Verifying(e)
      BY <3>1, <1>a, Records DEF Verifying, Continue
    <3>3. \A e \in Emails \ {a} : Cardinality(Verifying(e)') <= Cardinality(Verifying(e))
              /\ Cardinality(Verifying(e)') \in Nat /\ Cardinality(Verifying(e)) \in Nat
              /\ Cardinality(Requests) \in Nat
      BY <3>2, VerifyingCount
    <3>4. TriesCounted'
      BY <3>0, <3>1, <3>3, <1>b, <1>c, ConstantTypes DEF CounterInv, TriesCounted
    <3>5. CounterExpires'
      BY <3>1, <1>a DEF CounterInv, CounterExpires, Continue
    <3> QED
      BY <3>4, <3>5
  <2> QED
    BY <2>1, <2>2
<1>2. CASE WrongPassword(r)
  <2>0. a \in Emails /\ r \in Verifying(a)
    BY <1>2, <1>a DEF WrongPassword, Verifying
  <2>b. PICK b \in Emails : b = a
    BY <2>0
  <2>1. PICK l \in {"expire", "hincrby"} :
          \E q : Continue(r, q) /\ q.pc = l /\ (l = "expire" => q.email = a)
                /\ (l = "hincrby" => attempts[a].count + 1 # 1)
    BY <1>2, <1>a, Records DEF WrongPassword, Goto, BeginRecord
  <2>2. \A e \in Emails : Verifying(e)' \subseteq Verifying(e) \ {r}
    BY <2>1, <1>a DEF Verifying, Continue
  <2>3. \A e \in Emails : /\ Cardinality(Verifying(e)') <= Cardinality(Verifying(e))
                           /\ Cardinality(Verifying(e)') \in Nat /\ Cardinality(Verifying(e)) \in Nat
                           /\ Cardinality(Requests) \in Nat
    BY <2>2, VerifyingCount
  <2>4. /\ Cardinality(Verifying(b)') <= Cardinality(Verifying(b)) - 1
        /\ Cardinality(Verifying(b)') <= Cardinality(Requests) - 1
    <3>1. r \notin Verifying(b)' /\ Verifying(b)' \subseteq Verifying(b) \ {r}
      BY <2>0, <2>b, <2>2
    <3>2. Cardinality(Verifying(b)') <= Cardinality(Verifying(b)) - 1
      BY <2>0, <2>b, <3>1, VerifyingCount
    <3>3. Cardinality(Verifying(b)') <= Cardinality(Requests) - 1
      BY <3>1, VerifyingCount
    <3> QED
      BY <3>2, <3>3
  <2>5. /\ attempts' = [attempts EXCEPT ![a].count = Min({attempts[a].count + 1, LOGIN_ATTEMPTS_MAX})]
        /\ tries' = [tries EXCEPT ![a] = tries[a] + 1] /\ faults' = faults
    BY <1>2 DEF WrongPassword
  <2>6. Min({attempts[a].count + 1, LOGIN_ATTEMPTS_MAX}) =
          IF attempts[a].count + 1 <= LOGIN_ATTEMPTS_MAX THEN attempts[a].count + 1
          ELSE LOGIN_ATTEMPTS_MAX
    BY <2>0, <1>c, ConstantTypes, MinOfTwo
  <2>7. /\ attempts'[a].count = IF attempts[a].count + 1 <= LOGIN_ATTEMPTS_MAX
                               THEN attempts[a].count + 1 ELSE LOGIN_ATTEMPTS_MAX
        /\ attempts'[a].ttl = attempts[a].ttl
        /\ \A e \in Emails \ {a} : attempts'[e] = attempts[e] /\ tries'[e] = tries[e]
        /\ tries'[a] = tries[a] + 1
    BY <2>0, <2>5, <2>6, <1>d DEF Counter
  <2>8. TriesCounted'
    <3> SUFFICES ASSUME NEW e \in Emails
                 PROVE  /\ attempts'[e].count < LOGIN_ATTEMPTS_MAX => tries'[e] <= attempts'[e].count + faults'
                        /\ attempts'[e].count = LOGIN_ATTEMPTS_MAX =>
                             tries'[e] + Cardinality(Verifying(e)') <=
                               LOGIN_ATTEMPTS_MAX + (Cardinality(Requests) - 1) + faults'
      BY DEF TriesCounted
    <3>1. CASE e = a
      <4> DEFINE c == attempts[b].count
                 d == attempts'[b].count
                 V == Cardinality(Verifying(b))
                 W == Cardinality(Verifying(b)')
                 N == Cardinality(Requests)
      <4>1. /\ c < LOGIN_ATTEMPTS_MAX => tries[b] <= c + faults
            /\ c = LOGIN_ATTEMPTS_MAX => tries[b] + V <= LOGIN_ATTEMPTS_MAX + (N - 1) + faults
        BY <2>0, <2>b DEF CounterInv, TriesCounted
      <4>2. V \in Nat /\ W \in Nat /\ N \in Nat /\ W <= V - 1 /\ W <= N - 1
        BY <2>0, <2>b, <2>3, <2>4
      <4>3. c \in 0 .. LOGIN_ATTEMPTS_MAX /\ tries[b] \in Nat
            /\ d = IF c + 1 <= LOGIN_ATTEMPTS_MAX THEN c + 1 ELSE LOGIN_ATTEMPTS_MAX
        BY <2>0, <2>7, <2>b, <1>c
      <4>4. tries'[b] = tries[b] + 1 /\ faults' = faults
        BY <2>5, <2>7, <2>b
      <4> HIDE DEF c, d, V, W, N
      <4>5. /\ d < LOGIN_ATTEMPTS_MAX => tries'[b] <= d + faults'
            /\ d = LOGIN_ATTEMPTS_MAX => tries'[b] + W <= LOGIN_ATTEMPTS_MAX + (N - 1) + faults'
        BY <4>1, <4>2, <4>3, <4>4, <1>b, ConstantTypes
      <4> QED
        BY <3>1, <2>b, <4>5 DEF d, W, N
    <3>2. CASE e # a
      BY <3>2, <2>3, <2>5, <2>7, <1>b, <1>c, ConstantTypes DEF CounterInv, TriesCounted
    <3> QED
      BY <3>1, <3>2
  <2>9. CounterExpires'
    <3> SUFFICES ASSUME NEW e \in Emails, attempts'[e].count > 0, attempts'[e].ttl = None, faults' = 0
                 PROVE  \E x \in Requests : req'[x].pc = "expire" /\ req'[x].email = e
      BY DEF CounterExpires
    <3>1. CASE e = a /\ attempts[a].count = 0
      BY <3>1, <2>1, <1>a DEF Continue
    <3>2. CASE e # a \/ attempts[a].count # 0
      <4>1. attempts[e].count > 0 /\ attempts[e].ttl = None /\ faults = 0
        BY <3>2, <2>0, <2>5, <2>7, <1>c
      <4>2. PICK x \in Requests : req[x].pc = "expire" /\ req[x].email = e
        BY <4>1 DEF CounterInv, CounterExpires
      <4>3. x # r
        BY <4>2, <1>2 DEF WrongPassword
      <4> QED
        BY <4>2, <4>3, <2>1, <1>a DEF Continue
    <3> QED
      BY <3>1, <3>2
  <2> QED
    BY <2>8, <2>9
<1>3. CASE ExpireCounter(r)
  <2>0. a \in Emails
    BY <1>3, <1>a DEF ExpireCounter
  <2>1. \E q : Continue(r, q) /\ q.pc = "hincrby"
    BY <1>3, <1>a, Records DEF ExpireCounter, BeginRecord
  <2>2. \A e \in Emails : Verifying(e)' \subseteq Verifying(e)
    BY <2>1, <1>a DEF Verifying, Continue
  <2>3. \A e \in Emails : /\ Cardinality(Verifying(e)') <= Cardinality(Verifying(e))
                           /\ Cardinality(Verifying(e)') \in Nat /\ Cardinality(Verifying(e)) \in Nat
                           /\ Cardinality(Requests) \in Nat
    BY <2>2, VerifyingCount
  <2>4. /\ \A e \in Emails : attempts'[e].count = attempts[e].count
        /\ \A e \in Emails \ {a} : attempts'[e] = attempts[e]
        /\ attempts[a].count > 0 => attempts'[a].ttl = LOGIN_ATTEMPTS_WINDOW
        /\ tries' = tries /\ faults' = faults
    BY <1>3, <2>0, <1>d DEF ExpireCounter, Counter
  <2>5. LOGIN_ATTEMPTS_WINDOW # None
    BY ConstantTypes, NoneType
  <2>6. TriesCounted'
    BY <2>3, <2>4, <1>b, <1>c, ConstantTypes DEF CounterInv, TriesCounted
  <2>7. CounterExpires'
    BY <2>1, <2>4, <2>5, <1>a, <1>c DEF CounterInv, CounterExpires, Continue
  <2> QED
    BY <2>6, <2>7
<1>4. CASE IncrRaises(r)
  <2>0. a \in Emails /\ r \in Verifying(a)
    BY <1>4, <1>a DEF IncrRaises, Verifying
  <2>1. \E q : Continue(r, q) /\ q.pc = "hincrby"
    BY <1>4, <1>a, Records DEF IncrRaises, BeginRecord
  <2>2. \A e \in Emails : Verifying(e)' \subseteq Verifying(e)
    BY <2>1, <1>a DEF Verifying, Continue
  <2>3. \A e \in Emails : /\ Cardinality(Verifying(e)') <= Cardinality(Verifying(e))
                           /\ Cardinality(Verifying(e)') \in Nat /\ Cardinality(Verifying(e)) \in Nat
                           /\ Cardinality(Requests) \in Nat
    BY <2>2, VerifyingCount
  <2>4. /\ tries'[a] = tries[a] + 1 /\ \A e \in Emails \ {a} : tries'[e] = tries[e]
        /\ attempts' = attempts /\ faults' = faults + 1
    BY <1>4, <2>0, <1>d DEF IncrRaises, Fault
  <2>5. TriesCounted'
    BY <2>3, <2>4, <1>b, <1>c, ConstantTypes DEF CounterInv, TriesCounted
  <2>6. CounterExpires'
    BY <2>4, <1>b DEF CounterExpires
  <2> QED
    BY <2>5, <2>6
<1>5. CASE ExpireRaises(r)
  <2>1. \E q : Continue(r, q) /\ q.pc = "hincrby"
    BY <1>5, <1>a, Records DEF ExpireRaises, BeginRecord
  <2>2. \A e \in Emails : Verifying(e)' \subseteq Verifying(e)
    BY <2>1, <1>a DEF Verifying, Continue
  <2>3. \A e \in Emails : /\ Cardinality(Verifying(e)') <= Cardinality(Verifying(e))
                           /\ Cardinality(Verifying(e)') \in Nat /\ Cardinality(Verifying(e)) \in Nat
                           /\ Cardinality(Requests) \in Nat
    BY <2>2, VerifyingCount
  <2>4. tries' = tries /\ attempts' = attempts /\ faults' = faults + 1
    BY <1>5 DEF ExpireRaises, Fault
  <2>5. TriesCounted'
    BY <2>3, <2>4, <1>b, <1>c, ConstantTypes DEF CounterInv, TriesCounted
  <2>6. CounterExpires'
    BY <2>4, <1>b DEF CounterExpires
  <2> QED
    BY <2>5, <2>6
<1>6. CASE RightPassword(r)
  <2>0. a \in Emails
    BY <1>6, <1>a DEF RightPassword
  <2>1. \E q : Continue(r, q) /\ q.pc \notin {"verify", "expire"}
    <3>1. Idle \in Off
      BY IdleType DEF Off, Idle
    <3>2. \E q \in Off : Continue(r, q)
      BY <1>6, <1>a, <3>1, OffMoves DEF RightPassword, Succeed, Answer
    <3> QED
      BY <3>2 DEF Off
  <2>2. \A e \in Emails : Verifying(e)' \subseteq Verifying(e)
    BY <2>1, <1>a DEF Verifying, Continue
  <2>3. \A e \in Emails : /\ Cardinality(Verifying(e)') <= Cardinality(Verifying(e))
                           /\ Cardinality(Verifying(e)') \in Nat /\ Cardinality(Verifying(e)) \in Nat
                           /\ Cardinality(Requests) \in Nat
    BY <2>2, VerifyingCount
  <2>4. /\ tries'[a] = 0 /\ attempts'[a].count = 0 /\ faults' = faults
        /\ \A e \in Emails \ {a} : tries'[e] = tries[e] /\ attempts'[e] = attempts[e]
    BY <1>6, <2>0, <1>d DEF RightPassword, NoCounter
  <2>5. TriesCounted'
    BY <2>3, <2>4, <1>b, <1>c, ConstantTypes DEF CounterInv, TriesCounted
  <2>6. CounterExpires'
    <3> SUFFICES ASSUME NEW e \in Emails, attempts'[e].count > 0, attempts'[e].ttl = None, faults' = 0
                 PROVE  \E x \in Requests : req'[x].pc = "expire" /\ req'[x].email = e
      BY DEF CounterExpires
    <3>1. PICK x \in Requests : req[x].pc = "expire" /\ req[x].email = e
      BY <2>4 DEF CounterInv, CounterExpires
    <3>2. x # r
      BY <3>1, <1>6 DEF RightPassword
    <3> QED
      BY <3>1, <3>2, <2>1, <1>a DEF Continue
  <2> QED
    BY <2>5, <2>6
<1> QED
  BY <1>1, <1>2, <1>3, <1>4, <1>5, <1>6

\* The clock.
LEMMA TickCounter ==
    ASSUME CounterInv, Tables', Tick
    PROVE  TriesCounted' /\ CounterExpires'
<1>a. /\ attempts \in [Emails -> Counter] /\ tries \in [Emails -> Nat] /\ faults' = faults
      /\ req \in [Requests -> Sound]
  BY DEF CounterInv, Tables, Tick, Reqs
<1>b. \A r \in Requests : req'[r].pc = req[r].pc /\ req'[r].email = req[r].email
  BY <1>a DEF Tick, Sound, Request
<1>c. \A e \in Emails : Verifying(e)' = Verifying(e)
  BY <1>b DEF Verifying
<1>d. \A e \in Emails : \/ attempts'[e] = NoCounter /\ tries'[e] = 0
                        \/ /\ attempts'[e].count = attempts[e].count /\ tries'[e] = tries[e]
                           /\ attempts'[e].ttl = None => attempts[e].ttl = None
  <2> TAKE e \in Emails
  <2>1. attempts[e] \in Counter
    BY <1>a
  <2>2. CASE attempts[e].ttl = None
    <3>1. attempts'[e] = attempts[e]
      BY <2>2 DEF Tick
    <3>2. tries'[e] = tries[e]
      BY <2>2, NoneType DEF Tick
    <3> QED
      BY <3>1, <3>2
  <2>3. CASE attempts[e].ttl = 1
    <3>1. attempts'[e] = NoCounter
      BY <2>3, NoneType DEF Tick
    <3>2. tries'[e] = 0
      BY <2>3 DEF Tick
    <3> QED
      BY <3>1, <3>2
  <2>4. CASE attempts[e].ttl \notin {1, None}
    <3>1. attempts'[e] = [attempts[e] EXCEPT !.ttl = @ - 1] /\ tries'[e] = tries[e]
      BY <2>4, <2>1 DEF Tick
    <3>2. attempts[e].ttl \in Int
      BY <2>4, <2>1 DEF Counter
    <3>3. attempts'[e].count = attempts[e].count /\ attempts'[e].ttl = attempts[e].ttl - 1
      BY <3>1, <2>1 DEF Counter
    <3>4. attempts'[e].ttl # None
      BY <3>2, <3>3, NoneType
    <3> QED
      BY <3>1, <3>3, <3>4
  <2> QED
    BY <2>2, <2>3, <2>4
<1>e. \A e \in Emails : Cardinality(Verifying(e)) \in Nat
          /\ Cardinality(Verifying(e)) <= Cardinality(Requests) /\ Cardinality(Requests) \in Nat
  BY VerifyingCount
<1>f. NoCounter.count = 0
  BY DEF NoCounter
<1>g. faults \in Nat /\ \A e \in Emails : attempts[e].count \in Nat /\ tries[e] \in Nat
  BY <1>a DEF CounterInv, Tables, Counter
<1>1. TriesCounted'
  BY <1>a, <1>c, <1>d, <1>e, <1>f, <1>g, ConstantTypes DEF CounterInv, TriesCounted
<1>2. CounterExpires'
  BY <1>a, <1>b, <1>d, <1>f DEF CounterInv, CounterExpires
<1> QED
  BY <1>1, <1>2

\* The invariant of the counters is inductive.
LEMMA CounterInvHolds ==
    /\ Init => CounterInv
    /\ CounterInv /\ [Next]_vars => CounterInv'
<1>1. ASSUME Init PROVE CounterInv
  <2>1. Tables /\ Reqs
    BY <1>1, TypesHold
  <2>2. \A e \in Emails : attempts[e].count = 0 /\ tries[e] = 0
    BY <1>1 DEF Init, NoCounter
  <2>3. faults \in Nat
    BY <2>1 DEF Tables
  <2> QED
    BY <2>1, <2>2, <2>3, ConstantTypes DEF CounterInv, TriesCounted, CounterExpires
<1>2. ASSUME CounterInv, [Next]_vars PROVE CounterInv'
  <2>0. Tables' /\ Reqs'
    BY <1>2, TypesHold DEF CounterInv
  <2>1. CASE Tick
    BY <1>2, <2>0, <2>1, TickCounter DEF CounterInv
  <2>2. ASSUME NEW r \in Requests, Begin(r) \/ Command(r) \/ Raise(r) PROVE TriesCounted' /\ CounterExpires'
    <3>1. CASE \/ CheckAccountLockout(r) \/ WrongPassword(r) \/ ExpireCounter(r)
               \/ IncrRaises(r) \/ ExpireRaises(r) \/ RightPassword(r)
      BY <1>2, <2>0, <3>1, AtCounter
    <3>2. CASE ~(\/ CheckAccountLockout(r) \/ WrongPassword(r) \/ ExpireCounter(r)
                 \/ IncrRaises(r) \/ ExpireRaises(r) \/ RightPassword(r))
      <4>1. /\ \E q \in Off : Continue(r, q)
            /\ req[r].pc # "expire" /\ UNCHANGED <<attempts, tries>>
            /\ faults' = faults \/ faults' = faults + 1
        BY <1>2, <2>2, <3>2, ElsewhereSteps DEF CounterInv, Command, Raise
      <4> QED
        BY <1>2, <2>0, <4>1, Elsewhere
    <3> QED
      BY <3>1, <3>2
  <2>3. CASE UNCHANGED vars
    BY <1>2, <2>3 DEF vars, CounterInv, Tables, Reqs, TriesCounted, CounterExpires, Verifying
  <2> QED
    BY <1>2, <2>0, <2>1, <2>2, <2>3 DEF Next, CounterInv
<1> QED
  BY <1>1, <1>2

\* The limiter's hashes, the counters and the requests keep their types.
THEOREM LoginTypes == Spec => []TypeOK
<1>1. CounterInv => TypeOK
  BY TypeParts DEF CounterInv
<1> QED
  BY <1>1, CounterInvHolds, PTL DEF Spec

\* Wrong passwords of one window are bounded by the limit of the counter, the other
\* requests in flight and the Redis errors.
THEOREM AttemptsAreBounded == Spec => []AttemptsBounded
<1>1. CounterInv => AttemptsBounded
  <2> SUFFICES ASSUME CounterInv, NEW e \in Emails
               PROVE  tries[e] <= LOGIN_ATTEMPTS_MAX + (Cardinality(Requests) - 1) + faults
    BY DEF AttemptsBounded
  <2>1. attempts[e].count \in 0 .. LOGIN_ATTEMPTS_MAX /\ tries[e] \in Nat /\ faults \in Nat
    BY DEF CounterInv, Tables, Counter
  <2>2. Cardinality(Verifying(e)) \in Nat /\ Cardinality(Requests) \in Nat
    BY VerifyingCount
  <2> QED
    BY <2>1, <2>2, ConstantTypes DEF CounterInv, TriesCounted
<1> QED
  BY <1>1, CounterInvHolds, PTL DEF Spec

\* A counter without a time to live has a request that is about to set it.
THEOREM CounterGetsTTL == Spec => []CounterExpires
<1>1. CounterInv => CounterExpires
  BY DEF CounterInv
<1> QED
  BY <1>1, CounterInvHolds, PTL DEF Spec

-----------------------------------------------------------------------------
(* The locks *)

\* The keys whose lock a request may still set, and the requests that may set the
\* lock of k, those included that will have passed the precheck after v ticks.
KeysLeft(q) ==
    IF q.pc \in {"service", "verify", "expire"} THEN {KeyAt(q, 1), KeyAt(q, 2)}
    ELSE IF q.pc \in {"hincrby", "hget", "hset"} THEN {KeyOf(q), KeyAt(q, 2)}
    ELSE {}
MayLock(q, k, v) ==
    \/ k \in KeysLeft(q)
    \/ q.pc = "check_subject" /\ k = KeyAt(q, 1) /\ q.until <= v
Lockers(k, v) == {r \in Requests : MayLock(req[r], k, v)}

\* A lock that will run for longer than v ticks leaves a step of the table for each
\* request that may still extend it then.
Room(k, v) ==
    limit[k].locked_until > v =>
        limit[k].locked_until - v + Horizon * Cardinality(Lockers(k, v))
            <= Horizon * (Cardinality(Requests) + faults)

\* The inductive invariant of the locks.
LockInv ==
    /\ Tables /\ Reqs
    /\ Outlived \subseteq outlived
    /\ \A k \in Keys \ outlived : \A v \in Nat : Room(k, v)

\* Arithmetic of a number of steps.
LEMMA Products ==
    ASSUME NEW h \in Nat
    PROVE  /\ \A a \in Int : h * a \in Int /\ h * (a + 1) = h * a + h /\ h * (a - 1) = h * a - h
           /\ \A a, b \in Int : a <= b => h * a <= h * b
<1>1. \A a \in Int : h * a \in Int /\ h * (a + 1) = h * a + h /\ h * (a - 1) = h * a - h
  OBVIOUS
<1>2. ASSUME NEW a \in Int, NEW b \in Int, a <= b PROVE h * a <= h * b
  <2>1. b - a \in Nat
    BY <1>2
  <2>2. h * (b - a) \in Nat
    BY <2>1
  <2>3. h * b = h * a + h * (b - a)
    OBVIOUS
  <2> QED
    BY <2>2, <2>3
<1> QED
  BY <1>1, <1>2

\* The requests that may set a lock are countable.
LEMMA LockersFinite ==
    ASSUME NEW k, NEW v
    PROVE  /\ Lockers(k, v) \in SUBSET Requests /\ Lockers(k, v)' \in SUBSET Requests
           /\ IsFiniteSet(Lockers(k, v)) /\ IsFiniteSet(Lockers(k, v)')
           /\ Cardinality(Lockers(k, v)) \in Nat /\ Cardinality(Lockers(k, v)') \in Nat
           /\ Cardinality(Requests) \in Nat
           /\ Cardinality(Lockers(k, v)') <= Cardinality(Requests)
           /\ Cardinality(Lockers(k, v)) <= Cardinality(Requests)
<1>1. IsFiniteSet(Requests)
  BY ConstantTypes
<1>2. Lockers(k, v) \in SUBSET Requests /\ Lockers(k, v)' \in SUBSET Requests
  BY DEF Lockers
<1>3. /\ IsFiniteSet(Lockers(k, v)) /\ IsFiniteSet(Lockers(k, v)')
      /\ Cardinality(Lockers(k, v)') <= Cardinality(Requests)
      /\ Cardinality(Lockers(k, v)) <= Cardinality(Requests)
  BY <1>1, <1>2, FS_Subset
<1> QED
  BY <1>1, <1>2, <1>3, FS_CardinalityType

\* The numbers of Room.
LEMMA LockTypes ==
    ASSUME Tables, NEW k \in Keys
    PROVE  limit[k].locked_until \in Int /\ limit[k].locked_until >= -Horizon /\ faults \in Nat
BY DEF Tables, Hash, Deadlines

\* A step that lets no request in keeps the room.
LEMMA RoomKept ==
    ASSUME Tables, Tables', NEW k \in Keys, NEW v \in Nat, Room(k, v),
           limit'[k].locked_until <= limit[k].locked_until, faults' >= faults,
           Lockers(k, v)' \subseteq Lockers(k, v)
    PROVE  Room(k, v)'
<1> DEFINE c == Cardinality(Lockers(k, v))
           d == Cardinality(Lockers(k, v)')
           N == Cardinality(Requests)
<1>1. c \in Nat /\ d \in Nat /\ N \in Nat /\ d <= c
  BY LockersFinite, FS_Subset
<1>2. limit[k].locked_until \in Int /\ limit'[k].locked_until \in Int /\ faults \in Nat /\ faults' \in Nat
  BY DEF Tables, Hash, Deadlines
<1>3. Horizon \in Nat
  BY TableTop
<1>4. limit[k].locked_until > v =>
        limit[k].locked_until - v + Horizon * c <= Horizon * (N + faults)
  BY DEF Room
<1> HIDE DEF c, d, N
<1>5. /\ Horizon * d <= Horizon * c /\ Horizon * (N + faults) <= Horizon * (N + faults')
      /\ Horizon * d \in Int /\ Horizon * c \in Int /\ Horizon * (N + faults) \in Int
      /\ Horizon * (N + faults') \in Int
  <2>0. N \in Int /\ faults \in Int /\ faults' \in Int /\ faults <= faults'
    BY <1>1, <1>2
  <2>1. N + faults \in Int /\ N + faults' \in Int /\ N + faults <= N + faults'
    <3>1. \A a, b, f \in Int : b <= f => a + b \in Int /\ a + f \in Int /\ a + b <= a + f
      OBVIOUS
    <3> QED
      BY <2>0, <3>1, Zenon
  <2>2. c \in Int /\ d \in Int
    BY <1>1
  <2>3. Horizon * d <= Horizon * c /\ Horizon * d \in Int /\ Horizon * c \in Int
    BY <1>1, <1>3, <2>2, Products
  <2>4. Horizon * (N + faults) <= Horizon * (N + faults')
    BY <1>3, <2>1, Products
  <2>5. Horizon * (N + faults) \in Int /\ Horizon * (N + faults') \in Int
    BY <1>3, <2>1, Products
  <2> QED
    BY <2>3, <2>4, <2>5
<1>6. limit'[k].locked_until > v =>
        limit'[k].locked_until - v + Horizon * d <= Horizon * (N + faults')
  BY <1>2, <1>4, <1>5
<1> QED
  BY <1>6 DEF Room, d, N

\* A request gets in while the lock is over, or because a command raised.
LEMMA RoomForOne ==
    ASSUME Tables, Tables', NEW k \in Keys, NEW v \in Nat, Room(k, v), NEW r,
           limit'[k].locked_until <= limit[k].locked_until,
           limit'[k].locked_until <= v \/ faults' = faults + 1,
           Lockers(k, v)' \subseteq Lockers(k, v) \cup {r}
    PROVE  Room(k, v)'
<1> DEFINE c == Cardinality(Lockers(k, v))
           d == Cardinality(Lockers(k, v)')
           N == Cardinality(Requests)
<1>1. c \in Nat /\ d \in Nat /\ N \in Nat /\ d <= c + 1
  <2>1. /\ IsFiniteSet(Lockers(k, v) \cup {r})
        /\ Cardinality(Lockers(k, v) \cup {r}) \in {c, c + 1}
    BY LockersFinite, FS_AddElement
  <2>2. d <= Cardinality(Lockers(k, v) \cup {r})
    BY <2>1, FS_Subset
  <2>3. c \in Nat /\ d \in Nat /\ N \in Nat
    BY LockersFinite
  <2> HIDE DEF c, d, N
  <2> QED
    BY <2>1, <2>2, <2>3
<1>2. limit[k].locked_until \in Int /\ limit'[k].locked_until \in Int /\ faults \in Nat /\ faults' \in Nat
  BY DEF Tables, Hash, Deadlines
<1>3. Horizon \in Nat
  BY TableTop
<1>4. limit[k].locked_until > v =>
        limit[k].locked_until - v + Horizon * c <= Horizon * (N + faults)
  BY DEF Room
<1> HIDE DEF c, d, N
<1>5. CASE limit'[k].locked_until <= v
  BY <1>2, <1>5 DEF Room
<1>6. CASE faults' = faults + 1
  <2>1. /\ Horizon * d <= Horizon * (c + 1) /\ Horizon * (c + 1) = Horizon * c + Horizon
        /\ Horizon * ((N + faults) + 1) = Horizon * (N + faults) + Horizon
        /\ Horizon * d \in Int /\ Horizon * c \in Int /\ Horizon * (N + faults) \in Int
    BY <1>1, <1>2, <1>3, Products
  <2>2. Horizon * (N + faults') = Horizon * (N + faults) + Horizon
    BY <1>1, <1>2, <1>6, <2>1
  <2>3. limit'[k].locked_until > v =>
          limit'[k].locked_until - v + Horizon * d <= Horizon * (N + faults')
    BY <1>2, <1>3, <1>4, <2>1, <2>2
  <2> QED
    BY <2>3 DEF Room, d, N
<1> QED
  BY <1>5, <1>6

\* The request that sets the lock uses its own room.
LEMMA RoomUsed ==
    ASSUME Tables, Tables', NEW k \in Keys, NEW v \in Nat, Room(k, v),
           NEW r \in Lockers(k, v), faults' = faults,
           limit'[k].locked_until <=
               (IF limit[k].locked_until >= 0 THEN limit[k].locked_until ELSE 0) + Horizon,
           Lockers(k, v)' \subseteq Lockers(k, v) \ {r}
    PROVE  Room(k, v)'
<1> DEFINE c == Cardinality(Lockers(k, v))
           d == Cardinality(Lockers(k, v)')
           N == Cardinality(Requests)
<1>1. c \in Nat /\ d \in Nat /\ N \in Nat /\ d <= c - 1 /\ c <= N
  <2>1. IsFiniteSet(Lockers(k, v) \ {r}) /\ Cardinality(Lockers(k, v) \ {r}) = c - 1
    BY LockersFinite, FS_RemoveElement
  <2>2. d <= Cardinality(Lockers(k, v) \ {r})
    BY <2>1, FS_Subset
  <2>3. c \in Nat /\ d \in Nat /\ N \in Nat /\ c <= N
    BY LockersFinite
  <2> HIDE DEF c, d, N
  <2> QED
    BY <2>1, <2>2, <2>3
<1>2. limit[k].locked_until \in Int /\ limit'[k].locked_until \in Int /\ faults \in Nat
  BY DEF Tables, Hash, Deadlines
<1>3. Horizon \in Nat
  BY TableTop
<1>4. limit[k].locked_until > v =>
        limit[k].locked_until - v + Horizon * c <= Horizon * (N + faults)
  BY DEF Room
<1> HIDE DEF c, d, N
<1>5. /\ Horizon * d <= Horizon * (c - 1) /\ Horizon * (c - 1) = Horizon * c - Horizon
      /\ Horizon * c <= Horizon * (N + faults)
      /\ Horizon * d \in Int /\ Horizon * c \in Int /\ Horizon * (N + faults) \in Int
  BY <1>1, <1>2, <1>3, Products
<1>6. limit'[k].locked_until > v =>
        limit'[k].locked_until - v + Horizon * d <= Horizon * (N + faults)
  BY <1>2, <1>3, <1>4, <1>5
<1> QED
  BY <1>6 DEF Room, d, N

\* What the stages mean for the locks.
LEMMA LeftMoves ==
    ASSUME NEW q \in Sound, q.pc # "idle", NEW k, NEW v
    PROVE  /\ \A u : LET m == [q EXCEPT !.pc = "check_subject", !.until = u] IN
                MayLock(m, k, v) => k = KeyAt(q, 1) /\ u <= v
           /\ MayLock([q EXCEPT !.pc = "service", !.until = 0], k, v) => k \in {KeyAt(q, 1), KeyAt(q, 2)}
           /\ \A l \in {"verify", "expire"} :
                MayLock([q EXCEPT !.pc = l], k, v) => k \in {KeyAt(q, 1), KeyAt(q, 2)}
           /\ MayLock([q EXCEPT !.pc = "hincrby", !.i = 1, !.now = 0], k, v) =>
                k \in {KeyAt(q, 1), KeyAt(q, 2)}
           /\ ~MayLock([q EXCEPT !.pc = "reset", !.i = 1], k, v)
           /\ q.pc = "reset" => ~MayLock([q EXCEPT !.i = 2], k, v)
           /\ MayLock([q EXCEPT !.pc = "hincrby", !.i = 2, !.n = 0, !.until = 0], k, v) =>
                k = KeyAt(q, 2)
           /\ \A n : MayLock([q EXCEPT !.pc = "hget", !.n = n], k, v) => k \in {KeyOf(q), KeyAt(q, 2)}
           /\ \A u : MayLock([q EXCEPT !.pc = "hset", !.until = u], k, v) =>
                k \in {KeyOf(q), KeyAt(q, 2)}
<1> USE DEF MayLock, KeysLeft, KeyAt, KeyOf, Sound, Request
<1>1. \A u : LET m == [q EXCEPT !.pc = "check_subject", !.until = u] IN
                MayLock(m, k, v) => k = KeyAt(q, 1) /\ u <= v
  OBVIOUS
<1>2. MayLock([q EXCEPT !.pc = "service", !.until = 0], k, v) => k \in {KeyAt(q, 1), KeyAt(q, 2)}
  OBVIOUS
<1>3. \A l \in {"verify", "expire"} :
         MayLock([q EXCEPT !.pc = l], k, v) => k \in {KeyAt(q, 1), KeyAt(q, 2)}
  OBVIOUS
<1>4. MayLock([q EXCEPT !.pc = "hincrby", !.i = 1, !.now = 0], k, v) =>
         k \in {KeyAt(q, 1), KeyAt(q, 2)}
  OBVIOUS
<1>5. ~MayLock([q EXCEPT !.pc = "reset", !.i = 1], k, v)
  OBVIOUS
<1>6. q.pc = "reset" => ~MayLock([q EXCEPT !.i = 2], k, v)
  OBVIOUS
<1>7. MayLock([q EXCEPT !.pc = "hincrby", !.i = 2, !.n = 0, !.until = 0], k, v) => k = KeyAt(q, 2)
  OBVIOUS
<1>8. \A n : MayLock([q EXCEPT !.pc = "hget", !.n = n], k, v) => k \in {KeyOf(q), KeyAt(q, 2)}
  OBVIOUS
<1>9. \A u : MayLock([q EXCEPT !.pc = "hset", !.until = u], k, v) => k \in {KeyOf(q), KeyAt(q, 2)}
  OBVIOUS
<1> HIDE DEF MayLock, KeysLeft, KeyAt, KeyOf, Sound, Request
<1> QED
  BY <1>1, <1>2, <1>3, <1>4, <1>5, <1>6, <1>7, <1>8, <1>9

\* An idle request sets no lock.
LEMMA IdleLocksNothing == \A k, v : ~MayLock(Idle, k, v)
BY DEF MayLock, KeysLeft, Idle

\* The address of a client and the subject of an endpoint have different keys.
LEMMA KeysDiffer ==
    ASSUME NEW q \in Sound, q.pc # "idle"
    PROVE  KeyAt(q, 1) # KeyAt(q, 2)
<1>1. q.p \in AllEndpoints
  BY ConstantsAssumption DEF ConstantsAssumption, Sound
<1>2. q.p # "ip"
  BY <1>1 DEF AllEndpoints
<1> QED
  BY <1>2 DEF KeyAt, IpKey, SubjectKey

\* A step of one request changes no other.
LEMMA OnlyOne ==
    ASSUME Reqs, NEW r \in Requests, NEW q, Continue(r, q), NEW k, NEW v
    PROVE  /\ Lockers(k, v)' \subseteq Lockers(k, v) \cup {r}
           /\ ~MayLock(q, k, v) => Lockers(k, v)' \subseteq Lockers(k, v) \ {r}
           /\ MayLock(req[r], k, v) => Lockers(k, v)' \subseteq Lockers(k, v)
<1>1. \A x \in Requests : req'[x] = IF x = r THEN q ELSE req[x]
  BY DEF Reqs, Continue
<1> QED
  BY <1>1 DEF Lockers

\* A step other than setting or deleting a lock: the request was on its way already,
\* or the lock is over by then, or a command raised; and HGET reads what is there.
LockStep(r, q) ==
    /\ Continue(r, q)
    /\ \A k \in Keys, v \in Nat : MayLock(q, k, v) =>
        MayLock(req[r], k, v) \/ limit[k].locked_until <= v \/ faults' = faults + 1
    /\ q.pc = "hset" => q.until = limit[KeyOf(q)].locked_until
    /\ \A k \in Keys : limit'[k].locked_until = limit[k].locked_until
    /\ faults' = faults \/ faults' = faults + 1
    /\ outlived' = outlived

\* Every step of a request but HSET and the reset leaves the locks alone and lets no
\* request in that the precheck would not.
LEMMA LockSteps ==
    ASSUME Tables, Reqs, NEW r \in Requests,
           Begin(r) \/ Command(r) \/ Raise(r), ~HSet(r), ~Reset(r)
    PROVE  \E q : LockStep(r, q)
<1> DEFINE p == req[r]
<1>a. p \in Sound
  BY DEF Reqs
<1>b. TypeOK
  BY TypeParts
<1>c. \A k, v : /\ p.pc \in {"service", "verify", "expire"} /\ k \in {KeyAt(p, 1), KeyAt(p, 2)} => MayLock(p, k, v)
                /\ p.pc \in {"hincrby", "hget", "hset"} /\ k \in {KeyOf(p), KeyAt(p, 2)} => MayLock(p, k, v)
                /\ p.pc = "check_subject" /\ k = KeyAt(p, 1) /\ p.until <= v => MayLock(p, k, v)
  BY DEF MayLock, KeysLeft
<1>d. \A k \in Keys : limit[k].locked_until \in Int
  BY LockTypes
<1>e. ASSUME NEW q, Continue(r, q), q.pc # "hset", UNCHANGED <<limit, outlived>>,
             faults' = faults \/ faults' = faults + 1,
             \A k \in Keys, v \in Nat : MayLock(q, k, v) =>
                MayLock(p, k, v) \/ limit[k].locked_until <= v \/ faults' = faults + 1
      PROVE  LockStep(r, q)
  BY <1>e DEF LockStep
<1>f. Continue(r, Idle) /\ UNCHANGED <<limit, outlived>> /\ (faults' = faults \/ faults' = faults + 1)
        => LockStep(r, Idle)
  BY IdleLocksNothing DEF LockStep, Idle
<1>g. ASSUME BeginRecord(r), UNCHANGED <<limit, outlived>>, faults' = faults \/ faults' = faults + 1,
             p.pc \in {"service", "verify", "expire"}
      PROVE  \E q : LockStep(r, q)
  <2> DEFINE q == [p EXCEPT !.pc = "hincrby", !.i = 1, !.now = 0]
  <2>1. Continue(r, q) /\ q.pc = "hincrby"
    BY <1>g, <1>a, Records DEF BeginRecord
  <2>2. \A k, v : MayLock(q, k, v) => MayLock(p, k, v)
    BY <1>g, <1>a, <1>c, LeftMoves
  <2> HIDE DEF q
  <2> QED
    BY <1>g, <2>1, <2>2, <1>e
<1>h. ASSUME Succeed(r), UNCHANGED <<limit, outlived>>, faults' = faults \/ faults' = faults + 1,
             p.pc # "idle"
      PROVE  \E q : LockStep(r, q)
  <2> DEFINE q == [p EXCEPT !.pc = "reset", !.i = 1]
  <2>1. q.pc = "reset"
    BY <1>a DEF Sound, Request
  <2>2. \A k, v : ~MayLock(q, k, v)
    BY <1>h, <1>a, LeftMoves
  <2>3. Continue(r, q) \/ Continue(r, Idle)
    BY <1>h DEF Succeed, Answer
  <2> HIDE DEF q
  <2> QED
    BY <1>h, <2>1, <2>2, <2>3, <1>e, <1>f
<1>1. CASE Begin(r)
  <2>1. PICK pp \in Endpoints, ip \in Ips, e \in Emails :
          Continue(r, [Idle EXCEPT !.pc = "check_ip", !.p = pp, !.ip = ip, !.email = e])
    BY <1>1 DEF Begin
  <2> DEFINE q == [Idle EXCEPT !.pc = "check_ip", !.p = pp, !.ip = ip, !.email = e]
  <2>2. q.pc = "check_ip"
    BY DEF Idle
  <2>3. \A k, v : ~MayLock(q, k, v)
    BY <2>2 DEF MayLock, KeysLeft
  <2>4. UNCHANGED <<limit, outlived, faults>>
    BY <1>1 DEF Begin
  <2> HIDE DEF q
  <2>5. Continue(r, q)
    BY <2>1 DEF q
  <2> QED
    BY <2>2, <2>3, <2>4, <2>5, <1>e
<1>2. CASE CheckIp(r)
  <2> DEFINE q == [p EXCEPT !.pc = "check_subject", !.until = limit[KeyAt(p, 1)].locked_until]
  <2>1. Continue(r, q) /\ p.pc = "check_ip" /\ UNCHANGED <<limit, outlived, faults>>
    BY <1>2 DEF CheckIp
  <2>2. q.pc = "check_subject"
    BY <1>a DEF Sound, Request
  <2>3. \A k, v : MayLock(q, k, v) => k = KeyAt(p, 1) /\ limit[KeyAt(p, 1)].locked_until <= v
    BY <2>1, <1>a, LeftMoves
  <2> HIDE DEF q
  <2> QED
    BY <2>1, <2>2, <2>3, <1>e
<1>3. ASSUME Serve(r), UNCHANGED <<limit, outlived>>, faults' = faults \/ faults' = faults + 1,
             p.pc # "idle",
             \A k \in {KeyAt(p, 1), KeyAt(p, 2)} : \A v \in Nat :
                MayLock(p, k, v) \/ limit[k].locked_until <= v \/ faults' = faults + 1
      PROVE  \E q : LockStep(r, q)
  <2> DEFINE q == [p EXCEPT !.pc = "service", !.until = 0]
  <2>1. Continue(r, q) /\ q.pc = "service"
    BY <1>3, <1>a DEF Serve, Sound, Request
  <2>2. \A k, v : MayLock(q, k, v) => k \in {KeyAt(p, 1), KeyAt(p, 2)}
    BY <1>3, <1>a, LeftMoves
  <2> HIDE DEF q
  <2> QED
    BY <1>3, <2>1, <2>2, <1>e
<1>4. CASE CheckSubject(r)
  <2>0. p.pc = "check_subject" /\ UNCHANGED <<limit, outlived, faults>>
    BY <1>4 DEF CheckSubject
  <2>1. CASE p.until > 0 \/ Locked(KeyAt(p, 2))
    BY <1>4, <2>0, <2>1, <1>f DEF CheckSubject, Answer
  <2>2. CASE ~(p.until > 0) /\ ~Locked(KeyAt(p, 2))
    <3>1. p.until \in Int /\ KeyAt(p, 2) \in Keys
      BY <2>0, <1>a, <1>b, KeyTypes DEF Sound, Request, Deadlines
    <3>2. p.until <= 0 /\ limit[KeyAt(p, 2)].locked_until <= 0
      BY <3>1, <2>2, <1>d DEF Locked
    <3>3. \A v \in Nat : p.until <= v /\ limit[KeyAt(p, 2)].locked_until <= v
      BY <3>1, <3>2, <1>d
    <3>4. Serve(r)
      BY <1>4, <2>2 DEF CheckSubject
    <3> QED
      BY <2>0, <3>3, <3>4, <1>c, <1>3
  <2> QED
    BY <2>1, <2>2
<1>5. CASE CheckRaises(r)
  <2>1. p.pc # "idle" /\ UNCHANGED <<limit, outlived>> /\ faults' = faults + 1
    BY <1>5 DEF CheckRaises, Fault
  <2>2. Continue(r, Idle) \/ Serve(r)
    BY <1>5 DEF CheckRaises, Answer
  <2> QED
    BY <2>1, <2>2, <1>f, <1>3
<1>6. CASE OtherService(r)
  <2>1. p.pc = "service" /\ UNCHANGED <<limit, outlived, faults>>
    BY <1>6 DEF OtherService
  <2>2. Succeed(r) \/ BeginRecord(r) \/ Continue(r, Idle)
    BY <1>6 DEF OtherService, Answer
  <2> QED
    BY <2>1, <2>2, <1>f, <1>g, <1>h
<1>7. ASSUME NEW l \in {"verify", "expire"}, Goto(r, l), p.pc \in {"service", "verify"},
             UNCHANGED <<limit, outlived, faults>>
      PROVE  \E q : LockStep(r, q)
  <2> DEFINE q == [p EXCEPT !.pc = l]
  <2>1. Continue(r, q) /\ q.pc = l
    BY <1>7, <1>a, Records DEF Goto
  <2>2. \A k, v : MayLock(q, k, v) => MayLock(p, k, v)
    BY <1>7, <1>a, <1>c, LeftMoves
  <2> HIDE DEF q
  <2> QED
    BY <1>7, <2>1, <2>2, <1>e
<1>8. CASE CheckAccountLockout(r)
  <2>1. p.pc = "service" /\ UNCHANGED <<limit, outlived, faults>> /\ (BeginRecord(r) \/ Goto(r, "verify"))
    BY <1>8 DEF CheckAccountLockout
  <2> QED
    BY <2>1, <1>g, <1>7
<1>9. CASE LockoutCheckRaises(r)
  <2>1. /\ p.pc = "service" /\ UNCHANGED <<limit, outlived>> /\ faults' = faults + 1
        /\ Continue(r, Idle) \/ BeginRecord(r)
    BY <1>9 DEF LockoutCheckRaises, Fault, Answer
  <2> QED
    BY <2>1, <1>f, <1>g
<1>10. CASE Refuse(r)
  BY <1>10, <1>g DEF Refuse
<1>11. CASE WrongPassword(r)
  <2>1. p.pc = "verify" /\ UNCHANGED <<limit, outlived, faults>> /\ (BeginRecord(r) \/ Goto(r, "expire"))
    BY <1>11 DEF WrongPassword
  <2> QED
    BY <2>1, <1>g, <1>7
<1>12. CASE ExpireCounter(r)
  BY <1>12, <1>g DEF ExpireCounter
<1>13. CASE IncrRaises(r) \/ ExpireRaises(r)
  <2>1. p.pc \in {"verify", "expire"} /\ UNCHANGED <<limit, outlived>> /\ faults' = faults + 1 /\ BeginRecord(r)
    BY <1>13 DEF IncrRaises, ExpireRaises, Fault
  <2> QED
    BY <2>1, <1>g
<1>14. CASE RightPassword(r) \/ ClearRaises(r)
  <2>1. /\ p.pc = "verify" /\ UNCHANGED <<limit, outlived>> /\ (faults' = faults \/ faults' = faults + 1)
        /\ Succeed(r) \/ Continue(r, Idle)
    BY <1>14 DEF RightPassword, ClearRaises, Fault, Answer
  <2> QED
    BY <2>1, <1>f, <1>h
<1>15. CASE HIncrBy(r)
  <2> DEFINE n == Min({limit[KeyOf(p)].failures + 1, MaxFailures})
             q == [p EXCEPT !.pc = "hget", !.n = n]
             m == [p EXCEPT !.pc = "hincrby", !.i = 2, !.n = 0, !.until = 0]
  <2>1. /\ p.pc = "hincrby" /\ UNCHANGED <<outlived, faults>>
        /\ limit' = [limit EXCEPT ![KeyOf(p)].failures = n, ![KeyOf(p)].ttl = KeyTTL]
        /\ Continue(r, q) \/ NextKey(r)
    BY <1>15 DEF HIncrBy
  <2>2. \A k \in Keys : limit'[k].locked_until = limit[k].locked_until
    <3> HIDE DEF n
    <3> QED
      BY <2>1 DEF Tables, Hash
  <2>3. q.pc = "hget" /\ m.pc = "hincrby"
    BY <1>a DEF Sound, Request
  <2>4. \A k, v : MayLock(q, k, v) => MayLock(p, k, v)
    <3> HIDE DEF n
    <3> QED
      BY <2>1, <1>a, <1>c, LeftMoves
  <2>5. \A k, v : MayLock(m, k, v) => MayLock(p, k, v)
    BY <2>1, <1>a, <1>c, LeftMoves
  <2>6. Continue(r, q) \/ Continue(r, m) \/ Continue(r, Idle)
    BY <2>1 DEF NextKey, Answer
  <2>7. Idle.pc = "idle"
    BY DEF Idle
  <2> HIDE DEF q, m, n
  <2> QED
    BY <2>1, <2>2, <2>3, <2>4, <2>5, <2>6, <2>7, IdleLocksNothing DEF LockStep
<1>16. CASE HExpireRaises(r)
  <2>1. /\ limit' = [limit EXCEPT ![KeyOf(p)].failures = Min({@ + 1, MaxFailures})]
        /\ faults' = faults + 1 /\ outlived' = outlived /\ Continue(r, Idle)
    BY <1>16 DEF HExpireRaises, Fault, Answer
  <2>2. \A k \in Keys : limit'[k].locked_until = limit[k].locked_until
    BY <2>1 DEF Tables, Hash
  <2>3. Idle.pc = "idle"
    BY DEF Idle
  <2> QED
    BY <2>1, <2>2, <2>3, IdleLocksNothing DEF LockStep
<1>17. CASE HGet(r)
  <2> DEFINE q == [p EXCEPT !.pc = "hset", !.until = limit[KeyOf(p)].locked_until]
  <2>1. Continue(r, q) /\ p.pc = "hget" /\ UNCHANGED <<limit, outlived, faults>>
    BY <1>17 DEF HGet
  <2>2. q.until = limit[KeyOf(p)].locked_until /\ KeyOf(q) = KeyOf(p)
    BY <1>a DEF Sound, Request, KeyOf, KeyAt
  <2>3. \A k, v : MayLock(q, k, v) => MayLock(p, k, v)
    BY <2>1, <1>a, <1>c, LeftMoves
  <2> HIDE DEF q
  <2> QED
    BY <2>1, <2>2, <2>3 DEF LockStep
<1>18. CASE RecordRaises(r)
  <2>1. UNCHANGED <<limit, outlived>> /\ faults' = faults + 1 /\ Continue(r, Idle)
    BY <1>18 DEF RecordRaises, Fault, Answer
  <2> QED
    BY <2>1, <1>f
<1> QED
  BY <1>1, <1>2, <1>4, <1>5, <1>6, <1>8, <1>9, <1>10, <1>11, <1>12, <1>13, <1>14, <1>15, <1>16,
     <1>17, <1>18 DEF Command, Raise

\* These steps keep the invariant.
LEMMA LockStepKeeps ==
    ASSUME LockInv, Tables', NEW r \in Requests, NEW q, LockStep(r, q)
    PROVE  /\ Outlived' \subseteq outlived'
           /\ \A k \in Keys \ outlived' : \A v \in Nat : Room(k, v)'
<1>a. Tables /\ Reqs /\ Continue(r, q) /\ outlived' = outlived
      /\ (faults' = faults \/ faults' = faults + 1)
  BY DEF LockInv, LockStep
<1>b. faults \in Nat /\ faults' \in Nat /\ faults' >= faults
  BY <1>a DEF Tables
<1>c. \A k \in Keys : limit[k].locked_until \in Int /\ limit'[k].locked_until = limit[k].locked_until
  BY <1>a, LockTypes DEF LockStep
<1>1. Outlived' \subseteq Outlived
  <2> SUFFICES ASSUME NEW k \in Keys, NEW x \in Requests, req'[x].pc = "hset", KeyOf(req'[x]) = k,
                      req'[x].until > Max({limit'[k].locked_until, 0})
               PROVE  k \in Outlived
    BY DEF Outlived
  <2>1. limit'[k].locked_until = limit[k].locked_until /\ limit[k].locked_until \in Int
    BY <1>c
  <2>2. Max({limit[k].locked_until, 0}) =
          IF limit[k].locked_until >= 0 THEN limit[k].locked_until ELSE 0
    BY <2>1, MaxOfTwo
  <2>3. CASE x = r
    <3>1. req'[x] = q
      BY <1>a, <2>3 DEF Continue, Reqs
    <3>2. req'[x].until = limit[k].locked_until
      BY <3>1 DEF LockStep
    <3> QED
      BY <2>1, <2>2, <3>2
  <2>4. CASE x # r
    <3>1. req'[x] = req[x]
      BY <1>a, <2>4 DEF Continue, Reqs
    <3> QED
      BY <3>1, <2>1 DEF Outlived
  <2> QED
    BY <2>3, <2>4
<1>2. ASSUME NEW k \in Keys \ outlived', NEW v \in Nat PROVE Room(k, v)'
  <2>0. Room(k, v) /\ k \in Keys
    BY <1>a DEF LockInv
  <2>1. limit[k].locked_until \in Int /\ limit'[k].locked_until <= limit[k].locked_until
    BY <1>c
  <2>2. CASE ~MayLock(q, k, v) \/ MayLock(req[r], k, v)
    <3>1. Lockers(k, v)' \subseteq Lockers(k, v)
      BY <1>a, <2>2, OnlyOne
    <3> QED
      BY <1>a, <1>b, <2>0, <2>1, <3>1, RoomKept
  <2>3. CASE MayLock(q, k, v) /\ ~MayLock(req[r], k, v)
    <3>1. limit'[k].locked_until <= v \/ faults' = faults + 1
      BY <2>0, <2>3, <1>c DEF LockStep
    <3>2. Lockers(k, v)' \subseteq Lockers(k, v) \cup {r}
      BY <1>a, OnlyOne
    <3> QED
      BY <1>a, <2>0, <2>1, <3>1, <3>2, RoomForOne
  <2> QED
    BY <2>2, <2>3
<1> QED
  BY <1>1, <1>2, <1>a DEF LockInv

\* Setting a lock: from the lock that is there, as the key is not outlived.
LEMMA SetKeeps ==
    ASSUME LockInv, Tables', NEW r \in Requests, HSet(r)
    PROVE  /\ Outlived' \subseteq outlived'
           /\ \A k \in Keys \ outlived' : \A v \in Nat : Room(k, v)'
<1>a. Tables /\ Reqs /\ req[r] \in Sound /\ req[r].pc = "hset" /\ req[r].i \in 1 .. 2
  BY DEF LockInv, Reqs, Sound, HSet
<1>p. PICK p \in Sound : p = req[r]
  BY <1>a
<1>k. PICK b \in Keys : b = KeyOf(p)
  <2>1. TypeOK
    BY <1>a, TypeParts
  <2> QED
    BY <1>a, <1>p, <2>1, KeyTypes DEF KeyOf
<1>b. /\ limit' = [limit EXCEPT ![b].locked_until = Max({NewLockedUntil(p), -Horizon})]
      /\ NextKey(r) /\ outlived' = outlived \cup Outlived' /\ faults' = faults
  BY <1>k, <1>p DEF HSet
<1>c. \E q : Continue(r, q) /\ \A v : /\ ~MayLock(q, b, v)
                                      /\ \A k : MayLock(q, k, v) => MayLock(p, k, v)
  <2>1. CASE p.i = 1
    <3> DEFINE q == [p EXCEPT !.pc = "hincrby", !.i = 2, !.n = 0, !.until = 0]
    <3>1. Continue(r, q)
      BY <1>b, <2>1, <1>p DEF NextKey
    <3>2. \A k, v : MayLock(q, k, v) => k = KeyAt(p, 2)
      BY <1>a, <1>p, LeftMoves
    <3>3. b # KeyAt(p, 2)
      BY <1>a, <1>p, <1>k, <2>1, KeysDiffer DEF KeyOf
    <3>4. \A v : MayLock(p, KeyAt(p, 2), v)
      BY <1>a, <1>p DEF MayLock, KeysLeft
    <3> HIDE DEF q
    <3> QED
      BY <3>1, <3>2, <3>3, <3>4
  <2>2. CASE p.i # 1
    <3>1. Continue(r, Idle)
      BY <1>b, <2>2, <1>p DEF NextKey, Answer
    <3> QED
      BY <3>1, IdleLocksNothing
  <2> QED
    BY <2>1, <2>2
<1>1. ASSUME NEW k \in Keys \ outlived', NEW v \in Nat PROVE Room(k, v)'
  <2>0. Room(k, v) /\ k \in Keys /\ k \notin Outlived
    BY <1>b DEF LockInv
  <2>1. CASE k = b
    <3>1. r \in Lockers(k, v) /\ Lockers(k, v)' \subseteq Lockers(k, v) \ {r}
      <4>1. MayLock(req[r], k, v)
        BY <1>a, <1>p, <1>k, <2>1 DEF MayLock, KeysLeft
      <4>2. Lockers(k, v)' \subseteq Lockers(k, v) \ {r}
        BY <1>a, <1>c, <2>1, OnlyOne
      <4> QED
        BY <4>1, <4>2 DEF Lockers
    <3>2. limit[k].locked_until \in Int /\ p.until \in Int /\ Horizon \in Nat
      BY <1>a, <1>p, LockTypes, TableTop DEF Sound, Request, Deadlines
    <3>3. Max({limit[k].locked_until, 0}) =
            IF limit[k].locked_until >= 0 THEN limit[k].locked_until ELSE 0
      BY <3>2, MaxOfTwo
    <3>4. ~(p.until > Max({limit[k].locked_until, 0}))
      BY <2>0, <2>1, <1>a, <1>p, <1>k DEF Outlived
    <3>5. limit'[k].locked_until = Max({NewLockedUntil(p), -Horizon})
      BY <1>a, <1>b, <2>1 DEF Tables, Hash
    <3>6. /\ Max({NewLockedUntil(p), -Horizon}) \in Int
          /\ Max({NewLockedUntil(p), -Horizon}) <= (IF p.until >= 0 THEN p.until ELSE 0) + Horizon
      BY NewLock DEF Deadlines
    <3>7. limit'[k].locked_until <=
            (IF limit[k].locked_until >= 0 THEN limit[k].locked_until ELSE 0) + Horizon
      BY <3>2, <3>3, <3>4, <3>5, <3>6
    <3> QED
      BY <1>a, <1>b, <2>0, <3>1, <3>7, RoomUsed
  <2>2. CASE k # b
    <3>1. limit'[k] = limit[k] /\ limit[k].locked_until \in Int
      BY <1>a, <1>b, <2>2, LockTypes DEF Tables
    <3>2. Lockers(k, v)' \subseteq Lockers(k, v)
      BY <1>a, <1>p, <1>c, OnlyOne
    <3>3. faults' >= faults
      BY <1>a, <1>b DEF Tables
    <3> QED
      BY <1>a, <2>0, <3>1, <3>2, <3>3, RoomKept
  <2> QED
    BY <2>1, <2>2
<1> QED
  BY <1>1, <1>b

\* Deleting a lock.
LEMMA ResetKeeps ==
    ASSUME LockInv, Tables', NEW r \in Requests, Reset(r)
    PROVE  /\ Outlived' \subseteq outlived'
           /\ \A k \in Keys \ outlived' : \A v \in Nat : Room(k, v)'
<1>a. Tables /\ Reqs /\ req[r] \in Sound /\ req[r].pc = "reset"
  BY DEF LockInv, Reqs, Reset
<1>b. /\ limit' = [limit EXCEPT ![KeyOf(req[r])] = NoHash]
      /\ outlived' = outlived \cup Outlived' /\ faults' = faults
  BY DEF Reset
<1>c. \E q : Continue(r, q) /\ \A k, v : ~MayLock(q, k, v)
  <2>1. \A k, v : ~MayLock([req[r] EXCEPT !.i = 2], k, v)
    BY <1>a, LeftMoves
  <2> QED
    BY <2>1, IdleLocksNothing DEF Reset, Answer
<1>1. ASSUME NEW k \in Keys \ outlived', NEW v \in Nat PROVE Room(k, v)'
  <2>1. Room(k, v) /\ k \in Keys
    BY <1>b DEF LockInv
  <2>2. limit[k].locked_until \in Int /\ limit[k].locked_until >= -Horizon /\ -Horizon \in Int
        /\ faults \in Nat
    BY <1>a, LockTypes, TableTop
  <2>3. limit'[k].locked_until \in {limit[k].locked_until, -Horizon}
    BY <1>a, <1>b DEF Tables, NoHash
  <2>4. limit'[k].locked_until <= limit[k].locked_until /\ faults' >= faults
    BY <1>b, <2>2, <2>3
  <2>5. Lockers(k, v)' \subseteq Lockers(k, v)
    BY <1>a, <1>c, OnlyOne
  <2> QED
    BY <1>a, <2>1, <2>4, <2>5, RoomKept
<1> QED
  BY <1>1, <1>b

\* The clock: who may set the lock then is who may set it in a tick more.
LEMMA TickLocks ==
    ASSUME LockInv, Tables', Tick
    PROVE  /\ Outlived' \subseteq outlived'
           /\ \A k \in Keys \ outlived' : \A v \in Nat : Room(k, v)'
<1>a. Tables /\ Reqs /\ outlived' = outlived \cup Outlived' /\ faults' = faults
  BY DEF LockInv, Tick
<1>1. ASSUME NEW k \in Keys \ outlived', NEW v \in Nat PROVE Room(k, v)'
  <2>0. Room(k, v + 1) /\ k \in Keys
    BY <1>a DEF LockInv
  <2>1. Lockers(k, v)' = Lockers(k, v + 1)
    <3> SUFFICES ASSUME NEW r \in Requests
                 PROVE  MayLock(req'[r], k, v) <=> MayLock(req[r], k, v + 1)
      BY DEF Lockers
    <3>1. req[r] \in Sound
      BY <1>a DEF Reqs
    <3>2. /\ req'[r].pc = req[r].pc /\ req'[r].i = req[r].i /\ req'[r].p = req[r].p
          /\ req'[r].ip = req[r].ip /\ req'[r].email = req[r].email
          /\ req[r].pc = "check_subject" => req'[r].until = Earlier(req[r].until)
      BY <3>1 DEF Tick, Sound, Request
    <3>3. req[r].until \in Deadlines /\ req[r].until \in Int
      BY <3>1 DEF Sound, Request, Deadlines
    <3>4. Earlier(req[r].until) =
            IF req[r].until - 1 >= -Horizon THEN req[r].until - 1 ELSE -Horizon
      BY <3>3, Later
    <3>5. Earlier(req[r].until) <= v <=> req[r].until <= v + 1
      BY <3>3, <3>4, TableTop
    <3> QED
      BY <3>2, <3>5 DEF MayLock, KeysLeft, KeyOf, KeyAt
  <2>2. /\ limit[k] \in Hash /\ limit[k].locked_until \in Deadlines
        /\ limit[k].locked_until \in Int /\ faults \in Nat
    BY <1>a, <2>0 DEF Tables, Hash, Deadlines
  <2>3. limit'[k].locked_until \in {-Horizon, Earlier(limit[k].locked_until)}
    <3>1. NoHash.locked_until = -Horizon
      BY DEF NoHash
    <3>2. limit'[k] = IF limit[k].ttl = 1 THEN NoHash
            ELSE [limit[k] EXCEPT !.locked_until = Earlier(@), !.ttl = Max({@ - 1, 0})]
      BY <2>0 DEF Tick
    <3>3. [limit[k] EXCEPT !.locked_until = Earlier(@), !.ttl = Max({@ - 1, 0})].locked_until
            = Earlier(limit[k].locked_until)
      BY <2>2 DEF Hash
    <3> QED
      BY <3>1, <3>2, <3>3
  <2>4. Earlier(limit[k].locked_until) =
          IF limit[k].locked_until - 1 >= -Horizon THEN limit[k].locked_until - 1 ELSE -Horizon
    BY <2>2, Later
  <2>5. limit'[k].locked_until > v =>
          limit'[k].locked_until = limit[k].locked_until - 1 /\ limit[k].locked_until > v + 1
    BY <2>2, <2>3, <2>4, TableTop
  <2> DEFINE c == Horizon * Cardinality(Lockers(k, v + 1))
             f == Horizon * (Cardinality(Requests) + faults)
  <2>6. limit[k].locked_until > v + 1 => limit[k].locked_until - (v + 1) + c <= f
    BY <2>0 DEF Room
  <2>7. c \in Int /\ f \in Int
    <3>1. Cardinality(Lockers(k, v + 1)) \in Int /\ Cardinality(Requests) + faults \in Int
      BY <2>2, LockersFinite
    <3> QED
      BY <3>1, TableTop, Products
  <2> HIDE DEF c, f
  <2>8. limit'[k].locked_until > v => limit'[k].locked_until - v + c <= f
    BY <2>2, <2>5, <2>6, <2>7
  <2> QED
    BY <1>a, <2>1, <2>8 DEF Room, c, f
<1> QED
  BY <1>1, <1>a

\* The invariant of the locks is inductive.
LEMMA LockInvHolds ==
    /\ Init => LockInv
    /\ LockInv /\ [Next]_vars => LockInv'
<1>1. ASSUME Init PROVE LockInv
  <2>1. Tables /\ Reqs
    BY <1>1, TypesHold
  <2>2. Outlived = {}
    BY <1>1 DEF Init, Outlived, Idle
  <2>3. \A k \in Keys : limit[k].locked_until = -Horizon
    BY <1>1 DEF Init, NoHash
  <2>4. \A k \in Keys, v \in Nat : Room(k, v)
    BY <2>3, TableTop DEF Room
  <2> QED
    BY <2>1, <2>2, <2>4 DEF LockInv
<1>2. ASSUME LockInv, [Next]_vars PROVE LockInv'
  <2>0. Tables' /\ Reqs'
    BY <1>2, TypesHold DEF LockInv
  <2>1. CASE Tick
    BY <1>2, <2>0, <2>1, TickLocks DEF LockInv
  <2>2. ASSUME NEW r \in Requests, Begin(r) \/ Command(r) \/ Raise(r) PROVE LockInv'
    <3>1. CASE HSet(r)
      BY <1>2, <2>0, <3>1, SetKeeps DEF LockInv
    <3>2. CASE Reset(r)
      BY <1>2, <2>0, <3>2, ResetKeeps DEF LockInv
    <3>3. CASE ~HSet(r) /\ ~Reset(r)
      <4>1. PICK q : LockStep(r, q)
        BY <1>2, <2>2, <3>3, LockSteps DEF LockInv
      <4> QED
        BY <1>2, <2>0, <4>1, LockStepKeeps DEF LockInv
    <3> QED
      BY <3>1, <3>2, <3>3
  <2>3. CASE UNCHANGED vars
    <3>1. Outlived' = Outlived
      BY <2>3 DEF vars, Outlived
    <3>2. \A k, v : Room(k, v)' = Room(k, v)
      BY <2>3 DEF vars, Room, Lockers
    <3> QED
      BY <1>2, <2>0, <2>3, <3>1, <3>2 DEF vars, LockInv
  <2> QED
    BY <1>2, <2>1, <2>2, <2>3 DEF Next
<1> QED
  BY <1>1, <1>2

\* A lock that no request outlives runs for at most a step of the table for each
\* request and for each Redis error.
THEOREM LocksAreBounded == Spec => []LockBounded
<1>1. LockInv => LockBounded
  <2> SUFFICES ASSUME LockInv, NEW k \in Keys \ outlived
               PROVE  limit[k].locked_until <= Horizon * (Cardinality(Requests) + faults)
    BY DEF LockBounded
  <2>1. Room(k, 0) /\ limit[k].locked_until \in Int /\ faults \in Nat
    BY LockTypes DEF LockInv
  <2> DEFINE c == Cardinality(Lockers(k, 0))
             N == Cardinality(Requests)
  <2>2. c \in Nat /\ N \in Nat /\ Horizon \in Nat
    BY LockersFinite, TableTop
  <2>3. limit[k].locked_until > 0 =>
          limit[k].locked_until - 0 + Horizon * c <= Horizon * (N + faults)
    BY <2>1 DEF Room
  <2> HIDE DEF c, N
  <2>4. Horizon * c \in Nat /\ Horizon * (N + faults) \in Nat
    BY <2>1, <2>2
  <2> QED
    BY <2>1, <2>3, <2>4 DEF N
<1> QED
  BY <1>1, LockInvHolds, PTL DEF Spec

=============================================================================
