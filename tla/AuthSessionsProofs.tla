------------------------- MODULE AuthSessionsProofs -------------------------
(***************************************************************************)
(* For any number of concurrent requests and sessions and any cap: a refresh *)
(* token rotates once, a revocation that stops half-way can be retried, and  *)
(* the session cap holds until a token expires.                             *)
(***************************************************************************)
EXTENDS AuthSessions, FiniteSetTheorems, WellFoundedInduction, TLAPS

\* Which kinds of request can be at a label.
Labels == \A r \in Requests :
    /\ pc[r] = "idle" <=> kind[r] = "none"
    /\ pc[r] = "checking" => kind[r] = "refresh"
    /\ pc[r] \in {"tracking", "capping", "counting", "choosing"} =>
           kind[r] \in {"login", "refresh"}
    /\ pc[r] = "touching" => kind[r] = "login" \/ kind[r] \in Revocations
    /\ pc[r] \in {"denying", "untracking"} => kind[r] \in {"refresh", "logout"}
    /\ pc[r] = "loading" => kind[r] = "logout"
    /\ pc[r] \in {"snapshot", "reading", "revoking"} => kind[r] \in Revocations

\* What a request carries, by its kind.
Carries == \A r \in Requests :
    /\ kind[r] = "none" => doomed[r] = {}
    /\ kind[r] \in {"login", "refresh"} <=> fresh[r] # 0
    /\ kind[r] \in {"refresh", "logout"} <=> old[r] # 0

\* A session that is about to be issued is in no table yet and in no other request.
FreshIsNew ==
    /\ \A k \in Sessions : k > issued => token[k] = "absent"
    /\ \A r \in Requests : fresh[r] # 0 =>
           /\ fresh[r] <= issued /\ token[fresh[r]] = "absent"
           /\ \A q \in Requests : fresh[q] = fresh[r] => q = r

\* What a request is going to revoke exists.
DoomedExist == \A r \in Requests : \A k \in doomed[r] : token[k] # "absent"

\* The flush has taken the lock of every row that the request writes.
WritesLocked == \A r \in Requests :
    pc[r] \in {"reading", "revoking", "committing"} =>
        \A k \in doomed[r] : rowLock[k] = r

\* A refresh keeps the token it was sent locked and live.
RefreshHolds == \A r \in Requests :
    kind[r] = "refresh" =>
        /\ old[r] \in doomed[r] /\ rowLock[old[r]] = r /\ token[old[r]] = "live"

\* A token that was rotated is revoked.
RotatedIsRevoked == \A k \in Sessions : parent[k] # 0 => token[parent[k]] = "revoked"

RotationInv ==
    /\ TypeOK /\ Labels /\ Carries /\ FreshIsNew /\ DoomedExist /\ WritesLocked /\ RefreshHolds
    /\ RotatedIsRevoked /\ SingleRotation

\* Revocations exclude each other by the lock of the user row, and an access token is
\* taken out of active_jtis only after it was denied.
RevocationInv ==
    /\ \A r \in Requests :
        /\ kind[r] \in Revocations /\ pc[r] # "touching" => userLock = r
        /\ todo[r] # {} => pc[r] = "revoking"
        /\ pc[r] = "untracking" => old[r] \in denied
    /\ KeptForRetry

\* The holder of the advisory lock, and what it has made room for.
InCap(r) ==
    \/ kind[r] = "login" /\ pc[r] \notin {"tracking", "capping"}
    \/ kind[r] = "refresh" /\ pc[r] \notin {"checking", "capping"}
HasRoom(r) == InCap(r) /\ pc[r] \notin {"touching", "counting", "choosing"}

CapInv ==
    /\ \A r \in Requests : InCap(r) => capLock = r
    /\ expired = {} =>
        /\ Cardinality(Live) <= MAX_ACTIVE_SESSIONS
        /\ \A r \in Requests : HasRoom(r) =>
               Cardinality(Live \ doomed[r]) < MAX_ACTIVE_SESSIONS

-----------------------------------------------------------------------------
\* The labels between the beginning and the end that write no table.
Quiet(r) ==
    \/ TrackJti(r) \/ AcquireSessionCapLock(r) \/ TouchUser(r) \/ CountSessions(r)
    \/ EvictOldest(r) \/ DenyOld(r) \/ UntrackOld(r) \/ LoadToken(r)
    \/ SnapshotTokens(r) \/ RowsLocked(r) \/ ReadJtis(r) \/ DropSet(r)
    \/ \E k \in Sessions : DenyNext(r, k)

LEMMA RotationInit == Init => RotationInv
BY BoundsAssumption
   DEF Init, RotationInv, TypeOK, Labels, Carries, FreshIsNew, DoomedExist, WritesLocked, RefreshHolds,
       RotatedIsRevoked, SingleRotation, Sessions, Kinds, RequestStates

LEMMA EndType ==
    ASSUME TypeOK, NEW r \in Requests, EndRequest(r)
    PROVE  /\ kind' \in [Requests -> Kinds] /\ pc' \in [Requests -> RequestStates]
           /\ fresh' \in [Requests -> 0 .. MaxSession]
           /\ old' \in [Requests -> 0 .. MaxSession]
           /\ seen' \in [Requests -> 0 .. MaxPassword]
           /\ doomed' \in [Requests -> SUBSET Sessions]
           /\ todo' \in [Requests -> SUBSET Sessions]
           /\ userLock' \in Requests \cup {NoRequest}
           /\ capLock' \in Requests \cup {NoRequest}
           /\ rowLock' \in [Sessions -> Requests \cup {NoRequest}]
BY BoundsAssumption DEF EndRequest, Goto, TypeOK, Kinds, RequestStates

\* What the end of one request leaves to the others.
LEMMA EndKeeps ==
    ASSUME TypeOK, NEW r \in Requests, EndRequest(r)
    PROVE  /\ kind'[r] = "none" /\ pc'[r] = "idle" /\ fresh'[r] = 0 /\ old'[r] = 0
           /\ doomed'[r] = {} /\ todo'[r] = {}
           /\ \A q \in Requests \ {r} :
                  /\ kind'[q] = kind[q] /\ pc'[q] = pc[q] /\ fresh'[q] = fresh[q]
                  /\ old'[q] = old[q] /\ doomed'[q] = doomed[q] /\ todo'[q] = todo[q]
                  /\ userLock = q => userLock' = q
                  /\ capLock = q => capLock' = q
                  /\ \A k \in Sessions : rowLock[k] = q => rowLock'[k] = q
BY DEF EndRequest, Goto, TypeOK

LEMMA QuietType ==
    ASSUME TypeOK, Labels, Carries, NEW r \in Requests, Quiet(r)
    PROVE  TypeOK'
<1> USE DEF Quiet, TypeOK, Goto, RequestStates, userVars, tokenVars, redisVars, lockVars
<1>1. fresh[r] \in 0 .. MaxSession /\ old[r] \in 0 .. MaxSession
  OBVIOUS
<1>2. CASE TrackJti(r)
  <2>1. fresh[r] \in Sessions
    BY <1>2, <1>1, BoundsAssumption DEF TrackJti, Labels, Carries, Sessions
  <2> QED
    BY <1>2, <2>1 DEF TrackJti
<1>3. CASE DenyOld(r)
  <2>1. old[r] \in Sessions
    BY <1>3, <1>1, BoundsAssumption DEF DenyOld, Labels, Carries, Sessions
  <2> QED
    BY <1>3, <2>1 DEF DenyOld
<1>4. CASE AcquireSessionCapLock(r) \/ TouchUser(r) \/ RowsLocked(r) \/ DropSet(r)
  BY <1>4 DEF AcquireSessionCapLock, TouchUser, RowsLocked, DropSet
<1>5. CASE CountSessions(r) \/ UntrackOld(r)
  BY <1>5 DEF CountSessions, AfterCount, UntrackOld
<1>6. CASE EvictOldest(r) \/ LoadToken(r) \/ SnapshotTokens(r)
  BY <1>6 DEF EvictOldest, AfterCount, LoadToken, SnapshotTokens, Live
<1>7. CASE ReadJtis(r) \/ \E k \in Sessions : DenyNext(r, k)
  BY <1>7 DEF ReadJtis, DenyNext
<1> QED
  BY <1>2, <1>3, <1>4, <1>5, <1>6, <1>7

LEMMA QuietRotation ==
    ASSUME RotationInv, NEW r \in Requests, Quiet(r)
    PROVE  RotationInv'
<1> USE DEF RotationInv
<1>1. TypeOK'
  BY QuietType
<1>2. /\ UNCHANGED <<tokenVars, rowLock, kind, fresh, old>> /\ pc[r] # "idle"
      /\ \A q \in Requests \ {r} : pc'[q] = pc[q] /\ doomed'[q] = doomed[q]
  BY DEF Quiet, TrackJti, AcquireSessionCapLock, TouchUser, CountSessions, EvictOldest,
         DenyOld, UntrackOld, LoadToken, SnapshotTokens, RowsLocked, ReadJtis, DropSet,
         DenyNext, Goto, TypeOK, lockVars
<1>3. Labels'
  <2>1. CASE TrackJti(r) \/ AcquireSessionCapLock(r) \/ TouchUser(r) \/ RowsLocked(r)
    BY <1>2, <2>1 DEF TrackJti, AcquireSessionCapLock, TouchUser, RowsLocked, Goto, TypeOK,
                      Labels, Revocations
  <2>2. CASE CountSessions(r) \/ EvictOldest(r)
    BY <1>2, <2>2 DEF CountSessions, EvictOldest, AfterCount, Goto, TypeOK, Labels
  <2>3. CASE DenyOld(r) \/ UntrackOld(r) \/ LoadToken(r) \/ SnapshotTokens(r)
    BY <1>2, <2>3 DEF DenyOld, UntrackOld, LoadToken, SnapshotTokens, Goto, TypeOK, Labels
  <2>4. CASE ReadJtis(r) \/ DropSet(r) \/ \E k \in Sessions : DenyNext(r, k)
    BY <1>2, <2>4 DEF ReadJtis, DropSet, DenyNext, Goto, TypeOK, Labels
  <2> QED
    BY <2>1, <2>2, <2>3, <2>4 DEF Quiet
<1>4. Carries' /\ FreshIsNew'
  BY <1>2 DEF Carries, FreshIsNew, Labels, tokenVars
<1>8. DoomedExist'
  <2>1. \A k \in doomed'[r] : k \in doomed[r] \/ k \in Live
    BY DEF Quiet, TrackJti, AcquireSessionCapLock, TouchUser, CountSessions, EvictOldest,
           DenyOld, UntrackOld, LoadToken, SnapshotTokens, RowsLocked, ReadJtis, DropSet,
           DenyNext, TypeOK
  <2> QED
    BY <1>2, <2>1 DEF DoomedExist, Live, tokenVars
<1>5. WritesLocked'
  <2>1. pc'[r] \in {"reading", "revoking", "committing"} =>
            \A k \in doomed'[r] : rowLock[k] = r
    BY DEF Quiet, TrackJti, AcquireSessionCapLock, TouchUser, CountSessions, EvictOldest,
           DenyOld, UntrackOld, LoadToken, SnapshotTokens, RowsLocked, ReadJtis, DropSet,
           DenyNext, AfterCount, Goto, TypeOK, WritesLocked
  <2> QED
    BY <1>2, <2>1 DEF WritesLocked
<1>6. RefreshHolds'
  <2>1. kind[r] = "refresh" => old[r] \in doomed'[r]
    BY DEF Quiet, TrackJti, AcquireSessionCapLock, TouchUser, CountSessions, EvictOldest,
           DenyOld, UntrackOld, LoadToken, SnapshotTokens, RowsLocked, ReadJtis, DropSet,
           DenyNext, TypeOK, RefreshHolds, Live
  <2> QED
    BY <1>2, <2>1 DEF RefreshHolds, tokenVars
<1>7. RotatedIsRevoked' /\ SingleRotation'
  BY <1>2 DEF RotatedIsRevoked, SingleRotation, tokenVars
<1> QED
  BY <1>1, <1>3, <1>4, <1>5, <1>6, <1>7, <1>8

LEMMA LockRotation ==
    ASSUME RotationInv, NEW r \in Requests, NEW k \in Sessions, LockRow(r, k)
    PROVE  RotationInv'
<1> USE DEF RotationInv, LockRow, userVars, tokenVars, redisVars, requestVars
<1>1. TypeOK'
  BY DEF TypeOK
<1>2. \A j \in Sessions : rowLock[j] # NoRequest => rowLock'[j] = rowLock[j]
  BY DEF TypeOK
<1>3. WritesLocked' /\ RefreshHolds'
  BY <1>2, NoRequestAssumption DEF WritesLocked, RefreshHolds, TypeOK
<1> QED
  BY <1>1, <1>3 DEF Labels, Carries, FreshIsNew, DoomedExist, RotatedIsRevoked, SingleRotation

\* A request that ends without a COMMIT.
LEMMA RollbackRotation ==
    ASSUME RotationInv, NEW r \in Requests, EndRequest(r),
           UNCHANGED <<userVars, tokenVars, redisVars>>
    PROVE  RotationInv'
<1> USE DEF RotationInv, userVars, tokenVars, redisVars
<1>1. TypeOK'
  BY EndType DEF TypeOK
<1>2. Labels' /\ Carries'
  BY EndKeeps DEF Labels, Carries
<1>3. FreshIsNew' /\ DoomedExist'
  BY EndKeeps DEF FreshIsNew, DoomedExist
<1>4. WritesLocked' /\ RefreshHolds'
  <2>1. \A q \in Requests : doomed[q] \subseteq Sessions
    BY DEF TypeOK
  <2>2. WritesLocked'
    BY <2>1, EndKeeps DEF WritesLocked
  <2>3. RefreshHolds'
    BY <2>1, EndKeeps DEF RefreshHolds
  <2> QED
    BY <2>2, <2>3
<1> QED
  BY <1>1, <1>2, <1>3, <1>4 DEF RotatedIsRevoked, SingleRotation

\* The number of a new session is its own.
LEMMA NewSession ==
    ASSUME TypeOK, FreshIsNew, NEW r \in Requests, issued < MaxSession,
           issued' = issued + 1, fresh' = [fresh EXCEPT ![r] = issued + 1],
           UNCHANGED token
    PROVE  /\ issued + 1 \in Sessions /\ issued' \in 0 .. MaxSession
           /\ fresh' \in [Requests -> 0 .. MaxSession] /\ FreshIsNew'
<1>1. issued \in Nat /\ issued + 1 \in Sessions /\ issued + 1 \in 0 .. MaxSession
  BY BoundsAssumption DEF TypeOK, Sessions
<1>2. fresh' \in [Requests -> 0 .. MaxSession]
  BY <1>1 DEF TypeOK
<1>3. /\ fresh'[r] = issued + 1
      /\ \A q \in Requests \ {r} : fresh'[q] = fresh[q] /\ fresh[q] \in Int
      /\ \A q \in Requests : fresh[q] # 0 => fresh[q] <= issued
  BY DEF TypeOK, FreshIsNew
<1>4. \A k \in Sessions : k > issued => token[k] = "absent"
  BY DEF FreshIsNew
<1>5. token[issued + 1] = "absent"
  BY <1>1, <1>4
<1>6. \A k \in Sessions : k > issued' => token'[k] = "absent"
  BY <1>1, <1>4 DEF Sessions
<1>7. \A q \in Requests : fresh'[q] # 0 =>
        fresh'[q] <= issued' /\ token'[fresh'[q]] = "absent"
  BY <1>1, <1>3, <1>5 DEF FreshIsNew
<1>8. \A q, p \in Requests : fresh'[q] # 0 /\ fresh'[p] = fresh'[q] => p = q
  BY <1>1, <1>3 DEF FreshIsNew
<1> QED
  BY <1>1, <1>2, <1>6, <1>7, <1>8 DEF FreshIsNew

LEMMA BeginRotation ==
    ASSUME RotationInv, NEW r \in Requests, Begin(r)
    PROVE  RotationInv'
<1> USE DEF RotationInv, userVars, tokenVars, redisVars, lockVars
<1>1. CASE BeginLogin(r)
  <2>1. /\ issued + 1 \in Sessions /\ issued' \in 0 .. MaxSession
        /\ fresh' \in [Requests -> 0 .. MaxSession] /\ FreshIsNew'
    BY <1>1, NewSession DEF BeginLogin
  <2>2. TypeOK'
    BY <1>1, <2>1 DEF BeginLogin, TypeOK, Goto, Kinds, RequestStates
  <2>3. Labels' /\ Carries'
    BY <1>1, <2>1 DEF BeginLogin, TypeOK, Goto, Labels, Carries, Revocations, Sessions
  <2>5. WritesLocked' /\ RefreshHolds' /\ DoomedExist'
    BY <1>1 DEF BeginLogin, TypeOK, Goto, WritesLocked, RefreshHolds, DoomedExist
  <2> QED
    BY <1>1, <2>1, <2>2, <2>3, <2>5 DEF BeginLogin, RotatedIsRevoked, SingleRotation
<1>2. ASSUME NEW k \in Sessions, BeginRefresh(r, k) PROVE RotationInv'
  <2>1. /\ issued + 1 \in Sessions /\ issued' \in 0 .. MaxSession
        /\ fresh' \in [Requests -> 0 .. MaxSession] /\ FreshIsNew'
    BY <1>2, NewSession DEF BeginRefresh
  <2>2. k # 0 /\ k \in 0 .. MaxSession
    BY BoundsAssumption DEF Sessions
  <2>3. TypeOK'
    <3>1. /\ old' \in [Requests -> 0 .. MaxSession]
          /\ seen' \in [Requests -> 0 .. MaxPassword]
          /\ doomed' \in [Requests -> SUBSET Sessions]
          /\ rowLock' \in [Sessions -> Requests \cup {NoRequest}]
      BY <1>2, <2>2 DEF BeginRefresh, TypeOK
    <3>2. kind' \in [Requests -> Kinds] /\ pc' \in [Requests -> RequestStates]
      BY <1>2 DEF BeginRefresh, TypeOK, Goto, Kinds, RequestStates
    <3> QED
      BY <1>2, <2>1, <3>1, <3>2 DEF BeginRefresh, TypeOK
  <2>4. Labels' /\ Carries'
    BY <1>2, <2>1, <2>2 DEF BeginRefresh, TypeOK, Goto, Labels, Carries, Revocations, Sessions
  <2>5. WritesLocked' /\ RefreshHolds' /\ DoomedExist'
    BY <1>2, NoRequestAssumption
       DEF BeginRefresh, TypeOK, Goto, WritesLocked, RefreshHolds, DoomedExist, ActiveTokens,
           Live
  <2> QED
    BY <1>2, <2>1, <2>3, <2>4, <2>5 DEF BeginRefresh, RotatedIsRevoked, SingleRotation
<1>3. ASSUME \/ BeginDeactivate(r) \/ BeginDeactivateTenant(r)
             \/ \E k \in Sessions : BeginLogout(r, k) \/ BeginChangePassword(r, k)
      PROVE  RotationInv'
  <2>1. PICK o \in 0 .. MaxSession, kd \in {"logout"} \cup Revocations,
             label \in {"denying", "touching"} :
          /\ pc[r] = "idle" /\ kind' = [kind EXCEPT ![r] = kd]
          /\ pc' = [pc EXCEPT ![r] = label]
          /\ old' = [old EXCEPT ![r] = o]
          /\ label = "denying" <=> kd = "logout"
          /\ o # 0 <=> kd = "logout"
          /\ UNCHANGED <<userVars, tokenVars, redisVars, lockVars, fresh, seen, doomed, todo>>
    <3>1. old[r] = 0 <=> kind[r] \notin {"refresh", "logout"}
      BY DEF Carries
    <3>2. ASSUME NEW k \in Sessions, BeginLogout(r, k)
          PROVE  /\ pc[r] = "idle" /\ kind' = [kind EXCEPT ![r] = "logout"]
                 /\ pc' = [pc EXCEPT ![r] = "denying"]
                 /\ old' = [old EXCEPT ![r] = k] /\ k # 0 /\ k \in 0 .. MaxSession
                 /\ UNCHANGED <<userVars, tokenVars, redisVars, lockVars, fresh, seen,
                                doomed, todo>>
      BY <3>2, BoundsAssumption DEF BeginLogout, Goto, Sessions
    <3>3. ASSUME \/ BeginDeactivate(r) \/ BeginDeactivateTenant(r)
                 \/ \E k \in Sessions : BeginChangePassword(r, k)
          PROVE  \E kd \in Revocations :
                 /\ pc[r] = "idle" /\ kind' = [kind EXCEPT ![r] = kd]
                 /\ pc' = [pc EXCEPT ![r] = "touching"]
                 /\ old' = [old EXCEPT ![r] = 0]
                 /\ UNCHANGED <<userVars, tokenVars, redisVars, lockVars, fresh, seen,
                                doomed, todo>>
      <4>1. pc[r] = "idle" /\ UNCHANGED old
        BY <3>3 DEF BeginDeactivate, BeginDeactivateTenant, BeginChangePassword
      <4>2. old' = [old EXCEPT ![r] = 0]
        BY <3>1, <4>1 DEF Labels, TypeOK
      <4> QED
        BY <3>3, <4>2 DEF BeginDeactivate, BeginDeactivateTenant, BeginChangePassword, Goto,
                          Revocations
    <3> QED
      BY <1>3, <3>2, <3>3, BoundsAssumption DEF Revocations
  <2>2. kd \in Kinds /\ kd # "none" /\ kd \notin {"login", "refresh"}
    BY DEF Kinds, Revocations
  <2>3. TypeOK'
    BY <2>1, <2>2 DEF TypeOK, RequestStates
  <2>4. Labels' /\ Carries'
    BY <2>1, <2>2 DEF TypeOK, Labels, Carries
  <2>5. FreshIsNew' /\ DoomedExist' /\ RotatedIsRevoked' /\ SingleRotation'
    BY <2>1 DEF FreshIsNew, DoomedExist, RotatedIsRevoked, SingleRotation
  <2>6. WritesLocked' /\ RefreshHolds'
    BY <2>1, <2>2 DEF TypeOK, WritesLocked, RefreshHolds
  <2> QED
    BY <2>3, <2>4, <2>5, <2>6
<1> QED
  BY <1>1, <1>2, <1>3 DEF Begin

\* The COMMIT revokes what it has locked and inserts a session nobody has seen.
LEMMA CommitRotation ==
    ASSUME RotationInv, NEW r \in Requests, Commit(r)
    PROVE  RotationInv'
<1> USE DEF RotationInv
<1>1. /\ EndRequest(r) /\ UNCHANGED <<expired, issued, redisVars>> /\ pc[r] = "committing"
      /\ \A k \in Sessions :
            /\ token'[k] = IF k = fresh[r] THEN "live"
                           ELSE IF k \in doomed[r] THEN "revoked" ELSE token[k]
            /\ parent'[k] = IF k = fresh[r] THEN old[r] ELSE parent[k]
  BY DEF Commit
<1>2. TypeOK'
  <2>1. /\ token' \in [Sessions -> {"absent", "live", "revoked"}]
        /\ parent' \in [Sessions -> 0 .. MaxSession]
        /\ origin' \in [Sessions -> 0 .. MaxPassword]
    BY DEF Commit, TypeOK
  <2>2. password' \in 0 .. MaxPassword /\ active' \in BOOLEAN /\ tenantActive' \in BOOLEAN
    BY BoundsAssumption DEF Commit, TypeOK
  <2> QED
    BY <1>1, <2>1, <2>2, EndType DEF TypeOK, redisVars
<1>3. Labels' /\ Carries'
  BY <1>1, EndKeeps DEF Labels, Carries
<1>4. /\ \A k \in Sessions : k = fresh[r] => token[k] = "absent"
      /\ \A k \in doomed[r] : k \in Sessions /\ token[k] # "absent" /\ rowLock[k] = r
  <2>1. \A k \in Sessions : k = fresh[r] => token[k] = "absent"
    BY BoundsAssumption DEF FreshIsNew, Sessions
  <2>2. doomed[r] \subseteq Sessions
    BY DEF TypeOK
  <2> QED
    BY <1>1, <2>1, <2>2 DEF DoomedExist, WritesLocked
\* A token that was absent and is not the new one stays so; none becomes absent.
<1>5. \A k \in Sessions :
        /\ token[k] = "absent" /\ k # fresh[r] => token'[k] = "absent"
        /\ token[k] # "absent" => token'[k] # "absent"
        /\ token[k] = "revoked" => token'[k] = "revoked"
  BY <1>1, <1>4
<1>6. FreshIsNew'
  <2>1. fresh[r] # 0 => fresh[r] <= issued
    BY DEF FreshIsNew
  <2>2. \A k \in Sessions : k > issued => token'[k] = "absent"
    <3> SUFFICES ASSUME NEW k \in Sessions, k > issued PROVE token'[k] = "absent"
      OBVIOUS
    <3>1. k # fresh[r]
      BY <2>1, BoundsAssumption DEF Sessions, TypeOK
    <3> QED
      BY <1>5, <3>1 DEF FreshIsNew
  <2>3. \A q \in Requests \ {r} : fresh[q] # 0 =>
          fresh[q] \in Sessions /\ fresh[q] # fresh[r] /\ token[fresh[q]] = "absent"
    <3>1. \A q \in Requests : fresh[q] # 0 => fresh[q] \in Sessions
      BY BoundsAssumption DEF TypeOK, Sessions
    <3> QED
      BY <3>1 DEF FreshIsNew
  <2> QED
    BY <1>1, <1>5, <2>2, <2>3, EndKeeps DEF FreshIsNew
<1>7. DoomedExist' /\ WritesLocked'
  <2>1. \A q \in Requests : doomed[q] \subseteq Sessions
    BY DEF TypeOK
  <2> QED
    BY <1>1, <1>5, <2>1, EndKeeps DEF DoomedExist, WritesLocked
<1>8. RefreshHolds'
  <2> SUFFICES ASSUME NEW q \in Requests, kind'[q] = "refresh"
               PROVE  /\ old'[q] \in doomed'[q] /\ rowLock'[old'[q]] = q
                      /\ token'[old'[q]] = "live"
    BY DEF RefreshHolds
  <2>1. q # r /\ kind[q] = "refresh" /\ old'[q] = old[q] /\ doomed'[q] = doomed[q]
    BY <1>1, EndKeeps
  <2>2. /\ old[q] \in doomed[q] /\ rowLock[old[q]] = q /\ token[old[q]] = "live"
        /\ old[q] \in Sessions
    BY <2>1 DEF RefreshHolds, TypeOK
  <2>3. old[q] \notin doomed[r] /\ old[q] # fresh[r]
    BY <1>4, <2>1, <2>2
  <2> QED
    BY <1>1, <2>1, <2>2, <2>3, EndKeeps
\* The parent of the new session was live, so nobody has rotated it before.
<1>9. RotatedIsRevoked' /\ SingleRotation'
  <2>1. old[r] # 0 /\ fresh[r] # 0 =>
          /\ old[r] \in doomed[r] /\ token[old[r]] = "live" /\ old[r] # fresh[r]
    BY <1>4 DEF Carries, RefreshHolds
  <2>2. old[r] # 0 /\ fresh[r] # 0 => token'[old[r]] = "revoked"
    BY <1>1, <1>4, <2>1
  <2>3. \A k \in Sessions : parent[k] # 0 => parent[k] \in Sessions
    BY BoundsAssumption DEF TypeOK, Sessions
  <2>4. \A k \in Sessions : k = fresh[r] => fresh[r] # 0
    BY BoundsAssumption DEF Sessions
  <2>5. RotatedIsRevoked'
    BY <1>1, <1>5, <2>2, <2>3, <2>4 DEF RotatedIsRevoked
  <2>6. SingleRotation'
    BY <1>1, <2>1, <2>4 DEF RotatedIsRevoked, SingleRotation
  <2> QED
    BY <2>5, <2>6
<1> QED
  BY <1>2, <1>3, <1>6, <1>7, <1>8, <1>9

LEMMA RotationNext == RotationInv /\ [Next]_vars => RotationInv'
<1> SUFFICES ASSUME RotationInv, [Next]_vars PROVE RotationInv'
  OBVIOUS
<1>1. ASSUME NEW r \in Requests, Proceed(r) PROVE RotationInv'
  <2>1. CASE CheckUser(r)
    <3>1. CASE active /\ tenantActive
      <4> USE DEF CheckUser, Goto, RotationInv, userVars, tokenVars, redisVars, lockVars
      <4>1. TypeOK'
        BY <2>1, <3>1 DEF TypeOK, RequestStates
      <4>2. Labels' /\ Carries' /\ WritesLocked'
        BY <2>1, <3>1 DEF TypeOK, Labels, Carries, WritesLocked
      <4>3. FreshIsNew' /\ DoomedExist' /\ RefreshHolds'
        BY <2>1, <3>1 DEF FreshIsNew, DoomedExist, RefreshHolds
      <4> QED
        BY <2>1, <3>1, <4>1, <4>2, <4>3 DEF RotatedIsRevoked, SingleRotation
    <3>2. CASE ~(active /\ tenantActive)
      BY <2>1, <3>2, RollbackRotation DEF CheckUser
    <3> QED
      BY <3>1, <3>2
  <2>2. CASE Quiet(r)
    BY <2>2, QuietRotation
  <2> QED
    BY <1>1, <2>1, <2>2, LockRotation, CommitRotation DEF Proceed, Quiet
<1>2. ASSUME NEW r \in Requests, Begin(r) \/ Abort(r) PROVE RotationInv'
  BY <1>2, BeginRotation, RollbackRotation DEF Abort
<1>3. CASE \/ Reactivate \/ ReactivateTenant \/ UNCHANGED vars
           \/ \E k \in Sessions : Expire(k)
  <2>1. /\ UNCHANGED <<token, parent, origin, issued, redisVars, lockVars, requestVars>>
        /\ password' = password /\ expired' \in SUBSET Sessions
        /\ active' \in BOOLEAN /\ tenantActive' \in BOOLEAN
    BY <1>3 DEF Reactivate, ReactivateTenant, Expire, vars, userVars, tokenVars, RotationInv,
                TypeOK
  <2> QED
    BY <2>1 DEF RotationInv, TypeOK, Labels, Carries, FreshIsNew, DoomedExist, WritesLocked,
                RefreshHolds, RotatedIsRevoked, SingleRotation, redisVars, lockVars,
                requestVars
<1> QED
  BY <1>1, <1>2, <1>3 DEF Next

\* refresh_tokens: whatever is sent at the same time with one cookie, at most one
\* session descends from it.
THEOREM RotatesOnce == Spec => []SingleRotation
<1>1. RotationInv => SingleRotation
  BY DEF RotationInv
<1> QED
  BY <1>1, RotationInit, RotationNext, PTL DEF Spec

-----------------------------------------------------------------------------
(* Revocations *)

LEMMA RevocationInit == Init => RevocationInv
BY DEF Init, RevocationInv, KeptForRetry, Revocations

\* Only one revocation is past the lock of the user row.
LEMMA OneRevocation ==
    ASSUME RotationInv, RevocationInv, NEW r \in Requests, NEW q \in Requests,
           kind[r] \in Revocations, pc[r] # "touching",
           kind[q] \in Revocations, pc[q] # "touching"
    PROVE  q = r
BY DEF RevocationInv

LEMMA QuietRevocation ==
    ASSUME RotationInv, RevocationInv, NEW r \in Requests, Quiet(r)
    PROVE  RevocationInv'
<1> USE DEF RotationInv, Goto
<1>1. /\ UNCHANGED <<kind, old>>
      /\ \A q \in Requests \ {r} : pc'[q] = pc[q] /\ todo'[q] = todo[q]
  BY DEF Quiet, TrackJti, AcquireSessionCapLock, TouchUser, CountSessions, EvictOldest,
         DenyOld, UntrackOld, LoadToken, SnapshotTokens, RowsLocked, ReadJtis, DropSet,
         DenyNext, TypeOK
<1>2. CASE TouchUser(r)
  BY <1>1, <1>2, NoRequestAssumption
     DEF TouchUser, TypeOK, Labels, RevocationInv, KeptForRetry, redisVars, Revocations
<1>3. CASE TrackJti(r) \/ AcquireSessionCapLock(r)
  BY <1>1, <1>3 DEF TrackJti, AcquireSessionCapLock, TypeOK, Labels, RevocationInv,
                    KeptForRetry, redisVars, lockVars, Revocations
<1>4. CASE CountSessions(r) \/ EvictOldest(r)
  BY <1>1, <1>4 DEF CountSessions, EvictOldest, AfterCount, TypeOK, Labels, RevocationInv,
                    KeptForRetry, redisVars, lockVars, Revocations
<1>5. CASE LoadToken(r) \/ SnapshotTokens(r) \/ RowsLocked(r)
  BY <1>1, <1>5 DEF LoadToken, SnapshotTokens, RowsLocked, TypeOK, Labels, RevocationInv,
                    KeptForRetry, redisVars, lockVars, Revocations
<1>6. CASE DenyOld(r) \/ UntrackOld(r)
  BY <1>1, <1>6 DEF DenyOld, UntrackOld, TypeOK, Labels, RevocationInv, KeptForRetry,
                    lockVars, Revocations
<1>7. CASE ReadJtis(r)
  BY <1>1, <1>7 DEF ReadJtis, TypeOK, Labels, RevocationInv, KeptForRetry, redisVars,
                    lockVars
<1>8. CASE \E k \in Sessions : DenyNext(r, k)
  BY <1>1, <1>8 DEF DenyNext, TypeOK, RevocationInv, KeptForRetry, lockVars
<1>9. CASE DropSet(r)
  <2>1. \A q \in Requests : todo'[q] = {}
    <3>1. \A q \in Requests : todo[q] # {} => q = r
      BY <1>9, OneRevocation DEF DropSet, RevocationInv, Labels
    <3> QED
      BY <1>9, <3>1 DEF DropSet
  <2> QED
    BY <1>1, <1>9, <2>1 DEF DropSet, TypeOK, Labels, RevocationInv, KeptForRetry, lockVars
<1> QED
  BY <1>2, <1>3, <1>4, <1>5, <1>6, <1>7, <1>8, <1>9 DEF Quiet

\* The end of a request, with or without a COMMIT.
LEMMA EndRevocation ==
    ASSUME RotationInv, RevocationInv, NEW r \in Requests, EndRequest(r),
           UNCHANGED redisVars
    PROVE  RevocationInv'
BY EndKeeps DEF RotationInv, RevocationInv, KeptForRetry, redisVars, Revocations

LEMMA RevocationNext == RotationInv /\ RevocationInv /\ [Next]_vars => RevocationInv'
<1> SUFFICES ASSUME RotationInv, RevocationInv, [Next]_vars PROVE RevocationInv'
  OBVIOUS
<1>1. ASSUME NEW r \in Requests, Proceed(r) PROVE RevocationInv'
  <2>1. CASE CheckUser(r)
    <3>1. CASE active /\ tenantActive
      BY <2>1, <3>1 DEF CheckUser, Goto, RotationInv, TypeOK, Labels, RevocationInv,
                        KeptForRetry, redisVars, lockVars, Revocations
    <3>2. CASE ~(active /\ tenantActive)
      BY <2>1, <3>2, EndRevocation DEF CheckUser
    <3> QED
      BY <3>1, <3>2
  <2>2. CASE \E k \in Sessions : LockRow(r, k)
    BY <2>2 DEF LockRow, RevocationInv, KeptForRetry, redisVars, requestVars
  <2>3. CASE Commit(r)
    BY <2>3, EndRevocation DEF Commit
  <2> QED
    BY <1>1, <2>1, <2>2, <2>3, QuietRevocation DEF Proceed, Quiet
<1>2. ASSUME NEW r \in Requests, Begin(r) PROVE RevocationInv'
  <2>1. /\ pc[r] = "idle" /\ UNCHANGED <<redisVars, userLock, todo>>
        /\ pc'[r] \in {"tracking", "checking", "denying", "touching"}
        /\ kind'[r] \in Revocations => pc'[r] = "touching"
        /\ \A q \in Requests \ {r} :
               kind'[q] = kind[q] /\ pc'[q] = pc[q] /\ old'[q] = old[q]
    BY <1>2 DEF Begin, BeginLogin, BeginRefresh, BeginLogout, BeginChangePassword,
                BeginDeactivate, BeginDeactivateTenant, Goto, RotationInv, TypeOK, lockVars,
                Revocations
  <2> QED
    BY <2>1 DEF RevocationInv, KeptForRetry, redisVars
<1>3. ASSUME NEW r \in Requests, Abort(r) PROVE RevocationInv'
  BY <1>3, EndRevocation DEF Abort
<1>4. CASE \/ Reactivate \/ ReactivateTenant \/ UNCHANGED vars
           \/ \E k \in Sessions : Expire(k)
  BY <1>4 DEF Reactivate, ReactivateTenant, Expire, vars, RevocationInv, KeptForRetry,
              redisVars, lockVars, requestVars
<1> QED
  BY <1>1, <1>2, <1>3, <1>4 DEF Next

\* revoke_all_user_access_tokens: wherever a revocation stops, beside any logins,
\* refreshes and other revocations, each access token it read is denied or is still
\* in active_jtis for the next attempt.
THEOREM RetryFindsAll == Spec => []KeptForRetry
<1>1. RevocationInv => KeptForRetry
  BY DEF RevocationInv
<1> QED
  BY <1>1, RotationInit, RotationNext, RevocationInit, RevocationNext, PTL DEF Spec

-----------------------------------------------------------------------------
(* The session cap *)

\* The sets of sessions that the proof counts are finite.
LEMMA SessionsCount ==
    ASSUME NEW S \in SUBSET Sessions
    PROVE  IsFiniteSet(S) /\ Cardinality(S) \in Nat
<1>1. IsFiniteSet(Sessions)
  BY FS_Interval, BoundsAssumption DEF Sessions
<1>2. IsFiniteSet(S)
  BY <1>1, FS_Subset
<1> QED
  BY <1>2, FS_CardinalityType

\* A subset has no more sessions, and a proper one has fewer.
LEMMA SubsetCount ==
    ASSUME NEW S \in SUBSET Sessions, NEW T \in SUBSET S
    PROVE  /\ Cardinality(T) <= Cardinality(S)
           /\ T # S => Cardinality(T) < Cardinality(S)
<1>1. IsFiniteSet(S) /\ Cardinality(S) \in Nat
  BY SessionsCount
<1>2. T \in SUBSET Sessions
  OBVIOUS
<1>3. Cardinality(T) \in Nat
  BY <1>2, SessionsCount
<1>4. Cardinality(T) <= Cardinality(S) /\ (Cardinality(S) = Cardinality(T) => S = T)
  BY <1>1, FS_Subset
<1> QED
  BY <1>1, <1>3, <1>4

\* There is an oldest session among any.
LEMMA OldestExists ==
    ASSUME NEW S \in SUBSET Sessions, S # {}
    PROVE  \E k \in S : \A j \in S : k <= j
<1>1. S \subseteq Nat
  BY DEF Sessions
<1>2. \E k \in S : \A j \in S : ~ (<<j, k>> \in OpToRel(<, Nat))
  BY <1>1, NatLessThanWellFounded, WFMin
<1>3. PICK k \in S : \A j \in S : ~ (<<j, k>> \in OpToRel(<, Nat))
  BY <1>2
<1>4. ASSUME NEW j \in S PROVE ~ (j < k)
  BY <1>1, <1>3, <1>4 DEF OpToRel
<1>5. \A j \in S : k <= j
  BY <1>1, <1>4
<1> QED
  BY <1>5

\* One eviction makes room for one session.
LEMMA EvictionCounts ==
    ASSUME NEW S \in SUBSET Sessions, Cardinality(S) <= MAX_ACTIVE_SESSIONS
    PROVE  Cardinality(S \ {k \in S : \A j \in S : k <= j}) < MAX_ACTIVE_SESSIONS
<1> DEFINE T == S \ {k \in S : \A j \in S : k <= j}
<1>1. T \in SUBSET S /\ T \in SUBSET Sessions
  OBVIOUS
<1>2. Cardinality(S) \in Nat /\ Cardinality(T) \in Nat
  BY <1>1, SessionsCount
<1>3. CASE S = {}
  <2>1. T = {}
    BY <1>3
  <2>2. Cardinality(T) = 0
    BY <2>1, FS_EmptySet
  <2> QED
    BY <2>2, BoundsAssumption
<1>4. CASE S # {}
  <2>1. T # S
    BY <1>4, OldestExists
  <2>2. Cardinality(T) < Cardinality(S)
    BY <1>1, <2>1, SubsetCount
  <2> QED
    BY <1>2, <2>2, BoundsAssumption
<1> QED
  BY <1>3, <1>4

LEMMA CapInit == Init => CapInv
<1> SUFFICES ASSUME Init PROVE CapInv
  OBVIOUS
<1>1. Live = {}
  BY DEF Init, Live
<1>2. Cardinality(Live) = 0
  BY <1>1, FS_EmptySet
<1> QED
  BY <1>2, BoundsAssumption DEF Init, CapInv, InCap, HasRoom

\* A step that issues no session, forgets no victim and takes nobody past the
\* eviction.
LEMMA CapKept ==
    ASSUME RotationInv, CapInv,
           expired' = {} => expired = {},
           Live' \subseteq Live,
           \A q \in Requests : InCap(q)' => capLock' = q,
           \A q \in Requests : HasRoom(q)' => HasRoom(q) /\ doomed[q] \subseteq doomed'[q]
    PROVE  CapInv'
<1>1. Live \in SUBSET Sessions /\ Cardinality(Live) \in Nat
  BY SessionsCount DEF Live
<1>2. Live' \in SUBSET Sessions /\ Cardinality(Live') \in Nat
  BY <1>1, SessionsCount
<1>3. Cardinality(Live') <= Cardinality(Live)
  BY <1>1, SubsetCount
<1>4. ASSUME NEW q \in Requests, HasRoom(q)', expired' = {}
      PROVE  Cardinality(Live' \ doomed'[q]) < MAX_ACTIVE_SESSIONS
  <2> DEFINE S == Live \ doomed[q]
             T == Live' \ doomed'[q]
  <2>1. S \in SUBSET Sessions /\ T \in SUBSET S /\ T \in SUBSET Sessions
    BY <1>1, <1>4
  <2>2. Cardinality(S) < MAX_ACTIVE_SESSIONS
    BY <1>4 DEF CapInv
  <2>3. Cardinality(S) \in Nat /\ Cardinality(T) \in Nat
    BY <2>1, SessionsCount
  <2>4. Cardinality(T) <= Cardinality(S)
    BY <2>1, SubsetCount
  <2> QED
    BY <2>2, <2>3, <2>4, BoundsAssumption
<1>5. expired' = {} => Cardinality(Live') <= MAX_ACTIVE_SESSIONS
  BY <1>1, <1>2, <1>3, BoundsAssumption DEF CapInv
<1> QED
  BY <1>4, <1>5 DEF CapInv

LEMMA EndCap ==
    ASSUME RotationInv, CapInv, NEW r \in Requests, EndRequest(r),
           UNCHANGED expired, Live' \subseteq Live
    PROVE  CapInv'
<1>1. \A q \in Requests : InCap(q)' => capLock' = q
  BY EndKeeps DEF RotationInv, CapInv, InCap
<1>2. \A q \in Requests : HasRoom(q)' => HasRoom(q) /\ doomed[q] \subseteq doomed'[q]
  BY EndKeeps DEF RotationInv, HasRoom, InCap
<1> QED
  BY <1>1, <1>2, CapKept

LEMMA CommitCap ==
    ASSUME RotationInv, CapInv, NEW r \in Requests, Commit(r)
    PROVE  CapInv'
<1>1. /\ EndRequest(r) /\ UNCHANGED expired /\ pc[r] = "committing"
      /\ Live' \subseteq (Live \ doomed[r]) \cup {fresh[r]}
      /\ fresh[r] = 0 => Live' \subseteq Live
  <2>1. \A k \in Sessions : token'[k] = IF k = fresh[r] THEN "live"
                           ELSE IF k \in doomed[r] THEN "revoked" ELSE token[k]
    BY DEF Commit
  <2>2. 0 \notin Sessions
    BY DEF Sessions
  <2> QED
    BY <2>1, <2>2 DEF Commit, Live
<1>2. CASE fresh[r] = 0
  BY <1>1, <1>2, EndCap
<1>3. CASE fresh[r] # 0
  <2>1. HasRoom(r) /\ capLock = r
    BY <1>1, <1>3 DEF RotationInv, Carries, CapInv, HasRoom, InCap
  <2>2. \A q \in Requests : ~InCap(q)'
    BY <1>1, <2>1, EndKeeps DEF RotationInv, CapInv, InCap
  <2>3. fresh[r] \in Sessions
    BY <1>3, BoundsAssumption DEF RotationInv, TypeOK, Sessions
  <2> DEFINE S == Live \ doomed[r]
             T == S \cup {fresh[r]}
  <2>4. S \in SUBSET Sessions /\ T \in SUBSET Sessions /\ Live' \in SUBSET T
    BY <1>1, <2>3 DEF Live
  <2>5. IsFiniteSet(S) /\ Cardinality(S) \in Nat /\ Cardinality(T) \in Nat
    BY <2>4, SessionsCount
  <2>6. Cardinality(T) <= Cardinality(S) + 1
    BY <2>5, FS_AddElement
  <2>7. Cardinality(Live') <= Cardinality(T)
    BY <2>4, SubsetCount
  <2>8. Cardinality(Live') \in Nat
    BY <2>4, SessionsCount
  <2>9. expired = {} => Cardinality(S) < MAX_ACTIVE_SESSIONS
    BY <2>1 DEF CapInv
  <2>10. expired' = {} => Cardinality(Live') <= MAX_ACTIVE_SESSIONS
    BY <1>1, <2>5, <2>6, <2>7, <2>8, <2>9, BoundsAssumption
  <2> QED
    BY <2>2, <2>10 DEF CapInv, HasRoom
<1> QED
  BY <1>2, <1>3

LEMMA QuietCap ==
    ASSUME RotationInv, CapInv, NEW r \in Requests, Quiet(r)
    PROVE  CapInv'
<1> USE DEF RotationInv, Goto
<1>1. /\ UNCHANGED <<kind, expired, token>>
      /\ \A q \in Requests \ {r} : pc'[q] = pc[q] /\ doomed'[q] = doomed[q]
  BY DEF Quiet, TrackJti, AcquireSessionCapLock, TouchUser, CountSessions, EvictOldest,
         DenyOld, UntrackOld, LoadToken, SnapshotTokens, RowsLocked, ReadJtis, DropSet,
         DenyNext, TypeOK, tokenVars
<1>2. Live' = Live
  BY <1>1 DEF Live
<1>3. \A q \in Requests : InCap(q)' => capLock' = q
  <2>1. CASE AcquireSessionCapLock(r)
    BY <1>1, <2>1, NoRequestAssumption DEF AcquireSessionCapLock, TypeOK, CapInv, InCap
  <2>2. CASE ~AcquireSessionCapLock(r)
    <3>1. capLock' = capLock /\ (InCap(r)' => InCap(r))
      BY <1>1, <2>2
         DEF Quiet, TrackJti, TouchUser, CountSessions, EvictOldest, DenyOld, UntrackOld,
             LoadToken, SnapshotTokens, RowsLocked, ReadJtis, DropSet, DenyNext, AfterCount,
             TypeOK, Labels, InCap, Revocations, lockVars
    <3> QED
      BY <1>1, <3>1 DEF CapInv, InCap
  <2> QED
    BY <2>1, <2>2
<1>4. \A q \in Requests \ {r} : HasRoom(q)' => HasRoom(q) /\ doomed[q] \subseteq doomed'[q]
  BY <1>1 DEF HasRoom, InCap
<1>5. CASE HasRoom(r)' => HasRoom(r) /\ doomed[r] \subseteq doomed'[r]
  BY <1>1, <1>2, <1>3, <1>4, <1>5, CapKept
\* r has just made room, or found it.
<1>6. CASE /\ expired = {} =>
                Cardinality(Live \ doomed'[r]) < MAX_ACTIVE_SESSIONS
  <2>1. ASSUME NEW q \in Requests, HasRoom(q)', expired' = {}
        PROVE  Cardinality(Live' \ doomed'[q]) < MAX_ACTIVE_SESSIONS
    BY <1>1, <1>2, <1>4, <1>6, <2>1 DEF CapInv
  <2> QED
    BY <1>1, <1>2, <1>3, <2>1 DEF CapInv
<1>7. CASE CountSessions(r)
  <2> DEFINE n == Cardinality(ActiveTokens \ doomed[r])
  <2>1. doomed'[r] = doomed[r]
    BY <1>7 DEF CountSessions
  <2>2. CASE n >= MAX_ACTIVE_SESSIONS
    <3>1. pc'[r] = "choosing"
      BY <1>7, <2>2 DEF CountSessions, TypeOK
    <3> QED
      BY <1>5, <3>1 DEF HasRoom
  <2>3. CASE ~(n >= MAX_ACTIVE_SESSIONS)
    <3>1. ActiveTokens \ doomed[r] \in SUBSET Sessions
      BY DEF ActiveTokens, Live
    <3>2. n \in Nat
      BY <3>1, SessionsCount
    <3>3. n < MAX_ACTIVE_SESSIONS
      BY <2>3, <3>2, BoundsAssumption
    <3>4. expired = {} => ActiveTokens = Live
      BY DEF ActiveTokens
    <3> QED
      BY <1>6, <2>1, <3>3, <3>4
  <2> QED
    BY <2>2, <2>3
<1>8. CASE EvictOldest(r)
  <2> DEFINE S == Live \ doomed[r]
  <2>1. doomed'[r] = doomed[r] \cup {k \in S : \A j \in S : k <= j}
    BY <1>8 DEF EvictOldest, TypeOK
  <2>2. Live \ doomed'[r] = S \ {k \in S : \A j \in S : k <= j}
    BY <2>1
  <2>3. Live \in SUBSET Sessions /\ S \in SUBSET Sessions /\ S \in SUBSET Live
    BY DEF Live
  <2>4. Cardinality(Live) \in Nat /\ Cardinality(S) \in Nat
    BY <2>3, SessionsCount
  <2>5. Cardinality(S) <= Cardinality(Live)
    BY <2>3, SubsetCount
  <2>6. ASSUME expired = {}
        PROVE  Cardinality(S \ {k \in S : \A j \in S : k <= j}) < MAX_ACTIVE_SESSIONS
    <3>1. Cardinality(S) <= MAX_ACTIVE_SESSIONS
      BY <2>4, <2>5, <2>6, BoundsAssumption DEF CapInv
    <3> HIDE DEF S
    <3> QED
      BY <2>3, <3>1, EvictionCounts
  <2> QED
    BY <1>6, <2>2, <2>6
<1>9. CASE ~CountSessions(r) /\ ~EvictOldest(r)
  BY <1>1, <1>5, <1>9
     DEF Quiet, TrackJti, AcquireSessionCapLock, TouchUser, DenyOld, UntrackOld, LoadToken,
         SnapshotTokens, RowsLocked, ReadJtis, DropSet, DenyNext, TypeOK, Labels, HasRoom,
         InCap, Revocations
<1> QED
  BY <1>7, <1>8, <1>9

LEMMA CapNext == RotationInv /\ CapInv /\ [Next]_vars => CapInv'
<1> SUFFICES ASSUME RotationInv, CapInv, [Next]_vars PROVE CapInv'
  OBVIOUS
<1>1. ASSUME NEW r \in Requests, Proceed(r) PROVE CapInv'
  <2>1. CASE CheckUser(r)
    <3>1. UNCHANGED expired /\ Live' = Live
      BY <2>1 DEF CheckUser, tokenVars, Live
    <3>2. CASE active /\ tenantActive
      <4>1. /\ UNCHANGED <<kind, capLock, doomed>> /\ pc[r] = "checking" /\ pc'[r] = "capping"
            /\ \A q \in Requests \ {r} : pc'[q] = pc[q]
        BY <2>1, <3>2 DEF CheckUser, Goto, RotationInv, TypeOK, lockVars
      <4>2. \A q \in Requests : InCap(q)' => capLock' = q
        BY <4>1 DEF CapInv, InCap, RotationInv, Labels
      <4>3. \A q \in Requests : HasRoom(q)' => HasRoom(q) /\ doomed[q] \subseteq doomed'[q]
        BY <4>1 DEF HasRoom, InCap, RotationInv, Labels
      <4> QED
        BY <3>1, <4>2, <4>3, CapKept
    <3>3. CASE ~(active /\ tenantActive)
      BY <2>1, <3>1, <3>3, EndCap DEF CheckUser
    <3> QED
      BY <3>2, <3>3
  <2>2. CASE \E k \in Sessions : LockRow(r, k)
    BY <2>2 DEF LockRow, CapInv, HasRoom, InCap, Live, tokenVars, requestVars
  <2> QED
    BY <1>1, <2>1, <2>2, QuietCap, CommitCap DEF Proceed, Quiet
<1>2. ASSUME NEW r \in Requests, Begin(r) PROVE CapInv'
  <2>1. /\ UNCHANGED <<token, expired, capLock>>
        /\ kind'[r] = "login" => pc'[r] = "tracking"
        /\ kind'[r] = "refresh" => pc'[r] = "checking"
        /\ \A q \in Requests \ {r} :
               kind'[q] = kind[q] /\ pc'[q] = pc[q] /\ doomed'[q] = doomed[q]
    BY <1>2 DEF Begin, BeginLogin, BeginRefresh, BeginLogout, BeginChangePassword,
                BeginDeactivate, BeginDeactivateTenant, Goto, RotationInv, TypeOK, lockVars,
                tokenVars
  <2>2. \A q \in Requests : InCap(q)' => capLock' = q
    BY <2>1 DEF CapInv, InCap
  <2>3. \A q \in Requests : HasRoom(q)' => HasRoom(q) /\ doomed[q] \subseteq doomed'[q]
    BY <2>1 DEF HasRoom, InCap
  <2>4. Live' = Live
    BY <2>1 DEF Live
  <2> QED
    BY <2>1, <2>2, <2>3, <2>4, CapKept
<1>3. ASSUME NEW r \in Requests, Abort(r) PROVE CapInv'
  <2>1. EndRequest(r) /\ UNCHANGED expired /\ Live' = Live
    BY <1>3 DEF Abort, tokenVars, Live
  <2> QED
    BY <2>1, EndCap
<1>4. CASE \/ Reactivate \/ ReactivateTenant \/ UNCHANGED vars
           \/ \E k \in Sessions : Expire(k)
  <2>1. UNCHANGED <<token, lockVars, requestVars>> /\ expired \subseteq expired'
    BY <1>4 DEF Reactivate, ReactivateTenant, Expire, vars, tokenVars
  <2> QED
    BY <2>1 DEF CapInv, HasRoom, InCap, Live, lockVars, requestVars
<1> QED
  BY <1>1, <1>2, <1>3, <1>4 DEF Next

\* _create_refresh_token under the advisory lock: any number of concurrent logins and
\* refreshes leaves the user at most MAX_ACTIVE_SESSIONS sessions until a token
\* outlives its expires_at.
THEOREM CapHolds == Spec => []SessionCapUntilExpiry
<1>1. CapInv => SessionCapUntilExpiry
  <2>1. expired = {} => ActiveTokens = Live
    BY DEF ActiveTokens
  <2> QED
    BY <2>1 DEF CapInv, SessionCapUntilExpiry
<1> QED
  BY <1>1, RotationInit, RotationNext, CapInit, CapNext, PTL DEF Spec
=============================================================================
