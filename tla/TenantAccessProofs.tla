------------------------- MODULE TenantAccessProofs -------------------------
(***************************************************************************)
(* Tenants, users and row-level security, for any number of requests,       *)
(* connections, users and tenants and any patches the schemas admit; and the *)
(* lease of acquire_dist_lock, which serialises their deactivations.        *)
(***************************************************************************)
EXTENDS TenantAccess, WellFoundedInduction, TLAPS

\* acquire_dist_lock, for the same requests.
CONSTANTS Processes, ProcessOf, MaxFaults
VARIABLES lease, expired, late, active, pc, attempt, lost, faults
D == INSTANCE DistLock

-----------------------------------------------------------------------------
(* The inductive invariant *)

\* A request that has begun and is not yet answered, and the resources it is on.
Working == {"caller", "target", "lookup", "policy", "flush", "commit"}
OnUsers == UserOps \cup {"create_user"}
OnTenants == TenantOps \cup {"create_tenant"}
Fields == {"pc", "conn", "user", "op", "target", "body", "foreign", "caller", "row", "change",
           "denied", "locks", "code"}

\* The rows of the two tables.
Tables ==
    /\ users \in [Users -> UserRows \cup {None}]
    /\ tenants \in [Tenants -> TenantRows \cup {None}]
    /\ orphaned \in BOOLEAN

\* What a request was asked for: rows are never deleted, and nobody else creates the
\* row that it is to create.
Asked(q) ==
    /\ DOMAIN q = Fields
    /\ q.pc \in Working \cup {"idle", "answer"}
    /\ q.pc = "idle" => q.conn = None
    /\ q.pc # "idle" => q.conn \in Conns
    /\ q.pc = "answer" /\ q.foreign => q.code \in {401, 403, 500}
    /\ q.pc \in {"idle", "answer"} => q.target = None
    /\ q.pc \in Working =>
        /\ q.user \in Users /\ users[q.user] # None
        /\ q.op \in OnUsers \cup OnTenants
        /\ q.op \in OnUsers => q.target \in Users
        /\ q.op \in OnTenants => q.target \in Tenants
        /\ q.foreign => q.pc \in {"caller", "target", "lookup"} /\ Foreign(users[q.user], q)
        /\ q.op = "create_user" => users[q.target] = None /\ q.body \in NewUsers
        /\ q.op = "patch_user" => q.body \in UserPatches
        /\ q.op = "create_tenant" => q.body \in NewTenants
        /\ q.op = "patch_tenant" => q.body \in TenantPatches

\* The copies it works on: what never changes in them is what the tables have.
Copied(q) ==
    /\ q.pc \in Working \ {"caller"} =>
        /\ q.caller \in UserRows /\ q.caller.is_superadmin = users[q.user].is_superadmin
        /\ q.caller.tenant_id = users[q.user].tenant_id
    /\ q.pc \in Working \ {"caller", "lookup"} => ctx[q.conn] = Scope(q.caller)
    /\ q.pc = "lookup" => q.op \in UserOps /\ ~q.caller.is_superadmin
    /\ q.pc \in {"policy", "flush", "commit"} /\ q.op \in UserOps =>
        /\ q.row \in UserRows /\ users[q.target] # None
        /\ q.row.is_superadmin = users[q.target].is_superadmin
    /\ q.pc \in {"policy", "flush", "commit"} /\ q.op \in TenantOps =>
        q.row \in TenantRows /\ tenants[q.target] # None

\* The change it is going to commit.
Deactivation(q) == "is_active" \in DOMAIN q.change /\ ~q.change["is_active"]
\* A column as it will be after the commit.
Column(q, f) == IF f \in DOMAIN q.change THEN q.change[f] ELSE q.row[f]
Within(limit, plan) == limit <= _PLAN_MAX_ASSETS[plan]

\* Only a superadmin deactivates one, and never himself.
UserChange(q) ==
    /\ q.op = "create_user" => q.change \in UserRows /\ q.change.is_active
    /\ q.op \in {"patch_user", "delete_user"} =>
        /\ IsUserPatch(q.change)
        /\ Deactivation(q) => Deactivates(q)
        /\ Deactivation(q) /\ q.row.is_superadmin => q.caller.is_superadmin /\ q.target # q.user
\* The limit stays within the plan when the copy was within it.
TenantChange(q) ==
    /\ q.op = "create_tenant" =>
        q.change \in TenantRows /\ Within(q.change.max_assets, q.change.plan)
    /\ q.op \in {"patch_tenant", "delete_tenant"} =>
        /\ IsTenantPatch(q.change)
        /\ Within(q.row.max_assets, q.row.plan) =>
            Within(Column(q, "max_assets"), Column(q, "plan"))
    /\ q.op = "delete_tenant" => DOMAIN q.change = {"is_active"}
\* Sessions are revoked before the commit that deactivates their users.
Prepared(q) ==
    /\ q.pc \in {"flush", "commit"} =>
        q.op \notin {"get_user", "get_tenant"} /\ UserChange(q) /\ TenantChange(q)
    /\ q.pc = "commit" /\ q.op \in UserOps /\ Deactivates(q) => q.denied = {q.target}
    /\ q.pc = "commit" /\ q.op \in OnTenants =>
        \A u \in q.denied : u \in Users /\ users[u] # None /\ users[u].tenant_id = q.target

Good(q) == Asked(q) /\ Copied(q) /\ Prepared(q)

\* Requests do not share a connection, or the id of a new user.
Creates(q) == q.pc \in Working /\ q.op = "create_user"
Apart ==
    \A r, x \in Requests : r # x =>
        /\ req[r].pc # "idle" /\ req[x].pc # "idle" => req[r].conn # req[x].conn
        /\ Creates(req[r]) /\ Creates(req[x]) => req[r].target # req[x].target

\* A connection that nobody has is clean.
FreeAreClean == \A c \in Conns \ {req[r].conn : r \in Requests} : ctx[c] = Clean

\* The inductive invariant, without and with the properties of the rows.
RequestInv ==
    /\ DOMAIN ctx = Conns /\ req = [r \in Requests |-> req[r]]
    /\ Apart /\ FreeAreClean
    /\ \A r \in Requests : Good(req[r])

AccessInv == Tables /\ RequestInv /\ PlanLimitHolds /\ SuperadminRemains

-----------------------------------------------------------------------------
(* Rows *)

\* NULL is no row and no identity.
LEMMA NoneIsNoRow ==
    /\ None \notin UserRows /\ None \notin TenantRows /\ None \notin Users
    /\ None \notin Tenants /\ None \notin Conns
BY TablesAssumption DEF TablesAssumption

\* Every plan has a limit.
LEMMA Limits == \A p \in Plans : _PLAN_MAX_ASSETS[p] \in Nat \ {0}
BY TablesAssumption DEF TablesAssumption

\* A patch changes the columns it names; who a user is and where it belongs stay.
LEMMA PatchedUser ==
    ASSUME NEW row \in UserRows, NEW b, IsUserPatch(b)
    PROVE  /\ Applied(row, b) \in UserRows
           /\ Applied(row, b).is_superadmin = row.is_superadmin
           /\ Applied(row, b).tenant_id = row.tenant_id
           /\ Applied(row, b).is_active = IF "is_active" \in DOMAIN b THEN b["is_active"] ELSE row.is_active
<1>0. row # None
  BY NoneIsNoRow
<1>1. DOMAIN row = {"tenant_id", "email", "role", "is_active", "is_superadmin"}
  BY DEF UserRows
<1>2. Applied(row, b) = [f \in {"tenant_id", "email", "role", "is_active", "is_superadmin"} |->
                          IF f \in DOMAIN b THEN b[f] ELSE row[f]]
  BY <1>0, <1>1 DEF Applied
<1> QED
  BY <1>2 DEF UserRows, IsUserPatch

\* The same for the columns of a tenant.
LEMMA PatchedTenant ==
    ASSUME NEW row \in TenantRows, NEW b, IsTenantPatch(b)
    PROVE  /\ Applied(row, b) \in TenantRows
           /\ Applied(row, b).plan = IF "plan" \in DOMAIN b THEN b["plan"] ELSE row.plan
           /\ Applied(row, b).max_assets =
                IF "max_assets" \in DOMAIN b THEN b["max_assets"] ELSE row.max_assets
<1>0. row # None
  BY NoneIsNoRow
<1>1. DOMAIN row = {"slug", "plan", "max_assets", "is_active"}
  BY DEF TenantRows
<1>2. Applied(row, b) = [f \in {"slug", "plan", "max_assets", "is_active"} |->
                          IF f \in DOMAIN b THEN b[f] ELSE row[f]]
  BY <1>0, <1>1 DEF Applied
<1> QED
  BY <1>2 DEF TenantRows, IsTenantPatch

\* A whole row replaces the row.
LEMMA WholeTenant ==
    ASSUME NEW row \in TenantRows \cup {None}, NEW b \in TenantRows
    PROVE  /\ Applied(row, b) \in TenantRows
           /\ Applied(row, b).plan = b.plan /\ Applied(row, b).max_assets = b.max_assets
<1>1. CASE row = None
  BY <1>1 DEF Applied
<1>2. CASE row # None
  <2>1. DOMAIN row = {"slug", "plan", "max_assets", "is_active"} /\ DOMAIN b = DOMAIN row
    BY <1>2 DEF TenantRows
  <2>2. Applied(row, b) = [f \in {"slug", "plan", "max_assets", "is_active"} |-> b[f]]
    BY <1>2, <2>1 DEF Applied
  <2> QED
    BY <2>2 DEF TenantRows
<1> QED
  BY <1>1, <1>2

\* Deactivation leaves the rest of a user.
LEMMA InactiveUser ==
    ASSUME NEW row \in UserRows
    PROVE  /\ Inactive(row) \in UserRows
           /\ Inactive(row).is_superadmin = row.is_superadmin
           /\ Inactive(row).tenant_id = row.tenant_id
BY DEF Inactive, UserRows

-----------------------------------------------------------------------------
(* Framing *)

\* Rows are only added, and keep who they are.
Grown ==
    /\ \A u \in Users : users[u] # None =>
        /\ users'[u] # None /\ users'[u].is_superadmin = users[u].is_superadmin
        /\ users'[u].tenant_id = users[u].tenant_id
    /\ \A t \in Tenants : tenants[t] # None => tenants'[t] # None

\* A request that a step does not touch stays good.
LEMMA Framed ==
    ASSUME NEW q, Good(q), Grown,
           Creates(q) => users'[q.target] = None,
           q.pc # "idle" => ctx'[q.conn] = ctx[q.conn]
    PROVE  Good(q)'
<1>1. Asked(q)'
  <2>1. q.pc \in Working /\ q.foreign => Foreign(users[q.user], q)'
    BY DEF Good, Asked, Grown, Foreign, OnUsers
  <2> QED
    BY <2>1 DEF Good, Asked, Grown, Creates, OnUsers, UserOps, Foreign
<1>2. Copied(q)'
  BY DEF Good, Asked, Copied, Grown, Working, OnUsers, OnTenants
<1>3. Prepared(q)'
  BY DEF Good, Prepared, Grown
<1> QED
  BY <1>1, <1>2, <1>3 DEF Good

\* A step of one request, which ends up as q.
LEMMA OneStep ==
    ASSUME RequestInv, Grown, NEW r \in Requests, NEW q,
           req' = [req EXCEPT ![r] = q], Good(q)',
           DOMAIN ctx' = Conns,
           \A c \in Conns : c # req[r].conn => ctx'[c] = ctx[c],
           q.pc # "idle" =>
              \A x \in Requests \ {r} : req[x].pc # "idle" => req[x].conn # q.conn,
           Creates(q) => \A x \in Requests \ {r} : Creates(req[x]) => req[x].target # q.target,
           \A x \in Requests \ {r} : Creates(req[x]) => users'[req[x].target] = None,
           q.conn = req[r].conn \/ req[r].conn \notin Conns \/ ctx'[req[r].conn] = Clean,
           q.pc = "idle" => q.conn = None
    PROVE  RequestInv'
<1>1. /\ \A x \in Requests : req'[x] = IF x = r THEN q ELSE req[x]
      /\ req' = [x \in Requests |-> req'[x]]
  BY DEF RequestInv
<1>2. ASSUME NEW x \in Requests PROVE Good(req[x])'
  <2>1. CASE x = r
    BY <1>1, <2>1
  <2>2. CASE x # r
    <3>1. PICK p : p = req[x]
      OBVIOUS
    <3>2. Good(p) /\ (p.pc # "idle" => p.conn \in Conns)
      BY <3>1 DEF RequestInv, Good, Asked
    <3>3. p.pc # "idle" => p.conn # req[r].conn
      BY <3>1, <2>2, NoneIsNoRow DEF RequestInv, Apart, Good, Asked
    <3>4. p.pc # "idle" => ctx'[p.conn] = ctx[p.conn]
      BY <3>2, <3>3
    <3>5. Good(p)'
      BY <3>1, <3>2, <3>4, <2>2, Framed
    <3> QED
      BY <3>1, <3>5, <1>1, <2>2
  <2> QED
    BY <2>1, <2>2
<1>3. Apart'
  BY <1>1 DEF RequestInv, Apart, Creates
<1>4. FreeAreClean'
  <2> SUFFICES ASSUME NEW c \in Conns, \A x \in Requests : req'[x].conn # c
               PROVE  ctx'[c] = Clean
    BY DEF FreeAreClean
  <2>1. CASE c = req[r].conn
    BY <2>1, <1>1
  <2>2. CASE c # req[r].conn
    <3>1. \A x \in Requests : req[x].conn # c
      BY <1>1, <2>2
    <3> QED
      BY <2>2, <3>1 DEF RequestInv, FreeAreClean
  <2> QED
    BY <2>1, <2>2
<1> QED
  BY <1>1, <1>2, <1>3, <1>4 DEF RequestInv

\* A request that goes on, with its connection and its job.
LEMMA GoesOn ==
    ASSUME RequestInv, Grown, NEW r \in Requests, NEW q, req[r].pc \in Working,
           req' = [req EXCEPT ![r] = q], Good(q)', DOMAIN ctx' = Conns,
           \A c \in Conns : c # req[r].conn => ctx'[c] = ctx[c],
           q.pc # "idle", q.conn = req[r].conn,
           q.pc \in Working => q.op = req[r].op /\ q.target = req[r].target,
           \A x \in Requests \ {r} : Creates(req[x]) => users'[req[x].target] = None
    PROVE  RequestInv'
<1>1. \A x \in Requests \ {r} : req[x].pc # "idle" => req[x].conn # q.conn
  BY DEF RequestInv, Apart, Working
<1>2. Creates(q) => \A x \in Requests \ {r} : Creates(req[x]) => req[x].target # q.target
  BY DEF RequestInv, Apart, Creates
<1> QED
  BY <1>1, <1>2, OneStep

\* As long as nothing is committed the tables are as they were.
LEMMA NoCommit ==
    ASSUME RequestInv, UNCHANGED <<users, tenants>>
    PROVE  Grown /\ \A x \in Requests : Creates(req[x]) => users'[req[x].target] = None
BY DEF RequestInv, Good, Asked, Creates, Grown

\* The answer of a request.
LEMMA Answers ==
    ASSUME RequestInv, Grown, NEW r \in Requests, req[r].pc \in Working, NEW code,
           Answer(r, code), req[r].foreign => code \in {401, 403, 500}, DOMAIN ctx' = Conns,
           \A c \in Conns : c # req[r].conn => ctx'[c] = ctx[c],
           \A x \in Requests \ {r} : Creates(req[x]) => users'[req[x].target] = None
    PROVE  RequestInv'
<1> DEFINE q == [Idle EXCEPT !.pc = "answer", !.code = code, !.conn = req[r].conn,
                             !.foreign = req[r].foreign]
<1>1. req' = [req EXCEPT ![r] = q]
  BY DEF Answer
<1>2. /\ DOMAIN q = Fields /\ q.pc = "answer" /\ q.code = code /\ q.conn = req[r].conn
      /\ q.foreign = req[r].foreign /\ q.target = None
  BY DEF Idle, Fields
<1>3. req[r].conn \in Conns
  BY DEF RequestInv, Good, Asked, Working
<1> HIDE DEF q
<1>p. PICK p : p = q
  OBVIOUS
<1>4. Good(p)'
  BY <1>p, <1>2, <1>3 DEF Good, Asked, Copied, Prepared, Working
<1>5. p.pc \notin Working /\ p.pc # "idle"
  BY <1>p, <1>2 DEF Working
<1> QED
  BY <1>p, <1>1, <1>2, <1>4, <1>5, GoesOn

\* A failure at any stage.
LEMMA FailStep ==
    ASSUME RequestInv, NEW r \in Requests, Fail(r)
    PROVE  RequestInv'
<1>1. /\ req[r].pc \in Working /\ Answer(r, 500) /\ ctx' = ctx /\ UNCHANGED <<users, tenants>>
  BY DEF Fail, Working
<1>2. DOMAIN ctx = Conns
  BY DEF RequestInv
<1> QED
  BY <1>1, <1>2, NoCommit, Answers

\* The session is closed and its connection goes back.
LEMMA ReleaseStep ==
    ASSUME RequestInv, NEW r \in Requests, Release(r)
    PROVE  RequestInv'
<1>0. /\ req[r].pc = "answer" /\ UNCHANGED <<users, tenants>>
      /\ ctx' = [ctx EXCEPT ![req[r].conn] = Clean] /\ req' = [req EXCEPT ![r] = Idle]
  BY DEF Release, Released
<1>1. req[r].conn \in Conns /\ DOMAIN ctx = Conns
  BY <1>0 DEF RequestInv, Good, Asked
<1>2. Good(Idle)' /\ Idle.pc = "idle" /\ Idle.conn = None
  <2>1. DOMAIN Idle = Fields /\ Idle.pc = "idle" /\ Idle.conn = None /\ Idle.target = None
    BY DEF Idle, Fields
  <2> QED
    BY <2>1 DEF Good, Asked, Copied, Prepared, Working
<1>3. ~Creates(Idle)
  BY <1>2 DEF Creates, Working
<1>4. /\ DOMAIN ctx' = Conns /\ \A c \in Conns : c # req[r].conn => ctx'[c] = ctx[c]
      /\ ctx'[req[r].conn] = Clean
  BY <1>0, <1>1
<1> QED
  BY <1>0, <1>2, <1>3, <1>4, NoCommit, OneStep

\* A new request has a connection of its own, and its new row is its own.
LEMMA BeginStep ==
    ASSUME RequestInv, NEW r \in Requests, Begin(r)
    PROVE  RequestInv'
<1>0. req[r].pc = "idle" /\ UNCHANGED <<users, tenants, ctx>>
  BY DEF Begin
<1>1. PICK c \in Conns \ {req[x].conn : x \in Requests}, u \in {v \in Users : users[v] # None},
           job \in UserJobs \cup TenantJobs \cup CreateJobs :
        /\ job \in CreateJobs => \A x \in Requests : req[x].target # job.target
        /\ req' = [req EXCEPT ![r] =
                    [Idle EXCEPT !.pc = "caller", !.conn = c, !.user = u, !.op = job.op,
                                 !.target = job.target, !.body = job.body,
                                 !.foreign = Foreign(users[u], job)]]
  BY DEF Begin
<1> DEFINE q == [Idle EXCEPT !.pc = "caller", !.conn = c, !.user = u, !.op = job.op,
                             !.target = job.target, !.body = job.body,
                             !.foreign = Foreign(users[u], job)]
<1>2. /\ DOMAIN q = Fields /\ q.pc = "caller" /\ q.conn = c /\ q.user = u /\ q.op = job.op
      /\ q.target = job.target /\ q.body = job.body
      /\ q.foreign = Foreign(users[u], job)
  BY DEF Idle, Fields
<1>3. /\ job.op \in OnUsers \cup OnTenants
      /\ job.op \in OnUsers => job.target \in Users
      /\ job.op \in OnTenants => job.target \in Tenants
      /\ job.op = "create_user" => job \in CreateJobs /\ users[job.target] = None /\ job.body \in NewUsers
      /\ job.op = "patch_user" => job.body \in UserPatches
      /\ job.op = "create_tenant" => job.body \in NewTenants
      /\ job.op = "patch_tenant" => job.body \in TenantPatches
  <2>1. CASE job \in UserJobs
    BY <2>1 DEF UserJobs, OnUsers, OnTenants, UserOps, TenantOps
  <2>2. CASE job \in TenantJobs
    BY <2>2 DEF TenantJobs, OnUsers, OnTenants, UserOps, TenantOps
  <2>3. CASE job \in CreateJobs
    BY <2>3 DEF CreateJobs, OnUsers, OnTenants, UserOps, TenantOps
  <2> QED
    BY <2>1, <2>2, <2>3
<1>4. req' = [req EXCEPT ![r] = q]
  BY <1>1
<1>p. PICK p : p = q
  OBVIOUS
<1> HIDE DEF q
<1>5. Good(p)'
  BY <1>0, <1>p, <1>2, <1>3 DEF Good, Asked, Copied, Prepared, Working, Foreign
<1>6. \A x \in Requests : req[x].conn # p.conn
  BY <1>p, <1>2
<1>7. Creates(p) => \A x \in Requests : req[x].target # p.target
  BY <1>p, <1>1, <1>2, <1>3 DEF Creates
<1>8. req[r].conn \notin Conns /\ DOMAIN ctx = Conns
  BY <1>0, NoneIsNoRow DEF RequestInv, Good, Asked
<1>9. p.pc # "idle"
  BY <1>p, <1>2
<1> QED
  BY <1>0, <1>p, <1>4, <1>5, <1>6, <1>7, <1>8, <1>9, NoCommit, OneStep

\* The caller is looked up and the connection is scoped to it.
LEMMA CallerStep ==
    ASSUME Tables, RequestInv, NEW r \in Requests, GetCurrentUser(r)
    PROVE  RequestInv'
<1> DEFINE row == users[req[r].user]
<1>0. req[r].pc = "caller" /\ UNCHANGED <<users, tenants>> /\ req[r].pc \in Working
  BY DEF GetCurrentUser, Working
<1>1. /\ DOMAIN ctx = Conns /\ req[r].conn \in Conns /\ row \in UserRows
      /\ DOMAIN req[r] = Fields /\ Asked(req[r])
  BY <1>0 DEF RequestInv, Good, Asked, Tables
<1>2. CASE Refused(row) \/ ~Permitted(req[r].op, row)
  <2>1. /\ Answer(r, IF Refused(row) THEN 401 ELSE 403)
        /\ ctx' = [ctx EXCEPT ![req[r].conn] = Elevated]
    BY <1>2 DEF GetCurrentUser
  <2>2. PICK code : Answer(r, code) /\ code \in {401, 403, 500}
    BY <2>1
  <2>3. DOMAIN ctx' = Conns /\ \A c \in Conns : c # req[r].conn => ctx'[c] = ctx[c]
    BY <1>1, <2>1
  <2> QED
    BY <1>0, <2>2, <2>3, NoCommit, Answers
<1>3. CASE ~(Refused(row) \/ ~Permitted(req[r].op, row))
  <2>1. PICK l \in {"target", "policy"} :
          /\ req' = [req EXCEPT ![r] = [req[r] EXCEPT !.caller = row, !.pc = l]]
          /\ l = "policy" => req[r].op \notin UserOps \cup TenantOps
    BY <1>3 DEF GetCurrentUser
  <2>2. ctx' = [ctx EXCEPT ![req[r].conn] = Scope(row)]
    BY <1>3 DEF GetCurrentUser
  <2> DEFINE q == [req[r] EXCEPT !.caller = row, !.pc = l]
  <2>3. /\ DOMAIN q = Fields /\ q.pc = l /\ q.caller = row /\ q.conn = req[r].conn
        /\ q.user = req[r].user /\ q.op = req[r].op /\ q.target = req[r].target
        /\ q.body = req[r].body /\ q.foreign = req[r].foreign
    BY <1>1 DEF Fields
  <2>p. PICK p : p = q
    OBVIOUS
  <2> HIDE DEF q
  <2>4. Asked(p)
    BY <1>0, <1>1, <2>1, <2>p, <2>3 DEF Asked, Working, Foreign
  <2>5. Asked(p)'
    BY <1>0, <2>4 DEF Asked, Foreign
  <2>6. Copied(p)'
    BY <1>0, <1>1, <2>1, <2>2, <2>p, <2>3 DEF Copied, Working
  <2>7. Prepared(p)'
    BY <2>p, <2>3 DEF Prepared
  <2>8. DOMAIN ctx' = Conns /\ \A c \in Conns : c # req[r].conn => ctx'[c] = ctx[c]
    BY <1>1, <2>2
  <2>9. Good(p)' /\ p.pc # "idle" /\ p.conn = req[r].conn /\ p.op = req[r].op /\ p.target = req[r].target
    BY <2>5, <2>6, <2>7, <2>p, <2>3 DEF Good
  <2>10. req' = [req EXCEPT ![r] = p]
    BY <2>1, <2>p DEF q
  <2> QED
    BY <1>0, <2>8, <2>9, <2>10, NoCommit, GoesOn
<1> QED
  BY <1>2, <1>3

\* The connection is elevated for the lookup, and the request goes on with its copy.
LEMMA ElevateStep ==
    ASSUME RequestInv, NEW r \in Requests, Elevate(r)
    PROVE  RequestInv'
<1>0. /\ req[r].pc = "target" /\ req[r].pc \in Working /\ UNCHANGED <<users, tenants>>
      /\ req[r].op \in UserOps /\ ~req[r].caller.is_superadmin
      /\ ctx' = [ctx EXCEPT ![req[r].conn] = Elevated]
  BY DEF Elevate, Working
<1>1. /\ DOMAIN ctx = Conns /\ req[r].conn \in Conns /\ DOMAIN req[r] = Fields
      /\ Asked(req[r]) /\ Copied(req[r])
  BY <1>0 DEF RequestInv, Good, Asked
<1> DEFINE q == [req[r] EXCEPT !.pc = "lookup"]
<1>2. req' = [req EXCEPT ![r] = q]
  BY DEF Elevate
<1>3. /\ DOMAIN q = Fields /\ q.pc = "lookup" /\ q.conn = req[r].conn
      /\ q.user = req[r].user /\ q.op = req[r].op /\ q.target = req[r].target
      /\ q.body = req[r].body /\ q.foreign = req[r].foreign /\ q.caller = req[r].caller
  BY <1>1 DEF Fields
<1>p. PICK p : p = q
  OBVIOUS
<1> HIDE DEF q
<1>4. Asked(p)'
  <2>1. Asked(p)
    BY <1>0, <1>1, <1>p, <1>3 DEF Asked, Working, Foreign
  <2> QED
    BY <1>0, <2>1 DEF Asked, Foreign
<1>5. Copied(p)'
  BY <1>0, <1>1, <1>p, <1>3 DEF Copied, Working
<1>6. Prepared(p)'
  BY <1>p, <1>3 DEF Prepared
<1>7. DOMAIN ctx' = Conns /\ \A c \in Conns : c # req[r].conn => ctx'[c] = ctx[c]
  BY <1>0, <1>1
<1>8. Good(p)' /\ p.pc # "idle" /\ p.conn = req[r].conn /\ p.op = req[r].op /\ p.target = req[r].target
  BY <1>4, <1>5, <1>6, <1>p, <1>3 DEF Good
<1>9. req' = [req EXCEPT ![r] = p]
  BY <1>2, <1>p
<1> QED
  BY <1>0, <1>7, <1>8, <1>9, NoCommit, GoesOn

\* The row is read: row-level security has no say in the lookup of a user.
LEMMA TargetStep ==
    ASSUME Tables, RequestInv, NEW r \in Requests, GetUserForAdmin(r) \/ GetTenantForAdmin(r)
    PROVE  RequestInv'
<1> DEFINE row == IF req[r].op \in UserOps THEN users[req[r].target] ELSE tenants[req[r].target]
<1>0. /\ req[r].pc \in {"target", "lookup"} /\ req[r].pc \in Working
      /\ UNCHANGED <<users, tenants>>
      /\ GetUserForAdmin(r) => req[r].op \in UserOps
      /\ GetTenantForAdmin(r) => req[r].op \in TenantOps /\ req[r].pc = "target"
  BY DEF GetUserForAdmin, GetTenantForAdmin, Working
<1>1. /\ DOMAIN ctx = Conns /\ req[r].conn \in Conns /\ DOMAIN req[r] = Fields
      /\ Asked(req[r]) /\ Copied(req[r])
      /\ req[r].caller \in UserRows
      /\ req[r].caller.is_superadmin = users[req[r].user].is_superadmin
      /\ req[r].caller.tenant_id = users[req[r].user].tenant_id
      /\ req[r].pc = "target" => ctx[req[r].conn] = Scope(req[r].caller)
      /\ req[r].foreign => Foreign(users[req[r].user], req[r])
  BY <1>0 DEF RequestInv, Good, Asked, Copied, Working
<1>2. /\ \/ ctx' = ctx /\ req[r].pc = "target"
         \/ ctx' = [ctx EXCEPT ![req[r].conn] = Scope(req[r].caller)]
      /\ \A c \in Conns : c # req[r].conn => ctx'[c] = ctx[c]
      /\ DOMAIN ctx' = Conns
  BY <1>0, <1>1 DEF GetUserForAdmin, GetTenantForAdmin, Restored
<1>2a. DOMAIN ctx' = Conns /\ ctx'[req[r].conn] = Scope(req[r].caller)
  BY <1>1, <1>2
<1>3. \/ \E code : Answer(r, code) /\ (req[r].foreign => code \in {401, 403, 500})
      \/ /\ row # None /\ ~req[r].foreign
         /\ req' = [req EXCEPT ![r] = [req[r] EXCEPT !.pc = "policy", !.row = row]]
  <2>1. CASE GetUserForAdmin(r)
    <3>1. req[r].foreign => row # None /\ OtherTenant(req[r], row)
      BY <1>0, <1>1, <2>1 DEF Foreign, OtherTenant, UserOps, TenantOps
    <3>2. row = users[req[r].target]
      BY <1>0, <2>1
    <3>3. \/ row = None /\ Answer(r, 404)
          \/ Answer(r, 403)
          \/ /\ row # None /\ ~OtherTenant(req[r], row)
             /\ req' = [req EXCEPT ![r].pc = "policy", ![r].row = row]
      BY <2>1, <3>2 DEF GetUserForAdmin
    <3>4. [req EXCEPT ![r].pc = "policy", ![r].row = row] =
            [req EXCEPT ![r] = [req[r] EXCEPT !.pc = "policy", !.row = row]]
      OBVIOUS
    <3> HIDE DEF row
    <3> QED
      BY <3>1, <3>3, <3>4
  <2>2. CASE GetTenantForAdmin(r)
    <3>1. req[r].op \in TenantOps /\ req[r].op \notin UserOps
      BY <1>0, <2>2 DEF UserOps, TenantOps
    <3>2. req[r].foreign => ~req[r].caller.is_superadmin /\ req[r].target # req[r].caller.tenant_id
      BY <1>1, <3>1 DEF Foreign
    <3>3. \/ Answer(r, 403)
          \/ ~req[r].foreign /\ Answer(r, 404)
          \/ /\ row # None /\ ~req[r].foreign
             /\ req' = [req EXCEPT ![r].pc = "policy", ![r].row = row]
      BY <2>2, <3>1, <3>2 DEF GetTenantForAdmin, SeesTenant
    <3>4. [req EXCEPT ![r].pc = "policy", ![r].row = row] =
            [req EXCEPT ![r] = [req[r] EXCEPT !.pc = "policy", !.row = row]]
      OBVIOUS
    <3> HIDE DEF row
    <3> QED
      BY <3>3, <3>4
  <2> QED
    BY <2>1, <2>2
<1>4. ASSUME NEW code, Answer(r, code), req[r].foreign => code \in {401, 403, 500}
      PROVE  RequestInv'
  BY <1>0, <1>2, <1>2a, <1>4, NoCommit, Answers
<1>5. ASSUME row # None, ~req[r].foreign,
             req' = [req EXCEPT ![r] = [req[r] EXCEPT !.pc = "policy", !.row = row]]
      PROVE  RequestInv'
  <2>1. /\ req[r].op \in UserOps => row = users[req[r].target] /\ row \in UserRows
        /\ req[r].op \in TenantOps => row = tenants[req[r].target] /\ row \in TenantRows
    BY <1>0, <1>1, <1>5 DEF Asked, Tables, UserOps, TenantOps, OnUsers, OnTenants
  <2> HIDE DEF row
  <2> DEFINE q == [req[r] EXCEPT !.pc = "policy", !.row = row]
  <2>3. /\ DOMAIN q = Fields /\ q.pc = "policy" /\ q.row = row /\ q.conn = req[r].conn
        /\ q.user = req[r].user /\ q.op = req[r].op /\ q.target = req[r].target
        /\ q.body = req[r].body /\ q.foreign = req[r].foreign /\ q.caller = req[r].caller
    BY <1>1 DEF Fields
  <2>p. PICK p : p = q
    OBVIOUS
  <2> HIDE DEF q
  <2>4. Asked(p)
    BY <1>0, <1>1, <1>5, <2>p, <2>3 DEF Asked, Working
  <2>5. Asked(p)'
    BY <1>0, <2>4 DEF Asked, Foreign
  <2>6. Copied(p)'
    BY <1>0, <1>1, <1>2a, <1>5, <2>1, <2>p, <2>3 DEF Copied, Working
  <2>7. Prepared(p)'
    BY <2>p, <2>3 DEF Prepared
  <2>9. Good(p)' /\ p.pc # "idle" /\ p.conn = req[r].conn /\ p.op = req[r].op /\ p.target = req[r].target
    BY <2>5, <2>6, <2>7, <2>p, <2>3 DEF Good
  <2>10. req' = [req EXCEPT ![r] = p]
    BY <1>5, <2>p DEF q
  <2> QED
    BY <1>0, <1>2, <1>2a, <2>9, <2>10, NoCommit, GoesOn
<1> QED
  BY <1>3, <1>4, <1>5

-----------------------------------------------------------------------------
(* Policies *)

\* What the policies let through to a user: patching and deactivating somebody who
\* is superadmin is for another superadmin.
LEMMA UserPolicy ==
    ASSUME NEW p, Asked(p), Copied(p), p.pc = "policy", p.op \in OnUsers, Code(p) = 200,
           p.op # "get_user",
           NEW q, q.op = p.op, q.body = p.body, q.row = p.row, q.caller = p.caller,
           q.target = p.target, q.user = p.user, q.change = Change(p)
    PROVE  UserChange(q)
<1> USE DEF OnUsers, UserOps
<1>1. CASE p.op = "create_user"
  <2>1. q.change = [tenant_id |-> p.body.tenant_id, email |-> p.body.email, role |-> p.body.role,
                    is_active |-> TRUE, is_superadmin |-> FALSE]
    BY <1>1 DEF Change
  <2>2. p.body \in [tenant_id : Tenants, email : Emails, role : DOMAIN ROLE_HIERARCHY]
    BY <1>1, BodiesAssumption DEF Asked, Working, BodiesAssumption
  <2>3. p.body.tenant_id \in Tenants /\ p.body.tenant_id # None
    BY <2>2, NoneIsNoRow
  <2>4. q.change \in UserRows /\ q.change.is_active
    <3>1. q.change \in [tenant_id : Tenants \cup {None}, email : Emails,
                        role : DOMAIN ROLE_HIERARCHY, is_active : BOOLEAN, is_superadmin : BOOLEAN]
      BY <2>1, <2>2
    <3>2. q.change.tenant_id # None /\ q.change.is_superadmin = FALSE /\ q.change.is_active
      BY <2>1, <2>3
    <3> QED
      BY <3>1, <3>2 DEF UserRows
  <2> QED
    BY <1>1, <2>4 DEF UserChange
<1>2. CASE p.op = "patch_user"
  <2>0. p.row \in UserRows /\ p.caller \in UserRows
    BY <1>2 DEF Copied, Working
  <2>1. IsUserPatch(p.body)
    BY <1>2, BodiesAssumption DEF Asked, Working, BodiesAssumption
  <2>2. q.change = [f \in {g \in DOMAIN p.body : p.body[g] # p.row[g]} |-> p.body[f]]
    BY <1>2 DEF Change, Changed
  <2>3. /\ DOMAIN q.change \subseteq DOMAIN p.body
        /\ \A f \in DOMAIN q.change : q.change[f] = p.body[f] /\ p.body[f] # p.row[f]
    BY <2>2
  <2>4. IsUserPatch(q.change)
    BY <2>1, <2>3 DEF IsUserPatch
  <2>5. Deactivation(q) => "is_active" \in DOMAIN p.body /\ ~p.body["is_active"] /\ p.row.is_active
    BY <2>0, <2>1, <2>3 DEF Deactivation, IsUserPatch, UserRows
  <2>6. Deactivation(q) => Deactivates(q)
    BY <1>2, <2>5 DEF Deactivates, Sent
  <2>7. PatchUserCode(p) = 200
    BY <1>2 DEF Code
  <2>8. /\ ~(p.caller.is_superadmin /\ DeactivatesSelf(p))
        /\ ~(~p.caller.is_superadmin /\ p.target = p.user /\ (Sent(p, "role") \/ Sent(p, "is_active")))
        /\ ~(~p.caller.is_superadmin /\ p.target # p.user /\ ~AdminMayPatch(p))
    BY <2>7 DEF PatchUserCode
  <2>9. Deactivation(q) /\ q.row.is_superadmin => q.caller.is_superadmin /\ q.target # q.user
    BY <2>5, <2>8 DEF DeactivatesSelf, Sent, AdminMayPatch
  <2> QED
    BY <1>2, <2>4, <2>6, <2>9 DEF UserChange
<1>3. CASE p.op = "delete_user"
  <2>1. q.change = [is_active |-> FALSE]
    BY <1>3 DEF Change
  <2>2. IsUserPatch(q.change)
    BY <2>1 DEF IsUserPatch
  <2>3. DeleteUserCode(p) = 200
    BY <1>3 DEF Code
  <2>4. p.target # p.user /\ (~p.caller.is_superadmin => ~p.row.is_superadmin)
    BY <2>3 DEF DeleteUserCode
  <2>5. Deactivates(q)
    BY <1>3 DEF Deactivates
  <2> QED
    BY <1>3, <2>2, <2>4, <2>5 DEF UserChange
<1> QED
  BY <1>1, <1>2, <1>3

\* There is a least among natural numbers.
LEMMA LeastExists ==
    ASSUME NEW S \in SUBSET Nat, S # {}
    PROVE  Min(S) \in S
<1>1. PICK k \in S : \A j \in S : ~ (<<j, k>> \in OpToRel(<, Nat))
  BY NatLessThanWellFounded, WFMin
<1>2. \A j \in S : k <= j
  <2>1. \A j \in S : ~(j < k)
    BY <1>1 DEF OpToRel
  <2> QED
    BY <2>1
<1> QED
  BY <1>2 DEF Min

\* The plan and the limit that a PATCH leaves belong together if those that it read did.
LEMMA TenantPolicy ==
    ASSUME NEW p, Asked(p), Copied(p), p.pc = "policy", p.op \in OnTenants, Code(p) = 200,
           p.op # "get_tenant",
           NEW q, q.op = p.op, q.body = p.body, q.row = p.row, q.change = Change(p)
    PROVE  TenantChange(q)
<1> USE DEF OnTenants, TenantOps
<1>1. CASE p.op = "create_tenant"
  <2>1. q.change = [slug |-> Slug(p), plan |-> p.body.plan,
                    max_assets |-> _PLAN_MAX_ASSETS[p.body.plan], is_active |-> TRUE]
    BY <1>1 DEF Change
  <2>2. p.body.slugs \in Seq(Slugs) /\ p.body.plan \in Plans
    BY <1>1, BodiesAssumption DEF Asked, Working, BodiesAssumption
  <2>3. FreeSlugs(p) # {} /\ FreeSlugs(p) \in SUBSET (DOMAIN p.body.slugs)
    BY <1>1 DEF Code, CreateTenantCode, FreeSlugs
  <2>4. DOMAIN p.body.slugs \in SUBSET Nat
    BY <2>2
  <2>5. Min(FreeSlugs(p)) \in DOMAIN p.body.slugs
    BY <2>3, <2>4, LeastExists
  <2>6. Slug(p) \in Slugs
    BY <2>2, <2>5 DEF Slug
  <2>7. _PLAN_MAX_ASSETS[p.body.plan] \in Nat \ {0}
    BY <2>2, Limits
  <2>8. q.change \in TenantRows
    BY <2>1, <2>2, <2>6, <2>7 DEF TenantRows
  <2>9. Within(q.change.max_assets, q.change.plan)
    BY <2>1, <2>7 DEF Within
  <2> QED
    BY <1>1, <2>8, <2>9 DEF TenantChange
<1>2. CASE p.op = "patch_tenant"
  <2>0. p.row \in TenantRows
    BY <1>2 DEF Copied
  <2>1. IsTenantPatch(p.body)
    BY <1>2, BodiesAssumption DEF Asked, Working, BodiesAssumption
  <2> DEFINE w == WantedTenant(p)
  <2>2. IsTenantPatch(w)
    <3>1. CASE Sent(p, "plan") /\ ~Sent(p, "max_assets")
      <4>1. w = [f \in DOMAIN p.body \cup {"max_assets"} |->
                  IF f = "max_assets" THEN _PLAN_MAX_ASSETS[p.body.plan] ELSE p.body[f]]
        BY <3>1 DEF WantedTenant
      <4>2. _PLAN_MAX_ASSETS[p.body.plan] \in Nat \ {0}
        BY <2>1, <3>1, Limits DEF IsTenantPatch, Sent
      <4> QED
        BY <2>1, <4>1, <4>2 DEF IsTenantPatch
    <3>2. CASE ~(Sent(p, "plan") /\ ~Sent(p, "max_assets"))
      BY <2>1, <3>2 DEF WantedTenant
    <3> QED
      BY <3>1, <3>2
  <2>3. q.change = [f \in {g \in DOMAIN w : w[g] # p.row[g]} |-> w[f]]
    BY <1>2 DEF Change, Changed
  <2>4. /\ DOMAIN q.change \subseteq DOMAIN w
        /\ \A f \in DOMAIN q.change : q.change[f] = w[f]
    BY <2>3
  <2>5. IsTenantPatch(q.change)
    BY <2>2, <2>4 DEF IsTenantPatch
  <2>6. \A f : Column(q, f) = IF f \in DOMAIN w THEN w[f] ELSE p.row[f]
    BY <2>3 DEF Column
  <2>7. Sent(p, "max_assets") => p.body.max_assets \in Nat /\ p.body.max_assets <= _PLAN_MAX_ASSETS[EffectivePlan(p)]
    <3>1. PatchTenantCode(p) = 200
      BY <1>2 DEF Code
    <3>2. EffectivePlan(p) \in Plans
      BY <2>0, <2>1 DEF EffectivePlan, Sent, IsTenantPatch, TenantRows
    <3>3. _PLAN_MAX_ASSETS[EffectivePlan(p)] \in Nat
      BY <3>2, Limits
    <3>4. Sent(p, "max_assets") => p.body.max_assets \in Nat
      BY <2>1 DEF Sent, IsTenantPatch
    <3> QED
      BY <3>1, <3>3, <3>4 DEF PatchTenantCode
  <2>8. Column(q, "plan") = EffectivePlan(p)
    BY <2>6 DEF EffectivePlan, Sent, WantedTenant
  <2>9. Within(p.row.max_assets, p.row.plan) => Within(Column(q, "max_assets"), Column(q, "plan"))
    <3>1. CASE Sent(p, "max_assets")
      <4>1. Column(q, "max_assets") = p.body.max_assets
        BY <2>6, <3>1 DEF WantedTenant, Sent
      <4> QED
        BY <2>7, <2>8, <3>1, <4>1 DEF Within
    <3>2. CASE ~Sent(p, "max_assets") /\ Sent(p, "plan")
      <4>1. Column(q, "max_assets") = _PLAN_MAX_ASSETS[p.body.plan] /\ Column(q, "plan") = p.body.plan
        BY <2>6, <2>8, <3>2 DEF WantedTenant, Sent, EffectivePlan
      <4>2. _PLAN_MAX_ASSETS[p.body.plan] \in Nat
        BY <2>1, <3>2, Limits DEF IsTenantPatch, Sent
      <4> QED
        BY <4>1, <4>2 DEF Within
    <3>3. CASE ~Sent(p, "max_assets") /\ ~Sent(p, "plan")
      <4>1. Column(q, "max_assets") = p.row.max_assets /\ Column(q, "plan") = p.row.plan
        BY <2>6, <2>8, <3>3 DEF WantedTenant, Sent, EffectivePlan
      <4> QED
        BY <4>1
    <3> QED
      BY <3>1, <3>2, <3>3
  <2> QED
    BY <1>2, <2>5, <2>9 DEF TenantChange
<1>3. CASE p.op = "delete_tenant"
  <2>1. q.change = [is_active |-> FALSE]
    BY <1>3 DEF Change
  <2>2. IsTenantPatch(q.change) /\ DOMAIN q.change = {"is_active"}
    BY <2>1 DEF IsTenantPatch
  <2>3. Column(q, "max_assets") = q.row.max_assets /\ Column(q, "plan") = q.row.plan
    BY <2>2 DEF Column
  <2> QED
    BY <1>3, <2>2, <2>3 DEF TenantChange
<1> QED
  BY <1>1, <1>2, <1>3

\* The route decides.
LEMMA DecideStep ==
    ASSUME RequestInv, NEW r \in Requests, Decide(r)
    PROVE  RequestInv'
<1>0. /\ req[r].pc = "policy" /\ req[r].pc \in Working /\ UNCHANGED <<users, tenants, ctx>>
  BY DEF Decide, Working
<1>1. /\ DOMAIN ctx = Conns /\ DOMAIN req[r] = Fields /\ Asked(req[r]) /\ Copied(req[r])
      /\ req[r].op \in OnUsers \cup OnTenants
  BY <1>0 DEF RequestInv, Good, Asked
<1>2. CASE Code(req[r]) # 200 \/ req[r].op \in {"get_user", "get_tenant"}
  <2>1. Answer(r, Code(req[r]))
    BY <1>2 DEF Decide
  <2>2. ~req[r].foreign
    BY <1>0, <1>1 DEF Asked, Working
  <2>4. PICK code : Answer(r, code) /\ ~req[r].foreign
    BY <2>1, <2>2
  <2> QED
    BY <1>0, <1>1, <2>4, NoCommit, Answers
<1>3. CASE Code(req[r]) = 200 /\ req[r].op \notin {"get_user", "get_tenant"}
  <2> DEFINE q == [req[r] EXCEPT !.pc = "flush", !.change = Change(req[r])]
  <2>1. req' = [req EXCEPT ![r] = q]
    <3>1. req' = [req EXCEPT ![r].pc = "flush", ![r].change = Change(req[r])]
      BY <1>3 DEF Decide
    <3> QED
      BY <3>1
  <2>3. /\ DOMAIN q = Fields /\ q.pc = "flush" /\ q.row = req[r].row /\ q.conn = req[r].conn
        /\ q.user = req[r].user /\ q.op = req[r].op /\ q.target = req[r].target
        /\ q.body = req[r].body /\ q.foreign = req[r].foreign /\ q.caller = req[r].caller
        /\ q.change = Change(req[r])
    BY <1>1 DEF Fields
  <2>p. PICK p : p = q
    OBVIOUS
  <2> HIDE DEF q
  <2>4. Asked(p)
    BY <1>0, <1>1, <2>p, <2>3 DEF Asked, Working
  <2>5. Asked(p)'
    BY <1>0, <2>4 DEF Asked, Foreign
  <2>6. Copied(p)'
    <3>1. Copied(p)
      BY <1>0, <1>1, <2>p, <2>3 DEF Copied, Working
    <3> QED
      BY <3>1, <1>0 DEF Copied
  <2>7. UserChange(p) /\ TenantChange(p)
    <3>o. PICK o : o = req[r]
      OBVIOUS
    <3>1. ASSUME o.op \in OnUsers PROVE UserChange(p) /\ TenantChange(p)
      <4>1. UserChange(p)
        BY <1>0, <1>1, <1>3, <2>p, <2>3, <3>o, <3>1, UserPolicy
      <4>2. TenantChange(p)
        BY <3>1, <3>o, <2>p, <2>3 DEF TenantChange, OnUsers, UserOps
      <4> QED
        BY <4>1, <4>2
    <3>2. ASSUME o.op \in OnTenants PROVE UserChange(p) /\ TenantChange(p)
      <4>1. TenantChange(p)
        BY <1>0, <1>1, <1>3, <2>p, <2>3, <3>o, <3>2, TenantPolicy
      <4>2. UserChange(p)
        BY <3>2, <3>o, <2>p, <2>3 DEF UserChange, OnTenants, TenantOps
      <4> QED
        BY <4>1, <4>2
    <3> QED
      BY <1>1, <3>o, <3>1, <3>2
  <2>8. Prepared(p)'
    BY <1>3, <2>p, <2>3, <2>7 DEF Prepared
  <2>9. Good(p)' /\ p.pc # "idle" /\ p.conn = req[r].conn /\ p.op = req[r].op /\ p.target = req[r].target
    BY <2>5, <2>6, <2>8, <2>p, <2>3 DEF Good
  <2>10. req' = [req EXCEPT ![r] = p]
    BY <2>1, <2>p
  <2> QED
    BY <1>0, <1>1, <2>9, <2>10, NoCommit, GoesOn
<1> QED
  BY <1>2, <1>3

\* The change is flushed and the sessions are revoked.
LEMMA FlushStep ==
    ASSUME RequestInv, NEW r \in Requests, Flush(r)
    PROVE  RequestInv'
<1>0. /\ req[r].pc = "flush" /\ req[r].pc \in Working /\ UNCHANGED <<users, tenants, ctx>>
  BY DEF Flush, Working
<1>1. /\ DOMAIN ctx = Conns /\ DOMAIN req[r] = Fields /\ Asked(req[r]) /\ Copied(req[r])
      /\ Prepared(req[r]) /\ req[r].op \in OnUsers \cup OnTenants
  BY <1>0 DEF RequestInv, Good, Asked
<1>2. CASE Duplicate(req[r]) \/ Hidden(req[r])
  <2>1. PICK code : Answer(r, code) /\ ~req[r].foreign
    BY <1>0, <1>1, <1>2 DEF Flush, Asked, Working
  <2> QED
    BY <1>0, <1>1, <2>1, NoCommit, Answers
<1>3. CASE ~(Duplicate(req[r]) \/ Hidden(req[r]))
  <2> DEFINE q == [req[r] EXCEPT !.pc = "commit", !.locks = Locks(req[r]), !.denied = Revoked(req[r])]
  <2>1. req' = [req EXCEPT ![r] = q]
    BY <1>3 DEF Flush
  <2>3. /\ DOMAIN q = Fields /\ q.pc = "commit" /\ q.row = req[r].row /\ q.conn = req[r].conn
        /\ q.user = req[r].user /\ q.op = req[r].op /\ q.target = req[r].target
        /\ q.body = req[r].body /\ q.foreign = req[r].foreign /\ q.caller = req[r].caller
        /\ q.change = req[r].change /\ q.denied = Revoked(req[r])
    BY <1>1 DEF Fields
  <2>p. PICK p : p = q
    OBVIOUS
  <2> HIDE DEF q
  <2>4. Asked(p)
    BY <1>0, <1>1, <2>p, <2>3 DEF Asked, Working
  <2>5. Asked(p)'
    BY <1>0, <2>4 DEF Asked, Foreign
  <2>6. Copied(p)'
    <3>1. Copied(p)
      BY <1>0, <1>1, <2>p, <2>3 DEF Copied, Working
    <3> QED
      BY <3>1, <1>0 DEF Copied
  <2>7. p.op \notin {"get_user", "get_tenant"} /\ UserChange(p) /\ TenantChange(p)
    <3>1. req[r].op \notin {"get_user", "get_tenant"} /\ UserChange(req[r]) /\ TenantChange(req[r])
      BY <1>0, <1>1 DEF Prepared
    <3> QED
      BY <3>1, <2>p, <2>3 DEF UserChange, TenantChange, Deactivation, Deactivates, Sent, Column
  <2>8. Deactivates(p) <=> Deactivates(req[r])
    BY <2>p, <2>3 DEF Deactivates, Sent
  <2>9. p.op \in UserOps /\ Deactivates(p) => p.denied = {p.target}
    BY <2>p, <2>3, <2>8 DEF Revoked
  <2>10. p.op \in OnTenants =>
          \A u \in p.denied : u \in Users /\ users[u] # None /\ users[u].tenant_id = p.target
    BY <2>p, <2>3 DEF Revoked, OnTenants, TenantOps, UserOps
  <2>11. Prepared(p)'
    BY <1>0, <2>7, <2>9, <2>10 DEF Prepared
  <2>12. Good(p)' /\ p.pc # "idle" /\ p.conn = req[r].conn /\ p.op = req[r].op /\ p.target = req[r].target
    BY <2>5, <2>6, <2>11, <2>p, <2>3 DEF Good
  <2>13. req' = [req EXCEPT ![r] = p]
    BY <2>1, <2>p
  <2> QED
    BY <1>0, <1>1, <2>12, <2>13, NoCommit, GoesOn
<1> QED
  BY <1>2, <1>3

-----------------------------------------------------------------------------
(* Commits *)

\* The commit of a user.
LEMMA UserCommit ==
    ASSUME AccessInv, NEW r \in Requests, NEW p, p = req[r], Good(p), Commit(r), p.op \in OnUsers
    PROVE  /\ Tables' /\ Grown /\ PlanLimitHolds'
           /\ \A x \in Requests \ {r} : Creates(req[x]) => users'[req[x].target] = None
           /\ \A u \in Users : users[u] # None /\ users[u].is_active /\ ~users'[u].is_active =>
                /\ u = p.target /\ u \in p.denied
                /\ users[u].is_superadmin => p.caller.is_superadmin /\ u # p.user
<1> DEFINE t == p.target
           new == Applied(users[t], p.change)
<1>0. /\ p.pc = "commit" /\ p.pc \in Working /\ p.pc \in {"flush", "commit"}
      /\ p.pc \in {"policy", "flush", "commit"}
  BY DEF Commit, Working
<1>1. /\ users' = [users EXCEPT ![t] = new] /\ UNCHANGED <<tenants, stale>>
      /\ orphaned' = (orphaned \/ ~users[p.user].is_active)
  BY DEF Commit, OnUsers
<1>2. /\ t \in Users /\ UserChange(p) /\ p.op \notin {"get_user", "get_tenant"}
      /\ p.op = "create_user" => users[t] = None
  BY <1>0 DEF Good, Asked, Prepared, OnUsers
<1>3. users \in [Users -> UserRows \cup {None}]
  BY DEF AccessInv, Tables
<1>4. /\ new \in UserRows
      /\ users[t] # None => /\ new.is_superadmin = users[t].is_superadmin
                            /\ new.tenant_id = users[t].tenant_id
      /\ users[t] # None /\ users[t].is_active /\ ~new.is_active =>
            /\ t \in p.denied
            /\ users[t].is_superadmin => p.caller.is_superadmin /\ t # p.user
  <2>1. CASE p.op = "create_user"
    <3>1. new = p.change
      BY <1>2, <2>1 DEF Applied
    <3> QED
      BY <1>2, <2>1, <3>1 DEF UserChange
  <2>2. CASE p.op \in {"patch_user", "delete_user"}
    <3>1. /\ users[t] # None /\ users[t] \in UserRows /\ IsUserPatch(p.change)
          /\ p.row.is_superadmin = users[t].is_superadmin
      BY <1>0, <1>2, <1>3, <2>2 DEF Good, Copied, UserChange, UserOps
    <3>2. /\ new \in UserRows /\ new.is_superadmin = users[t].is_superadmin
          /\ new.tenant_id = users[t].tenant_id
          /\ new.is_active = IF "is_active" \in DOMAIN p.change THEN p.change["is_active"]
                             ELSE users[t].is_active
      BY <3>1, PatchedUser
    <3>3. users[t].is_active /\ ~new.is_active => Deactivation(p)
      BY <3>2 DEF Deactivation
    <3>4. Deactivation(p) => p.denied = {t}
      BY <1>0, <1>2, <2>2 DEF UserChange, Good, Prepared, UserOps
    <3>5. Deactivation(p) /\ users[t].is_superadmin => p.caller.is_superadmin /\ t # p.user
      BY <1>2, <2>2, <3>1 DEF UserChange
    <3> HIDE DEF new
    <3> QED
      BY <3>1, <3>2, <3>3, <3>4, <3>5
  <2> QED
    BY <1>2, <2>1, <2>2 DEF OnUsers, UserOps
<1> HIDE DEF new
<1>5. \A u \in Users : users'[u] = IF u = t THEN new ELSE users[u]
  BY <1>1, <1>3
<1>6. Tables'
  BY <1>1, <1>3, <1>4 DEF AccessInv, Tables
<1>7. Grown
  BY <1>1, <1>4, <1>5, NoneIsNoRow DEF Grown
<1>8. PlanLimitHolds'
  BY <1>1 DEF AccessInv, PlanLimitHolds
<1>9. ASSUME NEW x \in Requests \ {r}, Creates(req[x]) PROVE users'[req[x].target] = None
  <2>1. req[x].target \in Users /\ users[req[x].target] = None
    BY <1>9 DEF Creates, AccessInv, RequestInv, Good, Asked, OnUsers
  <2>2. req[x].target # t
    <3>1. CASE p.op = "create_user"
      BY <1>0, <1>9, <3>1 DEF Creates, AccessInv, RequestInv, Apart
    <3>2. CASE p.op # "create_user"
      BY <1>0, <2>1, <3>2 DEF Good, Copied, OnUsers
    <3> QED
      BY <3>1, <3>2
  <2> QED
    BY <1>5, <2>1, <2>2
<1>10. \A u \in Users : users[u] # None /\ users[u].is_active /\ ~users'[u].is_active =>
                /\ u = t /\ u \in p.denied
                /\ users[u].is_superadmin => p.caller.is_superadmin /\ u # p.user
  BY <1>4, <1>5
<1> QED
  BY <1>6, <1>7, <1>8, <1>9, <1>10

\* The commit of a tenant, with its users.
LEMMA TenantCommit ==
    ASSUME AccessInv, NEW r \in Requests, NEW p, p = req[r], Good(p), Commit(r), p.op \in OnTenants
    PROVE  /\ Tables' /\ Grown /\ PlanLimitHolds'
           /\ \A x \in Requests \ {r} : Creates(req[x]) => users'[req[x].target] = None
           /\ \A u \in Users : users[u] # None /\ users[u].is_active /\ ~users'[u].is_active =>
                u \in p.denied /\ ~users[u].is_superadmin
<1> DEFINE t == p.target
           new == Applied(tenants[t], p.change)
<1>0. /\ p.pc = "commit" /\ p.pc \in Working /\ p.pc \in {"flush", "commit"}
      /\ p.pc \in {"policy", "flush", "commit"}
  BY DEF Commit, Working
<1>1. /\ tenants' = [tenants EXCEPT ![t] = new]
      /\ users' = [u \in Users |-> IF u \in p.denied THEN Inactive(users[u]) ELSE users[u]]
      /\ stale' = IF p.op = "patch_tenant" /\ Outdated(p, {"plan", "max_assets"})
                  THEN stale \cup {t} ELSE stale
      /\ orphaned' = (orphaned \/ ~users[p.user].is_active)
  BY DEF Commit, OnTenants, TenantOps, UserOps
<1>2. /\ t \in Tenants /\ TenantChange(p) /\ p.op \notin {"get_user", "get_tenant"}
      /\ \A u \in p.denied : u \in Users /\ users[u] # None /\ users[u].tenant_id = t
  BY <1>0 DEF Good, Asked, Prepared, OnTenants
<1>3. users \in [Users -> UserRows \cup {None}] /\ tenants \in [Tenants -> TenantRows \cup {None}]
  BY DEF AccessInv, Tables
<1>4. /\ new \in TenantRows
      /\ t \notin stale' => Within(new.max_assets, new.plan)
  <2>1. CASE p.op = "create_tenant"
    <3>1. p.change \in TenantRows /\ Within(p.change.max_assets, p.change.plan)
      BY <1>2, <2>1 DEF TenantChange
    <3>2. tenants[t] \in TenantRows \cup {None}
      BY <1>2, <1>3
    <3> QED
      BY <3>1, <3>2, WholeTenant
  <2>2. CASE p.op \in {"patch_tenant", "delete_tenant"}
    <3>1. /\ tenants[t] # None /\ tenants[t] \in TenantRows /\ IsTenantPatch(p.change)
          /\ Within(p.row.max_assets, p.row.plan) =>
                Within(Column(p, "max_assets"), Column(p, "plan"))
      BY <1>0, <1>2, <1>3, <2>2 DEF Good, Copied, TenantChange, TenantOps
    <3>2. /\ new \in TenantRows
          /\ new.plan = IF "plan" \in DOMAIN p.change THEN p.change["plan"] ELSE tenants[t].plan
          /\ new.max_assets = IF "max_assets" \in DOMAIN p.change THEN p.change["max_assets"]
                              ELSE tenants[t].max_assets
      BY <3>1, PatchedTenant
    <3> HIDE DEF new
    <3>3. ASSUME t \notin stale' PROVE Within(new.max_assets, new.plan)
      <4>1. t \notin stale
        BY <1>1, <3>3
      <4>2. Within(tenants[t].max_assets, tenants[t].plan)
        BY <1>2, <3>1, <4>1 DEF AccessInv, PlanLimitHolds, Within
      <4>3. CASE p.op = "patch_tenant"
        <5>1. ~Outdated(p, {"plan", "max_assets"})
          BY <1>1, <3>3, <4>3
        <5>2. p.row["plan"] = tenants[t]["plan"] /\ p.row["max_assets"] = tenants[t]["max_assets"]
          BY <5>1 DEF Outdated
        <5>3. new.plan = Column(p, "plan") /\ new.max_assets = Column(p, "max_assets")
          BY <3>2, <5>2 DEF Column
        <5> QED
          BY <3>1, <4>2, <5>2, <5>3
      <4>4. CASE p.op = "delete_tenant"
        <5>1. DOMAIN p.change = {"is_active"}
          BY <1>2, <4>4 DEF TenantChange
        <5> QED
          BY <3>2, <4>2, <5>1
      <4> QED
        BY <2>2, <4>3, <4>4
    <3> QED
      BY <3>2, <3>3
  <2> QED
    BY <1>2, <2>1, <2>2 DEF OnTenants, TenantOps
<1> HIDE DEF new
<1>5. \A x \in Tenants : tenants'[x] = IF x = t THEN new ELSE tenants[x]
  BY <1>1, <1>3
<1>6. ASSUME NEW u \in p.denied
      PROVE  /\ users[u] \in UserRows /\ ~users[u].is_superadmin
             /\ Inactive(users[u]) \in UserRows
             /\ Inactive(users[u]).is_superadmin = users[u].is_superadmin
             /\ Inactive(users[u]).tenant_id = users[u].tenant_id
  <2>1. users[u] \in UserRows /\ users[u].tenant_id # None
    BY <1>2, <1>3, NoneIsNoRow
  <2>2. ~users[u].is_superadmin
    BY <2>1 DEF UserRows
  <2> QED
    BY <2>1, <2>2, InactiveUser
<1>7. Tables'
  <2>1. users' \in [Users -> UserRows \cup {None}]
    BY <1>1, <1>3, <1>6
  <2>2. tenants' \in [Tenants -> TenantRows \cup {None}]
    BY <1>1, <1>3, <1>4
  <2>3. orphaned' \in BOOLEAN
    BY <1>1
  <2> QED
    BY <2>1, <2>2, <2>3 DEF Tables
<1>8. Grown
  <2>1. \A u \in Users : users[u] # None =>
          /\ users'[u] # None /\ users'[u].is_superadmin = users[u].is_superadmin
          /\ users'[u].tenant_id = users[u].tenant_id
    BY <1>1, <1>6, NoneIsNoRow
  <2>2. \A x \in Tenants : tenants[x] # None => tenants'[x] # None
    BY <1>4, <1>5, NoneIsNoRow
  <2> QED
    BY <2>1, <2>2 DEF Grown
<1>9. PlanLimitHolds'
  <2> SUFFICES ASSUME NEW x \in Tenants \ stale', tenants'[x] # None
               PROVE  tenants'[x].max_assets <= _PLAN_MAX_ASSETS[tenants'[x].plan]
    BY DEF PlanLimitHolds
  <2>1. CASE x = t
    BY <1>4, <1>5, <2>1 DEF Within
  <2>2. CASE x # t
    <3>1. x \notin stale
      BY <1>1
    <3> QED
      BY <1>5, <2>2, <3>1 DEF AccessInv, PlanLimitHolds
  <2> QED
    BY <2>1, <2>2
<1>10. ASSUME NEW x \in Requests \ {r}, Creates(req[x]) PROVE users'[req[x].target] = None
  <2>1. req[x].target \in Users /\ users[req[x].target] = None
    BY <1>10 DEF Creates, AccessInv, RequestInv, Good, Asked, OnUsers
  <2>2. req[x].target \notin p.denied
    BY <1>2, <2>1
  <2> QED
    BY <1>1, <2>1, <2>2
<1>11. \A u \in Users : users[u] # None /\ users[u].is_active /\ ~users'[u].is_active =>
          u \in p.denied /\ ~users[u].is_superadmin
  BY <1>1, <1>6
<1> QED
  BY <1>7, <1>8, <1>9, <1>10, <1>11

\* The commit, of either: whoever deactivates a superadmin is another one, who is
\* active unless the caller was deactivated meanwhile.
LEMMA CommitStep ==
    ASSUME AccessInv, NEW r \in Requests, Commit(r)
    PROVE  /\ AccessInv'
           /\ \A u \in Users : users[u] # None /\ users[u].is_active /\ ~users'[u].is_active =>
                u \in req[r].denied
<1>p. PICK p : p = req[r]
  OBVIOUS
<1>0. p.pc = "commit" /\ p.pc \in Working
  BY <1>p DEF Commit, Working
<1>1. Good(p) /\ p.op \in OnUsers \cup OnTenants
  BY <1>p, <1>0 DEF AccessInv, RequestInv, Good, Asked
<1>2. /\ Tables' /\ Grown /\ PlanLimitHolds'
      /\ \A x \in Requests \ {r} : Creates(req[x]) => users'[req[x].target] = None
      /\ \A u \in Users : users[u] # None /\ users[u].is_active /\ ~users'[u].is_active =>
           /\ u \in p.denied
           /\ users[u].is_superadmin => u = p.target /\ p.caller.is_superadmin /\ u # p.user
  <2>1. CASE p.op \in OnUsers
    BY <1>p, <1>1, <2>1, UserCommit
  <2>2. CASE p.op \in OnTenants
    BY <1>p, <1>1, <2>2, TenantCommit
  <2> QED
    BY <1>1, <2>1, <2>2
<1>3. RequestInv'
  <2>1. /\ Answer(r, 200) /\ ctx' = ctx /\ req[r].pc \in Working /\ ~req[r].foreign
    BY <1>p, <1>0, <1>1 DEF Commit, Good, Asked
  <2>2. RequestInv /\ DOMAIN ctx' = Conns
    BY <2>1 DEF AccessInv, RequestInv
  <2> QED
    BY <1>2, <2>1, <2>2, Answers
<1>4. SuperadminRemains'
  <2>1. orphaned' = (orphaned \/ ~users[p.user].is_active)
    BY <1>p DEF Commit
  <2>2. CASE orphaned \/ ~users[p.user].is_active
    BY <2>1, <2>2 DEF SuperadminRemains
  <2>3. CASE ~orphaned /\ users[p.user].is_active
    <3>1. PICK u \in Users : users[u] # None /\ users[u].is_superadmin /\ users[u].is_active
      BY <2>3 DEF AccessInv, SuperadminRemains
    <3>2. users'[u] # None /\ users'[u].is_superadmin
      BY <1>2, <3>1 DEF Grown
    <3>3. CASE users'[u].is_active
      BY <3>2, <3>3 DEF SuperadminRemains
    <3>4. CASE ~users'[u].is_active
      <4>1. u = p.target /\ p.caller.is_superadmin /\ u # p.user
        BY <1>2, <3>1, <3>4
      <4>2. p.user \in Users /\ users[p.user] # None /\ users[p.user].is_superadmin
        BY <1>0, <1>1, <4>1 DEF Good, Asked, Copied
      <4>3. users'[p.user] # None /\ users'[p.user].is_superadmin
        BY <1>2, <4>2 DEF Grown
      <4>4. users'[p.user].is_active
        BY <1>2, <2>3, <4>1, <4>2
      <4> QED
        BY <4>2, <4>3, <4>4 DEF SuperadminRemains
    <3> QED
      BY <3>3, <3>4
  <2> QED
    BY <2>2, <2>3
<1> QED
  BY <1>p, <1>2, <1>3, <1>4 DEF AccessInv

-----------------------------------------------------------------------------
(* The invariant *)

\* The service starts with its seeded rows and clean connections.
LEMMA InitAccess == Init => AccessInv
<1> SUFFICES ASSUME Init PROVE AccessInv
  OBVIOUS
<1>1. Tables /\ PlanLimitHolds /\ SuperadminRemains
  BY TablesAssumption DEF TablesAssumption, Init, Tables, PlanLimitHolds, SuperadminRemains
<1>2. DOMAIN Idle = Fields /\ Idle.pc = "idle" /\ Idle.conn = None /\ Idle.target = None
  BY DEF Idle, Fields
<1>3. Good(Idle)
  BY <1>2 DEF Good, Asked, Copied, Prepared, Working
<1>4. \A r \in Requests : req[r] = Idle
  BY DEF Init
<1>5. Apart
  BY <1>2, <1>4 DEF Apart, Creates, Working
<1>6. FreeAreClean
  BY DEF Init, FreeAreClean
<1>7. DOMAIN ctx = Conns /\ req = [r \in Requests |-> req[r]]
  BY DEF Init
<1> QED
  BY <1>1, <1>3, <1>4, <1>5, <1>6, <1>7 DEF AccessInv, RequestInv

\* Every step keeps the invariant.
LEMMA NextAccess == AccessInv /\ [Next]_vars => AccessInv'
<1> SUFFICES ASSUME AccessInv, [Next]_vars PROVE AccessInv'
  OBVIOUS
<1>0. Tables /\ RequestInv
  BY DEF AccessInv
<1>1. ASSUME NEW r \in Requests, Commit(r) PROVE AccessInv'
  BY <1>1, CommitStep
<1>2. ASSUME NEW r \in Requests,
             \/ Begin(r) \/ GetCurrentUser(r) \/ Elevate(r) \/ GetUserForAdmin(r)
             \/ GetTenantForAdmin(r) \/ Decide(r) \/ Flush(r) \/ Fail(r) \/ Release(r)
      PROVE  AccessInv'
  <2>1. UNCHANGED <<users, tenants, stale, orphaned>>
    BY <1>2 DEF Begin, GetCurrentUser, Elevate, GetUserForAdmin, GetTenantForAdmin, Decide, Flush, Fail,
                Release
  <2>2. Tables' /\ PlanLimitHolds' /\ SuperadminRemains'
    BY <2>1 DEF AccessInv, Tables, PlanLimitHolds, SuperadminRemains
  <2>3. RequestInv'
    BY <1>0, <1>2, BeginStep, CallerStep, ElevateStep, TargetStep, DecideStep, FlushStep, FailStep, ReleaseStep
  <2> QED
    BY <2>2, <2>3 DEF AccessInv
<1>3. CASE UNCHANGED vars
  <2>1. \A q : Good(q)' <=> Good(q)
    BY <1>3 DEF vars, Good, Asked, Copied, Prepared, Foreign
  <2>2. Apart' /\ FreeAreClean'
    BY <1>0, <1>3 DEF vars, RequestInv, Apart, FreeAreClean
  <2>3. \A r \in Requests : Good(req[r])'
    BY <1>0, <1>3, <2>1 DEF vars, RequestInv
  <2>4. RequestInv'
    BY <1>0, <1>3, <2>2, <2>3 DEF vars, RequestInv
  <2>5. Tables' /\ PlanLimitHolds' /\ SuperadminRemains'
    BY <1>3 DEF vars, AccessInv, Tables, PlanLimitHolds, SuperadminRemains
  <2> QED
    BY <2>4, <2>5 DEF AccessInv
<1> QED
  BY <1>1, <1>2, <1>3 DEF Next

\* The inductive invariant of the requests and the tables holds in every state.
THEOREM AccessInvariance == Spec => []AccessInv
BY InitAccess, NextAccess, PTL DEF Spec

\* get_current_user and set_tenant_context: whatever lookup elevated the context before,
\* a route runs in the scope of its caller, and a pooled connection carries no scope to
\* the next request.
THEOREM ScopeIsCallers == Spec => []ContextMatchesCaller
<1>1. AccessInv => ContextMatchesCaller
  BY DEF AccessInv, RequestInv, FreeAreClean, Good, Copied, Working, ContextMatchesCaller
<1> QED
  BY <1>1, AccessInvariance, PTL

\* cross_tenant.py: whoever is not superadmin and asks for a user or a tenant of another
\* tenant gets the 403, and neither a 404 nor the route.
THEOREM OtherTenantsUserIs403 == Spec => []CrossTenantIs403
<1>1. AccessInv => CrossTenantIs403
  BY DEF AccessInv, RequestInv, Good, Asked, Working, CrossTenantIs403
<1> QED
  BY <1>1, AccessInvariance, PTL

\* update_tenant: max_assets stays within the plan through any sequence of PATCHes, but
\* for those that overwrite a concurrent one.
THEOREM PlanLimitKept == Spec => []PlanLimitHolds
BY AccessInvariance, PTL DEF AccessInv

\* update_user and deactivate_user of the router refuse self-deactivation: the last superadmin
\* is never deactivated, but for two who deactivate each other at the same time.
THEOREM SuperadminKept == Spec => []SuperadminRemains
BY AccessInvariance, PTL DEF AccessInv

\* deactivate_user and deactivate_tenant: the commit that turns a user inactive comes
\* after the revocation of its sessions.
THEOREM DeactivatedIsRevoked == Spec => DeactivationRevokes
<1>1. AccessInv /\ [Next]_vars =>
        [\A r \in Requests : Commit(r) =>
          \A u \in Users :
            users[u] # None /\ users[u].is_active /\ ~users'[u].is_active
                => u \in req[r].denied]_vars
  BY CommitStep
<1> QED
  BY <1>1, AccessInvariance, PTL DEF Spec, DeactivationRevokes

-----------------------------------------------------------------------------
(* The lease of a deactivation *)

\* DistLock assumes of its constants what is a hypothesis here.
LeaseAssumptions == D!ProcessAssumption /\ D!NoneAssumption /\ D!FaultsAssumption

\* Nobody holds the free lock.
LEMMA InitLease ==
    ASSUME LeaseAssumptions
    PROVE  D!Init => D!Inv
BY DEF LeaseAssumptions, D!NoneAssumption, D!FaultsAssumption, D!Init, D!Inv, D!TypeOK,
       D!HolderOwnsLease, D!LostHasNoLease, D!LateIsRefused, D!NotOwnerHasNoLease,
       D!LostWasHeld, D!States

\* The steps of one request preserve the invariant.
LEMMA RequestLease ==
    ASSUME LeaseAssumptions, D!Inv, NEW r \in Requests,
           \/ D!SetLock(r) \/ D!Granted(r) \/ D!Denied(r) \/ D!WaitTimesOut(r) \/ D!SetRaises(r)
           \/ D!ApplyLate(r)
           \/ D!RenewNotOwner(r) \/ D!Exit(r) \/ D!Release(r) \/ D!ReleaseLost(r)
           \/ D!Released(r) \/ D!NotOwner(r) \/ D!ReleaseRaises(r)
    PROVE  D!Inv'
<1> USE DEF LeaseAssumptions, D!ProcessAssumption, D!NoneAssumption, D!FaultsAssumption,
        D!Inv, D!TypeOK, D!HolderOwnsLease, D!LostHasNoLease, D!LateIsRefused,
        D!NotOwnerHasNoLease, D!LostWasHeld, D!States, D!Goto, D!Fault, D!Proc
<1>1. CASE D!SetLock(r)
  BY <1>1 DEF D!SetLock, D!SetNX
<1>2. CASE D!Granted(r)
  BY <1>2 DEF D!Granted
<1>3. CASE D!Denied(r)
  BY <1>3 DEF D!Denied
<1>4. CASE D!WaitTimesOut(r)
  BY <1>4 DEF D!WaitTimesOut
<1>5. CASE D!SetRaises(r)
  BY <1>5 DEF D!SetRaises
<1>6. CASE D!ApplyLate(r)
  BY <1>6 DEF D!ApplyLate, D!SetNX
<1>7. CASE D!RenewNotOwner(r)
  BY <1>7 DEF D!RenewNotOwner, D!MarkLost
<1>8. CASE D!Exit(r)
  BY <1>8 DEF D!Exit
<1>9. CASE D!Release(r)
  BY <1>9 DEF D!Release, D!DeleteOwnLease
<1>10. CASE D!ReleaseLost(r)
  BY <1>10 DEF D!ReleaseLost
<1>11. CASE D!Released(r)
  BY <1>11 DEF D!Released
<1>12. CASE D!NotOwner(r)
  BY <1>12 DEF D!NotOwner, D!MarkLost
<1>13. CASE D!ReleaseRaises(r)
  BY <1>13 DEF D!ReleaseRaises, D!DeleteOwnLease
<1> QED
  BY <1>1, <1>2, <1>3, <1>4, <1>5, <1>6, <1>7, <1>8, <1>9, <1>10, <1>11, <1>12, <1>13

\* Inv is inductive.
LEMMA NextLease ==
    ASSUME LeaseAssumptions
    PROVE  D!Inv /\ [D!Next]_(D!vars) => D!Inv'
<1> SUFFICES ASSUME D!Inv, [D!Next]_(D!vars) PROVE D!Inv'
  OBVIOUS
<1>1. CASE D!Expire
  BY <1>1
  DEF LeaseAssumptions, D!ProcessAssumption, D!NoneAssumption, D!FaultsAssumption, D!Expire,
      D!Inv, D!TypeOK, D!HolderOwnsLease, D!LostHasNoLease, D!LateIsRefused,
      D!NotOwnerHasNoLease, D!LostWasHeld
<1>2. ASSUME NEW p \in Processes, D!Crash(p) PROVE D!Inv'
  BY <1>2
  DEF LeaseAssumptions, D!ProcessAssumption, D!NoneAssumption, D!FaultsAssumption, D!Crash,
      D!Fault, D!Proc, D!Inv, D!TypeOK, D!HolderOwnsLease, D!LostHasNoLease, D!LateIsRefused,
      D!NotOwnerHasNoLease, D!LostWasHeld, D!States
<1>3. CASE UNCHANGED D!vars
  BY <1>3
  DEF D!vars, D!Inv, D!TypeOK, D!HolderOwnsLease, D!LostHasNoLease, D!LateIsRefused,
      D!NotOwnerHasNoLease, D!LostWasHeld
<1> QED
  BY <1>1, <1>2, <1>3, RequestLease DEF D!Next

\* The inductive invariant of DistLock holds in every state.
THEOREM LeaseInvariance ==
    ASSUME LeaseAssumptions
    PROVE  D!Spec => []D!Inv
BY InitLease, NextLease, PTL DEF D!Spec

\* A granted lock is its request's until the TTL runs out, so that two requests
\* run the body of a deactivation dependency together only after an expiry.
THEOREM LeaseIsExclusive ==
    ASSUME LeaseAssumptions
    PROVE  D!Spec => []D!HolderOwnsLease
BY LeaseInvariance, PTL DEF D!Inv

\* LockHandle.release may skip Redis for a lost handle: it has no lease to free.
THEOREM LostHandleIsFree ==
    ASSUME LeaseAssumptions
    PROVE  D!Spec => []D!LostHasNoLease
BY LeaseInvariance, PTL DEF D!Inv
=============================================================================
