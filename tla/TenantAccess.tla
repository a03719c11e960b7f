---------------------------- MODULE TenantAccess ----------------------------
(* Requests that administer users and tenants: the dependency chain of        *)
(* app/dependencies (caller, row-level security scope, cross-tenant           *)
(* pre-check), the policies of the two routers and the services behind them.  *)
(*                                                                            *)
(* A request is one transaction on a pooled connection.  It works on copies   *)
(* of rows it read earlier, flushes only the columns it changed, holds their  *)
(* row locks through the revocation of the sessions in Redis, and commits.    *)
(* Every statement may fail, and then the transaction is rolled back.         *)
EXTENDS Integers, Sequences, FiniteSetsExt

CONSTANTS
    Requests, Conns,   \* concurrent requests; connections of the pool
    Users, Tenants,    \* row ids, used or not yet
    Emails, Slugs,     \* the values of the unique columns
    InitUsers, InitTenants,            \* the tables at the start
    NewUsers, UserPatches,             \* bodies of POST and PATCH /users
    NewTenants, TenantPatches,         \* bodies of POST and PATCH /tenants
    _PLAN_MAX_ASSETS,  \* [plans -> limit]
    MaxRequests,       \* bound: requests made
    None

Plans == DOMAIN _PLAN_MAX_ASSETS
ROLE_HIERARCHY ==
    [viewer |-> 0, analyst |-> 1, ingestor |-> 1, admin |-> 2, superadmin |-> 99]

\* The two tables; the check constraints of users tie is_superadmin to tenant_id.
UserRows ==
    {row \in [tenant_id : Tenants \cup {None}, email : Emails, role : DOMAIN ROLE_HIERARCHY,
              is_active : BOOLEAN, is_superadmin : BOOLEAN] :
        row.is_superadmin = (row.tenant_id = None)}
TenantRows ==
    [slug : Slugs, plan : Plans, max_assets : Nat \ {0}, is_active : BOOLEAN]

\* The columns that UserUpdate and TenantUpdate name, any of them left out.
IsUserPatch(b) ==
    /\ DOMAIN b \subseteq {"email", "role", "is_active"}
    /\ "email" \in DOMAIN b => b["email"] \in Emails
    /\ "role" \in DOMAIN b => b["role"] \in DOMAIN ROLE_HIERARCHY
    /\ "is_active" \in DOMAIN b => b["is_active"] \in BOOLEAN
IsTenantPatch(b) ==
    /\ DOMAIN b \subseteq {"plan", "max_assets", "is_active"}
    /\ "plan" \in DOMAIN b => b["plan"] \in Plans
    /\ "max_assets" \in DOMAIN b => b["max_assets"] \in Nat \ {0}
    /\ "is_active" \in DOMAIN b => b["is_active"] \in BOOLEAN

ASSUME TablesAssumption ==
    /\ _PLAN_MAX_ASSETS \in [Plans -> Nat \ {0}]
    /\ None \notin UserRows \cup TenantRows \cup Users \cup Tenants \cup Conns
    /\ InitUsers \in [Users -> UserRows \cup {None}]
    /\ InitTenants \in [Tenants -> TenantRows \cup {None}]
    /\ \A t \in Tenants : InitTenants[t] # None =>
        InitTenants[t].max_assets <= _PLAN_MAX_ASSETS[InitTenants[t].plan]
    /\ \E u \in Users : InitUsers[u] # None /\ InitUsers[u].is_superadmin
                        /\ InitUsers[u].is_active

ASSUME BodiesAssumption ==
    /\ NewUsers \subseteq [tenant_id : Tenants, email : Emails, role : DOMAIN ROLE_HIERARCHY]
    /\ \A b \in UserPatches : IsUserPatch(b)
    /\ \A b \in NewTenants : b.slugs \in Seq(Slugs) /\ b.plan \in Plans
    /\ \A b \in TenantPatches : IsTenantPatch(b)

VARIABLES
    users,     \* [Users -> row or None]
    tenants,   \* [Tenants -> row or None]
    ctx,       \* [Conns -> app.is_superadmin and app.current_tenant]
    req,       \* [Requests -> what the request is doing]
    issued,    \* requests so far
    stale,     \* tenants whose plan or limit changed under a PATCH that had read it
    orphaned   \* a caller that had been deactivated meanwhile has committed

vars == <<users, tenants, ctx, req, issued, stale, orphaned>>

Clean == [is_superadmin |-> FALSE, tenant |-> None]
Elevated == [is_superadmin |-> TRUE, tenant |-> None]
\* set_tenant_context
Scope(row) == IF row.is_superadmin THEN Elevated
              ELSE [is_superadmin |-> FALSE, tenant |-> row.tenant_id]

\* The policies rls_users and rls_tenants.
SeesUser(c, row) == row # None /\ (c.is_superadmin \/ row.tenant_id = c.tenant)
SeesTenant(c, t) == tenants[t] # None /\ (c.is_superadmin \/ t = c.tenant)

Idle == [pc |-> "idle", conn |-> None, user |-> None, op |-> None, target |-> None,
         body |-> <<>>, foreign |-> FALSE, caller |-> None, row |-> None,
         change |-> <<>>, denied |-> {}, locks |-> {}, code |-> 0]

Init ==
    /\ users = InitUsers /\ tenants = InitTenants
    /\ ctx = [c \in Conns |-> Clean]
    /\ req = [r \in Requests |-> Idle]
    /\ issued = 0
    /\ stale = {} /\ orphaned = FALSE

UserOps == {"get_user", "patch_user", "delete_user"}
TenantOps == {"get_tenant", "patch_tenant", "delete_tenant"}

UserJobs ==
    [op : {"get_user", "delete_user"}, target : Users, body : {<<>>}]
    \cup [op : {"patch_user"}, target : Users, body : UserPatches]
TenantJobs ==
    [op : {"get_tenant", "delete_tenant"}, target : Tenants, body : {<<>>}]
    \cup [op : {"patch_tenant"}, target : Tenants, body : TenantPatches]
CreateJobs ==
    [op : {"create_user"}, target : {u \in Users : users[u] = None}, body : NewUsers]
    \cup [op : {"create_tenant"}, target : {t \in Tenants : tenants[t] = None},
          body : NewTenants]

\* What the 403 contract is about: the target is in another tenant than the caller.
Foreign(caller, job) ==
    /\ ~caller.is_superadmin
    /\ \/ job.op \in UserOps /\ users[job.target] # None
          /\ users[job.target].tenant_id # caller.tenant_id
       \/ job.op \in TenantOps /\ job.target # caller.tenant_id

\* The answer is decided: the rest of the request is forgotten, and with it, when
\* nothing was committed, what it had written.
Answer(r, code) ==
    req' = [req EXCEPT ![r] = [Idle EXCEPT !.pc = "answer", !.code = code,
                               !.conn = req[r].conn, !.foreign = req[r].foreign]]

\* A new request gets a free connection, with whatever settings are on it; the id
\* of a new row is nobody else's.
Begin(r) ==
    /\ req[r].pc = "idle"
    /\ issued < MaxRequests /\ issued' = issued + 1
    /\ \E c \in Conns \ {req[q].conn : q \in Requests},
          u \in {v \in Users : users[v] # None},
          job \in UserJobs \cup TenantJobs \cup CreateJobs :
        /\ job \in CreateJobs => \A q \in Requests : req[q].target # job.target
        /\ req' = [req EXCEPT ![r] =
                    [Idle EXCEPT !.pc = "caller", !.conn = c, !.user = u, !.op = job.op,
                                 !.target = job.target, !.body = job.body,
                                 !.foreign = Foreign(users[u], job)]]
    /\ UNCHANGED <<users, tenants, ctx, stale, orphaned>>

---------------------------------------------------------------------------
(* The dependencies.                                                         *)

has_minimum_role(role, required) == ROLE_HIERARCHY[role] >= ROLE_HIERARCHY[required]

\* require_superadmin and require_role("admin"); the rest asks for a caller only.
Permitted(op, row) ==
    /\ op \in {"create_tenant", "patch_tenant", "delete_tenant"} => row.is_superadmin
    /\ op \in {"create_user", "delete_user"} => has_minimum_role(row.role, "admin")

Refused(row) ==
    \/ ~row.is_active
    \/ ~row.is_superadmin /\ ~tenants[row.tenant_id].is_active

\* get_current_user: elevated for the lookup, then the caller's own scope.
GetCurrentUser(r) ==
    LET row == users[req[r].user] IN
    /\ req[r].pc = "caller"
    /\ IF Refused(row) \/ ~Permitted(req[r].op, row)
       THEN /\ Answer(r, IF Refused(row) THEN 401 ELSE 403)
            /\ ctx' = [ctx EXCEPT ![req[r].conn] = Elevated]
       ELSE /\ req' = [req EXCEPT ![r].caller = row,
                        ![r].pc = IF req[r].op \in UserOps \cup TenantOps
                                  THEN "target" ELSE "policy"]
            /\ ctx' = [ctx EXCEPT ![req[r].conn] = Scope(row)]
    /\ UNCHANGED <<users, tenants, issued, stale, orphaned>>

\* _get_user_for_admin elevates a caller that is not superadmin for the lookup, ...
Elevate(r) ==
    /\ req[r].pc = "target" /\ req[r].op \in UserOps /\ ~req[r].caller.is_superadmin
    /\ ctx' = [ctx EXCEPT ![req[r].conn] = Elevated]
    /\ req' = [req EXCEPT ![r].pc = "lookup"]
    /\ UNCHANGED <<users, tenants, issued, stale, orphaned>>

\* Mutant of OtherTenant: the tenants are not compared.
NoOtherTenant(q, row) == FALSE
OtherTenant(q, row) == ~q.caller.is_superadmin /\ row.tenant_id # q.caller.tenant_id

\* Mutant of Restored: nothing is restored.
NotRestored(q) == Elevated
\* What _get_user_for_admin leaves on the connection.
Restored(q) == Scope(q.caller)

\* ... so that a row of another tenant is found, and is a 403 and not a 404.
GetUserForAdmin(r) ==
    LET q == req[r]
        row == users[q.target] IN
    /\ q.op \in UserOps
    /\ q.pc = "lookup" \/ (q.pc = "target" /\ q.caller.is_superadmin)
    /\ ctx' = [ctx EXCEPT ![q.conn] = Restored(q)]
    /\ IF row = None THEN Answer(r, 404)
       ELSE IF OtherTenant(q, row) THEN Answer(r, 403)
       ELSE req' = [req EXCEPT ![r].pc = "policy", ![r].row = row]
    /\ UNCHANGED <<users, tenants, issued, stale, orphaned>>

\* _get_tenant_for_admin compares the id before it looks; PATCH and DELETE are the
\* superadmin's and read in the service.
GetTenantForAdmin(r) ==
    LET q == req[r] IN
    /\ q.pc = "target" /\ q.op \in TenantOps
    /\ IF ~q.caller.is_superadmin /\ q.target # q.caller.tenant_id THEN Answer(r, 403)
       ELSE IF ~SeesTenant(ctx[q.conn], q.target) THEN Answer(r, 404)
       ELSE req' = [req EXCEPT ![r].pc = "policy", ![r].row = tenants[q.target]]
    /\ UNCHANGED <<users, tenants, ctx, issued, stale, orphaned>>

---------------------------------------------------------------------------
(* The routers' policies and the services' checks: the code of the refusal,  *)
(* or 200.                                                                   *)

Sent(q, f) == f \in DOMAIN q.body

\* _is_email_taken counts what row-level security lets the caller see.
EmailTaken(q, e) ==
    \E u \in Users \ {q.target} : SeesUser(ctx[q.conn], users[u]) /\ users[u].email = e

CreateUserCode(q) ==
    CASE ~q.caller.is_superadmin /\ (\/ q.body.tenant_id # q.caller.tenant_id
                                     \/ has_minimum_role(q.body.role, "admin")) -> 403
      [] EmailTaken(q, q.body.email) -> 409
      [] ~SeesTenant(ctx[q.conn], q.body.tenant_id) -> 404
      [] ~tenants[q.body.tenant_id].is_active -> 409
      [] OTHER -> 200

GetUserCode(q) ==
    IF \/ q.target = q.user \/ q.caller.is_superadmin
       \/ has_minimum_role(q.caller.role, "admin")
    THEN 200 ELSE 403

\* Mutant of DeactivatesSelf.
DeactivatesNobody(q) == FALSE
DeactivatesSelf(q) == q.target = q.user /\ Sent(q, "is_active") /\ ~q.body.is_active

AdminMayPatch(q) ==
    /\ has_minimum_role(q.caller.role, "admin")
    /\ ~q.row.is_superadmin
    /\ ~(Sent(q, "role") /\ has_minimum_role(q.body.role, "admin"))
    /\ ~(Sent(q, "is_active") /\ has_minimum_role(q.row.role, "admin"))

PatchUserCode(q) ==
    CASE q.caller.is_superadmin /\ DeactivatesSelf(q) -> 409
      [] ~q.caller.is_superadmin /\ q.target = q.user
            /\ (Sent(q, "role") \/ Sent(q, "is_active")) -> 403
      [] ~q.caller.is_superadmin /\ q.target # q.user /\ ~AdminMayPatch(q) -> 403
      [] Sent(q, "email") /\ EmailTaken(q, q.body.email) -> 409
      [] OTHER -> 200

DeleteUserCode(q) ==
    CASE q.target = q.user -> 409
      [] ~q.caller.is_superadmin
            /\ (q.row.is_superadmin \/ has_minimum_role(q.row.role, "admin")) -> 403
      [] ~q.row.is_active -> 409
      [] OTHER -> 200

\* An explicit slug that is taken is refused; one made from the name gets the first
\* free suffix, up to MAX_SLUG_ATTEMPTS.
FreeSlugs(q) ==
    {i \in DOMAIN q.body.slugs :
        \A t \in Tenants : tenants[t] = None \/ tenants[t].slug # q.body.slugs[i]}
CreateTenantCode(q) == IF FreeSlugs(q) = {} THEN 409 ELSE 200

\* max_assets against the limit of the plan sent with it, or of the plan read.
EffectivePlan(q) == IF Sent(q, "plan") THEN q.body.plan ELSE q.row.plan
PatchTenantCode(q) ==
    IF Sent(q, "max_assets") /\ q.body.max_assets > _PLAN_MAX_ASSETS[EffectivePlan(q)]
    THEN 422 ELSE 200

DeleteTenantCode(q) == IF q.row.is_active THEN 200 ELSE 409

Code(q) ==
    CASE q.op = "create_user" -> CreateUserCode(q)
      [] q.op = "get_user" -> GetUserCode(q)
      [] q.op = "patch_user" -> PatchUserCode(q)
      [] q.op = "delete_user" -> DeleteUserCode(q)
      [] q.op = "create_tenant" -> CreateTenantCode(q)
      [] q.op = "get_tenant" -> 200
      [] q.op = "patch_tenant" -> PatchTenantCode(q)
      [] q.op = "delete_tenant" -> DeleteTenantCode(q)

---------------------------------------------------------------------------
(* The change: only the columns that differ from the copy are written.       *)

Changed(row, wanted) == [f \in {g \in DOMAIN wanted : wanted[g] # row[g]} |-> wanted[f]]

\* Mutant of WantedTenant: a new plan keeps the limit of the old one.
WantedTenantAsSent(q) == q.body
\* A new plan brings its own limit unless one was sent.
WantedTenant(q) ==
    IF Sent(q, "plan") /\ ~Sent(q, "max_assets")
    THEN [f \in DOMAIN q.body \cup {"max_assets"} |->
            IF f = "max_assets" THEN _PLAN_MAX_ASSETS[q.body.plan] ELSE q.body[f]]
    ELSE q.body

Slug(q) == q.body.slugs[Min(FreeSlugs(q))]

Change(q) ==
    CASE q.op = "create_user" ->
            [tenant_id |-> q.body.tenant_id, email |-> q.body.email, role |-> q.body.role,
             is_active |-> TRUE, is_superadmin |-> FALSE]
      [] q.op = "patch_user" -> Changed(q.row, q.body)
      [] q.op \in {"delete_user", "delete_tenant"} -> [is_active |-> FALSE]
      [] q.op = "create_tenant" ->
            [slug |-> Slug(q), plan |-> q.body.plan,
             max_assets |-> _PLAN_MAX_ASSETS[q.body.plan], is_active |-> TRUE]
      [] q.op = "patch_tenant" -> Changed(q.row, WantedTenant(q))
      [] OTHER -> <<>>

\* The route runs its checks and prepares the change.
Decide(r) ==
    /\ req[r].pc = "policy"
    /\ IF Code(req[r]) # 200 \/ req[r].op \in {"get_user", "get_tenant"}
       THEN Answer(r, Code(req[r]))
       ELSE req' = [req EXCEPT ![r].pc = "flush", ![r].change = Change(req[r])]
    /\ UNCHANGED <<users, tenants, ctx, issued, stale, orphaned>>

\* Mutant of Deactivates: only DELETE revokes.
DeactivatesByDelete(q) == q.op \in {"delete_user", "delete_tenant"}

\* is_deactivating: seen on the copy, before the fields are assigned.
Deactivates(q) ==
    CASE q.op \in {"patch_user", "patch_tenant"} ->
            Sent(q, "is_active") /\ ~q.body.is_active /\ q.row.is_active
      [] q.op \in {"delete_user", "delete_tenant"} -> TRUE
      [] OTHER -> FALSE

\* The users whose sessions the request revokes.
Revoked(q) ==
    IF ~Deactivates(q) THEN {}
    ELSE IF q.op \in UserOps THEN {q.target}
    ELSE {u \in Users : users[u] # None /\ users[u].tenant_id = q.target}

\* The rows and the index entries a flush takes a lock on.
Locks(q) ==
    (IF DOMAIN q.change = {} THEN {} ELSE {q.target}) \cup Revoked(q)
    \cup {q.change[f] : f \in DOMAIN q.change \cap {"email", "slug"}}

Waits(r) == \E q \in Requests \ {r} : Locks(req[r]) \cap req[q].locks # {}

\* The unique indexes span the tenants.
Duplicate(q) ==
    \/ "email" \in DOMAIN q.change
       /\ \E u \in Users \ {q.target} : users[u] # None /\ users[u].email = q.change.email
    \/ "slug" \in DOMAIN q.change
       /\ \E t \in Tenants \ {q.target} :
            tenants[t] # None /\ tenants[t].slug = q.change.slug

\* An UPDATE that row-level security hides the row from is an error, and so is an
\* INSERT of a row the caller could not see.
Hidden(q) ==
    q.op \in {"create_user", "patch_user", "delete_user"} /\ DOMAIN q.change # {}
    /\ ~SeesUser(ctx[q.conn], IF q.op = "create_user" THEN q.change ELSE users[q.target])

\* Only create_user turns a duplicate into a 409.
Flush(r) ==
    LET q == req[r] IN
    /\ q.pc = "flush" /\ ~Waits(r)
    /\ IF Duplicate(q) \/ Hidden(q)
       THEN Answer(r, IF q.op = "create_user" /\ ~Hidden(q) THEN 409 ELSE 500)
       ELSE req' = [req EXCEPT ![r].pc = "commit", ![r].locks = Locks(q),
                               ![r].denied = Revoked(q)]
    /\ UNCHANGED <<users, tenants, ctx, issued, stale, orphaned>>

Applied(row, change) ==
    IF row = None THEN change
    ELSE [f \in DOMAIN row |-> IF f \in DOMAIN change THEN change[f] ELSE row[f]]
Inactive(row) == [row EXCEPT !.is_active = FALSE]

\* Another request has committed since the copy was read.
Outdated(q, fields) == \E f \in fields : q.row[f] # tenants[q.target][f]

Commit(r) ==
    LET q == req[r] IN
    /\ q.pc = "commit"
    /\ IF q.op \in UserOps \cup {"create_user"}
       THEN /\ users' = [users EXCEPT ![q.target] = Applied(@, q.change)]
            /\ UNCHANGED <<tenants, stale>>
       ELSE /\ tenants' = [tenants EXCEPT ![q.target] = Applied(@, q.change)]
            /\ users' = [u \in Users |->
                            IF u \in q.denied THEN Inactive(users[u]) ELSE users[u]]
            /\ stale' = IF q.op = "patch_tenant" /\ Outdated(q, {"plan", "max_assets"})
                        THEN stale \cup {q.target} ELSE stale
    /\ orphaned' = (orphaned \/ ~users[q.user].is_active)
    /\ Answer(r, 200)
    /\ UNCHANGED <<ctx, issued>>

\* A statement, the lease of a deactivation or the revocation in Redis fails, the
\* lookup of an elevated caller included: nothing restores its scope then.
Fail(r) ==
    /\ req[r].pc \in {"caller", "target", "lookup", "policy", "flush", "commit"}
    /\ Answer(r, 500)
    /\ UNCHANGED <<users, tenants, ctx, issued, stale, orphaned>>

\* The settings are local to the transaction, which ends here at the latest.
Released(c) == Clean

\* get_db closes the session.
Release(r) ==
    /\ req[r].pc = "answer"
    /\ ctx' = [ctx EXCEPT ![req[r].conn] = Released(@)]
    /\ req' = [req EXCEPT ![r] = Idle]
    /\ UNCHANGED <<users, tenants, issued, stale, orphaned>>

Next ==
    \E r \in Requests :
        \/ Begin(r) \/ GetCurrentUser(r) \/ Elevate(r) \/ GetUserForAdmin(r)
        \/ GetTenantForAdmin(r) \/ Decide(r) \/ Flush(r) \/ Commit(r) \/ Fail(r) \/ Release(r)

Spec == Init /\ [][Next]_vars

---------------------------------------------------------------------------
Stages == {"idle", "caller", "target", "lookup", "policy", "flush", "commit", "answer"}

TypeOK ==
    /\ users \in [Users -> UserRows \cup {None}]
    /\ tenants \in [Tenants -> TenantRows \cup {None}]
    /\ \A u \in Users : users[u] # None /\ users[u].tenant_id # None =>
        tenants[users[u].tenant_id] # None
    /\ \A u, v \in Users : users[u] # None /\ users[v] # None /\ u # v =>
        users[u].email # users[v].email
    /\ ctx \in [Conns -> [is_superadmin : BOOLEAN, tenant : Tenants \cup {None}]]
    /\ \A r \in Requests :
        /\ req[r].pc \in Stages
        /\ req[r].conn \in Conns \cup {None}
        /\ req[r].code \in {0, 200, 401, 403, 404, 409, 422, 500}
    /\ stale \subseteq Tenants /\ orphaned \in BOOLEAN

\* Whoever acts does so in its own scope, after the elevated lookups too, and a
\* connection that is back in the pool has no scope at all: row-level security
\* judges every statement of a route by the tenant of its caller.
ContextMatchesCaller ==
    /\ \A r \in Requests :
        req[r].pc \in {"target", "policy", "flush", "commit"} =>
            ctx[req[r].conn] = Scope(req[r].caller)
    /\ \A c \in Conns \ {req[r].conn : r \in Requests} : ctx[c] = Clean

\* cross_tenant.py: a caller that is not superadmin and asks for a user or a tenant of
\* another tenant "MUST receive HTTP 403 (not 404)".  It gets nothing else, but for a
\* caller that is itself refused (401) or a statement that fails (500), and no route runs.
CrossTenantIs403 ==
    \A r \in Requests : req[r].foreign =>
        /\ req[r].pc \notin {"policy", "flush", "commit"}
        /\ req[r].pc = "answer" => req[r].code \in {401, 403, 500}

\* max_assets stays within the plan, through any sequence of PATCHes that change
\* the plan, the limit or both.  The exception is a PATCH whose copy of the two was
\* replaced by another PATCH before it committed.
PlanLimitHolds ==
    \A t \in Tenants \ stale :
        tenants[t] # None => tenants[t].max_assets <= _PLAN_MAX_ASSETS[tenants[t].plan]

\* Nobody can deactivate the last superadmin, as nobody deactivates himself; two
\* who deactivate each other at the same time can.
SuperadminRemains ==
    orphaned \/ \E u \in Users : users[u] # None /\ users[u].is_superadmin
                                 /\ users[u].is_active

\* A user who is deactivated, alone or with the tenant, has had every session
\* revoked by then, also when the decision was made on an old copy of the row.
DeactivationRevokes ==
    [][\A r \in Requests : Commit(r) =>
        \A u \in Users :
            users[u] # None /\ users[u].is_active /\ ~users'[u].is_active
                => u \in req[r].denied]_vars
=============================================================================
