--------------------------- MODULE MCTenantAccess ---------------------------
(* Two superadmins, an administrator and a viewer of two tenants, one id free  *)
(* in each table.                                                              *)
EXTENDS TenantAccess, TLC

CONSTANTS s1, s2, a1, v2, n1, t1, t2, t3

PlanDef == [free |-> 1, pro |-> 3]

User(t, e, role) == [tenant_id |-> t, email |-> e, role |-> role, is_active |-> TRUE,
                     is_superadmin |-> role = "superadmin"]
Tenant(s, p) == [slug |-> s, plan |-> p, max_assets |-> PlanDef[p], is_active |-> TRUE]

InitUsersDef ==
    (s1 :> User(None, "es1", "superadmin")) @@ (s2 :> User(None, "es2", "superadmin"))
    @@ (a1 :> User(t1, "ea1", "admin")) @@ (v2 :> User(t2, "ev2", "viewer"))
    @@ (n1 :> None)
InitTenantsDef == (t1 :> Tenant("acme", "pro")) @@ (t2 :> Tenant("beta", "free"))
    @@ (t3 :> None)

NewUsersDef == {[tenant_id |-> t1, email |-> "en1", role |-> "viewer"]}
UserPatchesDef == {[email |-> "en1"]}
    \cup {[is_active |-> b] : b \in BOOLEAN}
NewTenantsDef == {[slugs |-> <<"acme">>, plan |-> "pro"],
                  [slugs |-> <<"acme", "acme-2">>, plan |-> "free"]}
TenantPatchesDef == {[plan |-> "free"], [max_assets |-> 2], [is_active |-> FALSE]}

Symmetry == Permutations(Requests) \cup Permutations(Conns)
=============================================================================
