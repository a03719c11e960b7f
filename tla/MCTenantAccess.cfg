SPECIFICATION Spec
CONSTANTS
    s1 = s1
    s2 = s2
    a1 = a1
    v2 = v2
    n1 = n1
    t1 = t1
    t2 = t2
    t3 = t3
    Requests = {r1, r2}
    Conns = {c1, c2}
    Users = {s1, s2, a1, v2, n1}
    Tenants = {t1, t2, t3}
    Emails = {"es1", "es2", "ea1", "ev2", "en1"}
    Slugs = {"acme", "beta", "acme-2"}
    InitUsers <- InitUsersDef
    InitTenants <- InitTenantsDef
    NewUsers <- NewUsersDef
    UserPatches <- UserPatchesDef
    NewTenants <- NewTenantsDef
    TenantPatches <- TenantPatchesDef
    _PLAN_MAX_ASSETS <- PlanDef
    MaxRequests = 3
    None = None
SYMMETRY Symmetry
CHECK_DEADLOCK FALSE
INVARIANTS
    ContextMatchesCaller
    CrossTenantIs403
    PlanLimitHolds
    SuperadminRemains
PROPERTIES
    DeactivationRevokes
