SPECIFICATION Spec
CONSTANTS
    a1 = a1
    a2 = a2
    s1 = s1
    s2 = s2
    v1 = v1
    v2 = v2
    p1 = p1
    None = None
    Rows <- RowsDef
    KindOf <- KindOfDef
    ParentOf <- ParentOfDef
    InitiallyLive <- InitiallyLiveDef
    InitialColumns <- InitialColumnsDef
    Requests = {r1, r2}
SYMMETRY Symmetry
CHECK_DEADLOCK FALSE
INVARIANTS
    ScanConfigFits
