SPECIFICATION Spec
CONSTANTS
    Requests = {r1, r2}
    Ips = {ip1}
    Emails = {e1}
    Endpoints = {"login", "refresh"}
    LOCKOUT_TABLE <- TableDef
    KeyTTL = 3
    LOGIN_ATTEMPTS_MAX = 2
    LOGIN_ATTEMPTS_WINDOW = 2
    MaxRequests = 4
    MaxFaults = 1
    None = None
SYMMETRY Symmetry
CHECK_DEADLOCK FALSE
INVARIANTS
    AttemptsBounded
    CounterExpires
    LockBounded
