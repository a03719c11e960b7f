SPECIFICATION Spec
CONSTANTS
    Requests = {r1, r2}
    NoRequest = NoRequest
    MaxSession = 2
    MaxPassword = 1
    MaxExpired = 0
    MAX_ACTIVE_SESSIONS = 2
SYMMETRY Symmetry
CHECK_DEADLOCK FALSE
INVARIANTS
    NoSessionOutlivesPassword
