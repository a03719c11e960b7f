SPECIFICATION FairSpec
CONSTANTS
    Logins = {g1}
    Loops = {l1, l2}
    EVENT_MAX_RETRIES = 1
    EVENT_STREAM_MAXLEN = 1
    NewCount = 2
    PendingCount = 2
    MaxFaults = 2
INVARIANTS
    NoSilentLoss
    DeadOnlyAfterRetries
PROPERTIES
    ExhaustionIsRemembered
    EventSettled
