SPECIFICATION FairSpec
CONSTANTS
    contextual_severity = contextual_severity
    technical_description = technical_description
    Functions <- FunctionsDef
    Levels <- LevelsDef
    LEVEL_FUNCTIONS <- LevelFunctionsDef
    Tasks = {t1, t2}
    MaxVersion = 2
    MAX_RETRIES = 1
    MaxFaults = 1
INVARIANTS
    OkHasItsContent
    NoOrphans
PROPERTIES
    NoDowngrade
    ContentKept
    TaskEnds
