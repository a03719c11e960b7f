SPECIFICATION FairSpec
CONSTANTS
    Assets <- AssetsDef
    DnsAnswers <- DnsAnswersDef
    Reports <- ReportsDef
    ManualKeys = {"k1"}
    MaxOutputBytes = 2
    MaxCancels = 2
    None = None
CHECK_DEADLOCK FALSE
INVARIANTS
    FailedRunIsKilled
    CompletedIsWhole
PROPERTIES
    GraphEnds
