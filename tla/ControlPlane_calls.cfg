SPECIFICATION FairSpec
CONSTANTS
    Node = {n1, n2}
    Syncing = {n1}
    MaxAttempts = 2
    BaseDelay = 1
    MaxDelay = 2
    MaxDuration = 4
    MaxEvents = 2
INVARIANTS CallBounded Authenticated
PROPERTIES  ReportCatchesUp
CHECK_DEADLOCK FALSE
