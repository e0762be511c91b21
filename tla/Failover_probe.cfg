SPECIFICATION Spec
CONSTANTS
    Node = {a, b}
    Cluster = {"east"}
    NATNode = {a}
    Local = "here"
    Imports <- MCImports
    Exports <- MCExports
    StaleSeconds = 5
    probeStatusRefresh = 2
    MaxTime = 8
    RefreshInterval = 2
    Events = {"flip", "patchFails", "peerFails", "late", "stops", "restarts"}
    MaxEvents = 2
INVARIANTS FailoverTypeOK JustlyEvicted DeadEvicted SurfacesAgree
CHECK_DEADLOCK FALSE
