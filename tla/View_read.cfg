SPECIFICATION Spec
CONSTANTS
    Addr = {1, 2, 3, 4, 5}
    Port = {80, 443}
    StaleSeconds = 4
    probeStatusRefresh = 2
    Before <- MCBefore
    Dangerous = {5}
    Malformed = {0}
    PeerName <- MCPeerName
    PolicyName <- MCPolicyName
    Peers <- MCPeers
    Policies <- MCPolicies
    Agents <- MCAgents
    Exports <- MCExports
    Imports <- MCImports
    Events <- MCEvents
    Locals <- MCLocals
    Absent = Absent
    Now = 10
    MaxChanges = 1
INVARIANTS SnapshotFaithful  ReportsAgree
PROPERTIES ImpactComplete SafePeersFit
CHECK_DEADLOCK FALSE
