SPECIFICATION FirewallFairSpec
CONSTANTS
    here = here
    there = there
    six = six
    a = a
    http = http
    ssh = ssh
    Addr = {here, there}
    Port = {http, ssh}
    Policy = {p1, p2}
    PolicySpec <- MCSpecs
    Cluster = {a}
    PeerCIDRs <- MCPeerCIDRs
    NoObject = NoObject
    MaxWrites = 2
    MaxFaults = 1
    MaxCrashes = 1
INVARIANT FailsClosed
PROPERTIES PoliciesEnforced ReconcilerRests
CHECK_DEADLOCK FALSE
