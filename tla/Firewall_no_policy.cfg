SPECIFICATION FirewallFairSpec
CONSTANTS
    here = here
    there = there
    six = six
    a = a
    http = http
    ssh = ssh
    Addr = {here, there}
    Port = {http, ssh}
    Policy = {p1}
    PolicySpec <- MCSpecs
    Cluster = {a}
    PeerCIDRs <- MCPeerCIDRs
    NoObject = NoObject
    MaxWrites = 1
    MaxFaults = 0
    MaxCrashes = 1
PROPERTY NoPolicyNoEffect
CHECK_DEADLOCK FALSE
