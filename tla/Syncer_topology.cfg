SPECIFICATION SyncerFairSpec
CONSTANTS
    here = here
    b = b
    nb = nb
    nh = nh
    x = x
    y = y
    Peers <- MCPeers
    Agent = {n1, n2}
    Cluster = {here, b}
    LocalClusterID = here
    Name = {nh, nb}
    SanitizeName <- MCSanitize
    Config = {x, y}
    Absent = Absent
    MaxRevision = 2
    MaxTrouble = 1
PROPERTIES LivePeerKept 
CHECK_DEADLOCK FALSE
