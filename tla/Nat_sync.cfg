SPECIFICATION FairSpec
CONSTANTS
    Bits <- MCBits
    DangerousNets <- MCDangerous
    Hash <- MCHash
    ClusterID = "here"
    LocalCIDRs <- MCLocal
    RemapPool <- MCPool
    ClusterSetCIDRs <- MCClusterSet
    ClientCIDRs <- MCClients
    HaveIPv6 = TRUE
    Roles <- MCRoles
    PeerSets <- MCPeerSets
    ServiceSets <- MCServiceSets
    MaxWrites = 2
    MaxTrouble = 1
INVARIANTS CommandsLegal NeverMisdirected BackendsShared SourceKept ClientsReturn 
PROPERTY ChainsConverge
CHECK_DEADLOCK FALSE
