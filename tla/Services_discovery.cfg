SPECIFICATION Spec
SYMMETRY Symmetry
CONSTANTS
    Node = {n1, n2}
    Scenarios <- MCScenarios
    Cluster = {1, 2}
    ClusterID = 1
    Key = {1, 2}
    LocalKey = {2}
    Hash <- MCHash
    maxProbeBudget = 2
    maxEndpointsPerSlice = 2
    Size4 = 4
    Size6 = 4
    ServiceSpecs <- MCServiceSpecs
    Mirrors <- MCMirrors
    SliceName <- MCSliceName
    ExportTimes = {4}
    Objects <- MCObjects
INVARIANTS PublishedRight ImportsRight 
PROPERTIES  ImportKept
CHECK_DEADLOCK FALSE
