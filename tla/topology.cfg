CONSTANTS
    h1 = h1
    h2 = h2
    h6 = h6
    Hosts <- MCHosts
    V6 <- MCV6
    Configs <- MCConfigs
    MaxInstances = 3
    Lookups = {l1}
    MaxCalls = 4
    MaxFailures = 1
SPECIFICATION Spec
INVARIANTS
    TypeOK
    NodesMatchHash
    TopologyFollowsConfig
    LookupsFindNodes
    
CHECK_DEADLOCK FALSE
