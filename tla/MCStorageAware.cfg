SPECIFICATION SASpec
CONSTANTS
    a = a
    b = b
    r1 = r1
    r2 = r2
    r3 = r3
    r4 = r4
    n1 = n1
    n2 = n2
    NoNode = NoNode
    Models = {a, b}
    Requests = {r1, r2, r3, r4}
    ModelOf <- MCModelOf
    NumGpus <- MCNumGpus
    Nodes = {n1, n2}
    TotalGpus <- MCTotalGpus
    MaxStarts = 1
    DiskTime <- MCDiskTime
    PcieTime <- MCPcieTime
    NodeId <- MCNodeId
    StoreInfos <- MCStoreInfos
    MoveTimes = {2}
    Flaky = {n2}
INVARIANTS
    BooksBalance
PROPERTIES
    ImplementsUnlessMigrating
    FastestNode
    
SYMMETRY Symmetry
