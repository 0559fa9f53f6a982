SPECIFICATION FairSpec
CONSTANTS
    a = a
    b = b
    r1 = r1
    r2 = r2
    r3 = r3
    n1 = n1
    n2 = n2
    NoNode = NoNode
    Models = {a, b}
    Requests = {r1, r2, r3}
    ModelOf <- MCModelOf
    NumGpus <- MCNumGpus
    Nodes = {n1, n2}
    TotalGpus <- MCTotalGpus
    MaxStarts = 2
INVARIANTS
    GpuConservation
    QueuedOnceAndPending
PROPERTIES
    FifoPerModel
    WorkConserving
    ImplementsAllocator
    
