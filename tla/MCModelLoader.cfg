CONSTANTS
    TensorNames <- MCTensorNames
    Pointers = {p, q, r}
    Sizes = {1, 7}
    Word = 2
    kAlignment = 2
    kBufferSize = 4
    kPartitionMaxSize = 10
    Gap = Gap
    Raised = Raised
    MaxFailures = 1
    ModuleNames <- MCModuleNames
    Module <- MCModule
    Prefixed <- MCPrefixed
    Memories <- MCMemories
    Requests <- MCRequests
    ChunkSize = 3
    NumThreads = 2
    MaxCopyFailures = 1
SPECIFICATION Spec
SYMMETRY Symmetry
INVARIANTS
    
    WrittenIsRight
    PlacementIsRight
