CONSTANTS
    Calls = {c1, c2}
    Backends = {i1, i2, i3}
    MaxTokens = 3
    Foreign = Foreign
    None = None
    Kinds = {"generate", "encode"}
    Target = 2
    MaxInstances = 1
    TargetQueue = 10
    migration_delta = 0
    MaxMigrations = 1
SPECIFICATION Spec
CHECK_DEADLOCK FALSE
INVARIANTS
    InstancesAreRight
    
PROPERTIES
    
    GpusComeBack
