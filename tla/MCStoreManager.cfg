CONSTANTS
    small = small
    large = large
    Nodes = {n1}
    Models = {small, large}
    Size <- MCSize
    Placements <- MCPlacements
    other = other
    n1 = n1
    n2 = n2
    Pretrained <- MCPretrained
    ChunkSize = 2
    MemPoolSize = 7
    Calls = {c1, c2}
    Loop = Loop
    None = None
    Absent = Absent
    MaxFaults = 1
SPECIFICATION Spec

    
PROPERTIES
    QueueIsServed
    
