SPECIFICATION Spec
CONSTANTS
    c1 = c1
    c2 = c2
    c3 = c3
    f1 = f1
    f2 = f2
    f3 = f3
    i1 = i1
    i2 = i2
    i3 = i3
    l1 = l1
    NoAdapter = NoAdapter
    NoCall = NoCall
    NoInstance = NoInstance
    Inferences = {c1, c2}
    FineTunings = {f1}
    Adapters = {l1}
    AdapterOf <- LoraFirst
    Instances = {i1, i2}
    Configs <- SharedOrPinned
    Period = 2
    Faults = {"start", "backend"}
SYMMETRY
    InstanceSymmetry
INVARIANTS
    RouterIsConsistent
PROPERTY
    ImplementsService
