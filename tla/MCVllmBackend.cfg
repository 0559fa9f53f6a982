CONSTANTS
    Calls = {c1, c2, c3}
    Ids = {x}
    Inputs = {0, 1}
    MaxOutputs = 2
    Null = Null
SPECIFICATION Spec
CHECK_DEADLOCK FALSE
INVARIANTS
    ListedIsOngoing
    EmbeddingsAreWhole
PROPERTIES
    StopWaits
    StopReturns
