CONSTANTS
    a1 = a1
    c1 = c1
    c2 = c2
    c3 = c3
    k1 = k1
    k2 = k2
    Models = {m1}
    Adapters = {a1}
    Configs = {k1, k2}
    Requests <- MCRequests
    Calls = {c1, c2, c3}
    None = None
SPECIFICATION Spec
INVARIANTS
    TablesAgree
PROPERTIES
    RegisteredOnce
    EveryCallReturns
    NameIsFreed
