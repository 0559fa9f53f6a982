SPECIFICATION Spec
CONSTANTS
  p1 = p1  p2 = p2  p3 = p3
  c1 = c1  c2 = c2  c3 = c3
  b1 = b1  b2 = b2  b3 = b3  b4 = b4
  Paths = {p1, p2, p3}
  Size <- MCSize
  Generations = 1
  Buffers = {b1, b2, b3}
  NumThreads = 2
  Clients = {c1, c2, c3}
  GpuClients = {}
  Server = Server
  Faults = {"open", "read"}
  Unloads = 0
  Clears = 0
  Null = Null
CHECK_DEADLOCK FALSE
INVARIANT MemoryIsConsistent
PROPERTY LeastRecentlyUsed
PROPERTY ImplementsCache
SYMMETRY Symmetry
