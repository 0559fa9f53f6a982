SPECIFICATION Spec
CONSTANTS
  p1 = p1  p2 = p2  p3 = p3
  c1 = c1  c2 = c2  c3 = c3
  b1 = b1  b2 = b2  b3 = b3  b4 = b4
  Paths = {p1}
  Size <- MCSize
  Generations = 2
  Buffers = {b1}
  NumThreads = 2
  Clients = {c1, c2}
  GpuClients = {c1}
  Server = Server
  Faults = {"read", "device"}
  Unloads = 1
  Clears = 1
  Null = Null
CHECK_DEADLOCK FALSE
INVARIANT NothingIsLost
SYMMETRY Symmetry
