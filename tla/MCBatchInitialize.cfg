SPECIFICATION FairSpec
CONSTANTS
  c1 = c1
  c2 = c2
  p1 = p1
  p2 = p2
  p3 = p3
  Callers = {c1, c2}
  Pools = {p1, p2, p3}
  PoolAddrs <- OverlappingAddrs
  Known = {p1, p3}
  RPCCalls = 4
  SharedSemaphore = TRUE
  MaxConcurrentCalls = 2
  Responsive = {c1, c2}
INVARIANTS
  ConcurrencyIsLimited
  NoCallIsStuck
PROPERTIES
  RefinesBatch
  CallsReturn
