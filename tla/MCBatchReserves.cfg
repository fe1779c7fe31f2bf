SPECIFICATION FairSpec
CONSTANTS
  c1 = c1
  c2 = c2
  p1 = p1
  p2 = p2
  p3 = p3
  Callers = {c1, c2}
  Pools = {p1, p2, p3}
  PoolAddrs <- ReservesAddrs
  Known = {p1, p2, p3}
  RPCCalls = 1
  SharedSemaphore = FALSE
  MaxConcurrentCalls = 2
  Responsive = {c1}
INVARIANTS
  TypeOK
  NoCallIsStuck
PROPERTIES
  CallsReturn
